-------------------------- MODULE WorkPackagesProofs --------------------------
(***************************************************************************)
(* Theorems about WorkPackages, for any data providers and sizes, any      *)
(* blocks, any chunk size aim and number of chunks in a package, and any   *)
(* way of splitting a block.                                               *)
(***************************************************************************)
EXTENDS WorkPackages, FiniteSetTheorems, FunctionTheorems, TLAPS

(* The inductive invariant.  A chunk is of a common block and of ranges    *)
(* within it, and covers the encodings with those positions.               *)
BlockOf(c) == <<c.left, c.right, c.block>>
WellPlaced(c) ==
    /\ BlockOf(c) \in CommonBlocks
    /\ c.rows \in Ranges(Count(c.left, c.block))
    /\ c.cols \in Ranges(Count(c.right, c.block))
Covers(c, t, e, f) ==
    /\ BlockOf(c) = t
    /\ Within(Rank(blocks[t[1]][t[3]], e), c.rows)
    /\ Within(Rank(blocks[t[2]][t[3]], f), c.cols)

(* Where the chunks of _create_work_packages may be at each step: never    *)
(* of a block it has yet to take, and in packages of several only whole.   *)
ChunkOK(c) == WellPlaced(c) /\ BlockOf(c) \notin todo
PackageOK(P) ==
    /\ P # {}
    /\ \A c \in P : ChunkOK(c) /\ (c = WholeChunk(BlockOf(c)) \/ P = {c})

Structure ==
    /\ step = "uploading" => todo = {} /\ pending = {} /\ current = {} /\ packages = << >>
    /\ step \in {"computing", "finished"} => todo = {} /\ pending = {} /\ current = {}
    /\ current = {} => comparisons = 0
    /\ pending # {} => step = "packing" /\ current = {}
    /\ \A c \in pending : ChunkOK(c)
    /\ \A c \in current : ChunkOK(c) /\ c = WholeChunk(BlockOf(c))
    /\ \A p \in DOMAIN packages : PackageOK(packages[p])

(* Every two encodings of a common block are still to come or covered,     *)
(* once: in one place, and there by one chunk.                             *)
CoveredAt(t, e, f) ==
    \/ t \in todo
    \/ \E c \in pending \cup current : Covers(c, t, e, f)
    \/ \E p \in DOMAIN packages : \E c \in packages[p] : Covers(c, t, e, f)
OnceAt(t, e, f) ==
    /\ \A c, d \in pending : Covers(c, t, e, f) /\ Covers(d, t, e, f) => c = d
    /\ \A p \in DOMAIN packages : \A c \in packages[p] : Covers(c, t, e, f) =>
          /\ \A d \in pending \cup current : ~Covers(d, t, e, f)
          /\ \A r \in DOMAIN packages : \A d \in packages[r] :
                Covers(d, t, e, f) => r = p /\ d = c

Coverage ==
    step # "uploading" =>
        \A t \in CommonBlocks : \A e \in blocks[t[1]][t[3]], f \in blocks[t[2]][t[3]] :
            CoveredAt(t, e, f) /\ OnceAt(t, e, f)

PackingInvariant == PackingTypeOK /\ Structure /\ Coverage

-------------------------------------------------------------------------------
(* Positions in a finite set of entities.                                  *)

(* There are finitely many entities.                                       *)
LEMMA EntityFinite == IsFiniteSet(Entity) /\ Entity \subseteq Nat
<1> DEFINE R == {0 .. Size[d] - 1 : d \in DataProvider}
           f == [d \in DataProvider |-> 0 .. Size[d] - 1]
<1>1. \A d \in DataProvider : Size[d] \in Nat
  BY PackagesAssumption DEF PackagesAssumption
<1>2. f \in Surjection(DataProvider, R)
  BY DEF Surjection
<1>3. IsFiniteSet(R)
  BY <1>2, FS_Surjection, PackagesAssumption DEF PackagesAssumption
<1>4. \A T \in R : IsFiniteSet(T)
  BY <1>1, FS_Interval
<1>5. IsFiniteSet(UNION R)
  BY <1>3, <1>4, FS_UNION
<1> QED
  BY <1>1, <1>5 DEF Entity

(* A block is a finite set of numbers.                                     *)
LEMMA BlockFinite ==
  ASSUME PackingTypeOK, NEW d \in DataProvider, NEW b \in BlockName
  PROVE  /\ blocks[d][b] \subseteq Nat
         /\ IsFiniteSet(blocks[d][b])
         /\ Count(d, b) \in Nat
<1>1. blocks[d][b] \in SUBSET Entity
  BY DEF PackingTypeOK
<1>2. IsFiniteSet(blocks[d][b])
  BY <1>1, EntityFinite, FS_Subset
<1> QED
  BY <1>1, <1>2, EntityFinite, FS_CardinalityType DEF Count

(* The position of an element is below the size of the set.                *)
LEMMA RankBound ==
  ASSUME NEW S \in SUBSET Nat, IsFiniteSet(S), NEW e \in S
  PROVE  Rank(S, e) \in 0 .. Cardinality(S) - 1
<1> DEFINE T == {f \in S : f < e}
<1>1. T \in SUBSET S /\ e \notin T
  OBVIOUS
<1>2. IsFiniteSet(T) /\ Cardinality(T) <= Cardinality(S) /\ Cardinality(T) # Cardinality(S)
  BY <1>1, FS_Subset
<1>3. Cardinality(T) \in Nat /\ Cardinality(S) \in Nat
  BY <1>2, FS_CardinalityType
<1> QED
  BY <1>2, <1>3 DEF Rank

(* Smaller elements have smaller positions.                                *)
LEMMA RankGrows ==
  ASSUME NEW S \in SUBSET Nat, IsFiniteSet(S), NEW d \in S, NEW e \in S, d < e
  PROVE  Rank(S, d) < Rank(S, e)
<1> DEFINE D == {f \in S : f < d}
           E == {f \in S : f < e}
<1>0. d \in Nat /\ e \in Nat /\ \A f \in S : f \in Nat
  OBVIOUS
<1>1. D \in SUBSET E /\ d \in E /\ d \notin D
  <2>1. \A f \in S : f < d => f < e
    BY <1>0
  <2>2. ~(d < d)
    BY <1>0
  <2> QED
    BY <2>1, <2>2
<1>2. IsFiniteSet(E)
  BY FS_Subset
<1>3. IsFiniteSet(D) /\ Cardinality(D) <= Cardinality(E) /\ Cardinality(D) # Cardinality(E)
  BY <1>1, <1>2, FS_Subset
<1>4. Cardinality(D) \in Nat /\ Cardinality(E) \in Nat
  BY <1>2, <1>3, FS_CardinalityType
<1> QED
  BY <1>3, <1>4 DEF Rank

(* Every position below the size is that of some element.                  *)
LEMMA RankOnto ==
  ASSUME NEW S \in SUBSET Nat, IsFiniteSet(S), NEW i \in 0 .. Cardinality(S) - 1
  PROVE  \E e \in S : Rank(S, e) = i
<1> DEFINE n == Cardinality(S)
           f == [e \in S |-> Rank(S, e)]
<1>1. n \in Nat
  BY FS_CardinalityType
<1>2. f \in [S -> 0 .. n - 1]
  BY RankBound
<1>3. \A d, e \in S : d # e => Rank(S, d) # Rank(S, e)
  <2>1. ASSUME NEW d \in S, NEW e \in S, d < e
        PROVE  Rank(S, d) # Rank(S, e)
    <3>1. Rank(S, d) < Rank(S, e)
      BY <2>1, RankGrows
    <3>2. Rank(S, d) \in Nat /\ Rank(S, e) \in Nat
      BY <1>1, RankBound
    <3> QED
      BY <3>1, <3>2
  <2>2. \A d, e \in S : d # e => d < e \/ e < d
    OBVIOUS
  <2> QED
    BY <2>1, <2>2
<1>4. f \in Injection(S, 0 .. n - 1)
  <2>1. \A d, e \in S : f[d] = f[e] => d = e
    BY <1>3
  <2> HIDE DEF f
  <2> QED
    BY <1>2, <2>1 DEF Injection, IsInjective
<1>5. IsFiniteSet(0 .. n - 1) /\ Cardinality(0 .. n - 1) = n
  BY <1>1, FS_Interval
<1>6. f \in Surjection(S, 0 .. n - 1)
  BY <1>4, <1>5, FS_Injection
<1> QED
  BY <1>6 DEF Surjection

-------------------------------------------------------------------------------
(* Every variable keeps its type.                                          *)

(* A chunk of a common block, with ranges within the block, is a chunk.    *)
LEMMA ChunkType ==
  ASSUME PackingTypeOK, NEW t \in CommonBlocks,
         NEW r \in Nat \X Nat, NEW s \in Nat \X Nat
  PROVE  Chunk(t, r, s) \in Chunks
  BY DEF CommonBlocks, Chunk, Chunks

(* The chunks of a split block.                                            *)
LEMMA GridType ==
  ASSUME PackingTypeOK, NEW t \in CommonBlocks,
         NEW P \in Splits(Count(t[1], t[3])), NEW Q \in Splits(Count(t[2], t[3]))
  PROVE  ChunkGrid(t, P, Q) \subseteq Chunks
<1>1. t[1] \in DataProvider /\ t[2] \in DataProvider /\ t[3] \in BlockName
  BY DEF CommonBlocks
<1>2. Count(t[1], t[3]) \in Nat /\ Count(t[2], t[3]) \in Nat
  BY <1>1, BlockFinite
<1>3. \A r \in P : r \in Nat \X Nat
  BY <1>2 DEF Splits, Ranges
<1>4. \A s \in Q : s \in Nat \X Nat
  BY <1>2 DEF Splits, Ranges
<1> QED
  BY <1>3, <1>4, ChunkType DEF ChunkGrid

(* The one chunk of a block that is not split.                             *)
LEMMA WholeType ==
  ASSUME PackingTypeOK, NEW t \in CommonBlocks
  PROVE  WholeChunk(t) \in Chunks /\ NumComparisons(t) \in Nat
<1>1. t[1] \in DataProvider /\ t[2] \in DataProvider /\ t[3] \in BlockName
  BY DEF CommonBlocks
<1>2. Count(t[1], t[3]) \in Nat /\ Count(t[2], t[3]) \in Nat
  BY <1>1, BlockFinite
<1> QED
  BY <1>2, ChunkType DEF WholeChunk, NumComparisons

(* Appending a set of chunks keeps the packages typed, and the old ones.   *)
LEMMA AppendPackage ==
  ASSUME PackingTypeOK, NEW P \in SUBSET Chunks
  PROVE  /\ Append(packages, P) \in Seq(SUBSET Chunks)
         /\ Len(packages) \in Nat
         /\ DOMAIN packages = 1 .. Len(packages)
         /\ DOMAIN Append(packages, P) = 1 .. Len(packages) + 1
         /\ \A p \in DOMAIN packages : Append(packages, P)[p] = packages[p]
         /\ Append(packages, P)[Len(packages) + 1] = P
  BY DEF PackingTypeOK

(* Whatever its format, an upload stores entities of the data provider.    *)
LEMMA Contents ==
  ASSUME NEW d \in DataProvider,
         UploadBlocks(d) \/ UploadMap(d) \/ UploadJson(d) \/ UploadBinary(d)
  PROVE  \E keys, contents :
            /\ Upload(d, keys, contents)
            /\ \A b \in DOMAIN contents : contents[b] \subseteq Entity
<1>1. \A n \in 1 .. Size[d] : 0 .. n - 1 \subseteq Entity
  <2>1. Size[d] \in Nat
    BY PackagesAssumption DEF PackagesAssumption
  <2>2. \A n \in 1 .. Size[d] : 0 .. n - 1 \subseteq 0 .. Size[d] - 1
    BY <2>1
  <2> QED
    BY <2>2 DEF Entity
<1>2. ASSUME NEW n \in Nat, 0 .. n - 1 \subseteq Entity, NEW contents \in Blocking(n)
      PROVE  \A b \in DOMAIN contents : contents[b] \subseteq Entity
  <2>1. PICK of \in [Block -> SUBSET (0 .. n - 1)] :
           contents = [b \in {Hashed(c) : c \in Block} |-> of[b[2]]]
    BY DEF Blocking
  <2>2. \A c \in Block : Hashed(c)[2] = c
    BY DEF Hashed
  <2>3. \A c \in Block : contents[Hashed(c)] \subseteq 0 .. n - 1
    BY <2>1, <2>2
  <2> QED
    BY <1>2, <2>1, <2>3
<1>3. \A n \in 1 .. Size[d] : n \in Nat
  BY PackagesAssumption DEF PackagesAssumption
<1>4. CASE UploadBlocks(d)
  BY <1>1, <1>2, <1>3, <1>4 DEF UploadBlocks
<1>5. CASE UploadMap(d)
  <2>0. PICK n \in 1 .. Size[d] : \E k \in 1 .. n :
           \E keys \in [0 .. k - 1 -> 0 .. n - 1] : \E contents \in Blocking(k) : Upload(d, keys, contents)
    BY <1>5 DEF UploadMap
  <2>1. PICK k \in 1 .. n :
           \E keys \in [0 .. k - 1 -> 0 .. n - 1] : \E contents \in Blocking(k) : Upload(d, keys, contents)
    BY <2>0
  <2>2. PICK keys, contents : contents \in Blocking(k) /\ Upload(d, keys, contents)
    BY <2>1
  <2>3. k \in 1 .. Size[d]
    BY PackagesAssumption DEF PackagesAssumption
  <2> QED
    BY <1>1, <1>2, <1>3, <2>2, <2>3
<1>6. CASE UploadJson(d)
  BY <1>1, <1>6 DEF UploadJson
<1>7. CASE UploadBinary(d)
  BY <1>1, <1>7 DEF UploadBinary
<1> QED
  BY <1>4, <1>5, <1>6, <1>7

(* The initial values have their types.                                    *)
LEMMA TypeInit == Init => PackingTypeOK
<1> SUFFICES ASSUME Init PROVE PackingTypeOK
  OBVIOUS
<1>1. packages \in Seq(SUBSET Chunks)
  BY DEF Init
<1>2. schema \in {"blocking", "none"}
  BY PackagesAssumption DEF Init, PackagesAssumption
<1> QED
  BY <1>1, <1>2 DEF Init, PackingTypeOK

(* Every step keeps the types.                                             *)
LEMMA TypeStep ==
  ASSUME PackingTypeOK, Structure, [Next]_vars
  PROVE  PackingTypeOK'
<1>1. ASSUME NEW d \in DataProvider,
             UploadBlocks(d) \/ UploadMap(d) \/ UploadJson(d) \/ UploadBinary(d)
      PROVE  PackingTypeOK'
  <2>1. PICK keys, contents :
           /\ Upload(d, keys, contents)
           /\ \A b \in DOMAIN contents : contents[b] \subseteq Entity
    BY <1>1, Contents
  <2>2. blocks' \in [DataProvider -> [BlockName -> SUBSET Entity]]
    BY <2>1 DEF Upload, PackingTypeOK
  <2>3. todo' = {} /\ UNCHANGED <<schema, step, packing, results>>
    BY <2>1 DEF Upload, Structure, packing
  <2>4. uploaded' \subseteq DataProvider /\ DOMAIN rows' = DataProvider
    BY <2>1 DEF Upload, PackingTypeOK
  <2> QED
    BY <2>2, <2>3, <2>4 DEF PackingTypeOK, packing, results
<1>2. CASE CreateJobs
  BY <1>2 DEF CreateJobs, PackingTypeOK, stored, results, CommonBlocks, Count
<1>3. ASSUME NEW t \in todo, SplitBlock(t)
      PROVE  PackingTypeOK'
  <2>1. t \in CommonBlocks
    BY DEF PackingTypeOK
  <2>2. pending' \subseteq Chunks
    BY <1>3, <2>1, GridType DEF SplitBlock
  <2>3. packages' \in Seq(SUBSET Chunks) /\ DOMAIN packages \subseteq DOMAIN packages'
    BY <1>3, AppendPackage DEF SplitBlock, Flushed, PackingTypeOK
  <2> QED
    BY <1>3, <2>2, <2>3 DEF SplitBlock, TakeBlock, PackingTypeOK, stored, results, CommonBlocks
<1>4. CASE AppendChunk
  <2>1. PICK c \in pending : pending' = pending \ {c} /\ packages' = Append(packages, {c})
    BY <1>4 DEF AppendChunk
  <2>2. {c} \in SUBSET Chunks
    BY DEF PackingTypeOK
  <2>3. packages' \in Seq(SUBSET Chunks) /\ DOMAIN packages \subseteq DOMAIN packages'
    BY <2>1, <2>2, AppendPackage
  <2> QED
    BY <1>4, <2>1, <2>3 DEF AppendChunk, PackingTypeOK, stored, results, CommonBlocks
<1>5. ASSUME NEW t \in todo, BundleBlock(t)
      PROVE  PackingTypeOK'
  <2>1. WholeChunk(t) \in Chunks /\ NumComparisons(t) \in Nat
    BY WholeType DEF PackingTypeOK
  <2>2. packages' \in Seq(SUBSET Chunks) /\ DOMAIN packages \subseteq DOMAIN packages'
    BY <1>5, AppendPackage DEF BundleBlock, PackingTypeOK
  <2>3. current' \subseteq Chunks /\ comparisons' \in Nat
    BY <1>5, <2>1 DEF BundleBlock, PackingTypeOK
  <2> QED
    BY <1>5, <2>2, <2>3 DEF BundleBlock, TakeBlock, PackingTypeOK, stored, results, CommonBlocks
<1>6. CASE SendPackages
  <2>1. packages' \in Seq(SUBSET Chunks) /\ DOMAIN packages \subseteq DOMAIN packages'
    BY <1>6, AppendPackage DEF SendPackages, Flushed, PackingTypeOK
  <2> QED
    BY <1>6, <2>1 DEF SendPackages, PackingTypeOK, stored, results, CommonBlocks
<1>7. ASSUME NEW p \in DOMAIN packages, Compute(p)
      PROVE  PackingTypeOK'
  BY <1>7 DEF Compute, PackingTypeOK, stored, packing, CommonBlocks
<1>8. CASE MergeFiles \/ Finish
  BY <1>8 DEF MergeFiles, Finish, PackingTypeOK, stored, packing, CommonBlocks
<1>9. CASE UNCHANGED vars
  BY <1>9 DEF vars, PackingTypeOK, CommonBlocks
<1> QED
  BY <1>1, <1>2, <1>3, <1>4, <1>5, <1>6, <1>7, <1>8, <1>9 DEF Next

-------------------------------------------------------------------------------
(* The places of the chunks.                                               *)

(* What is said of a chunk stays true while the blocks are the same and no *)
(* block comes back.                                                       *)
LEMMA ChunksStay ==
  ASSUME UNCHANGED blocks
  PROVE  /\ CommonBlocks' = CommonBlocks
         /\ \A c : WellPlaced(c)' <=> WellPlaced(c)
         /\ \A t : WholeChunk(t)' = WholeChunk(t)
         /\ \A c, t, e, f : Covers(c, t, e, f)' <=> Covers(c, t, e, f)
  BY DEF CommonBlocks, WellPlaced, Count, WholeChunk, Covers

(* So does what is said of the chunks of a package.                        *)
LEMMA PackagesStay ==
  ASSUME UNCHANGED blocks, todo' \subseteq todo
  PROVE  /\ \A c : ChunkOK(c) => ChunkOK(c)'
         /\ \A P : PackageOK(P) => PackageOK(P)'
  BY ChunksStay DEF ChunkOK, PackageOK

(* A block of the grid is of its block and within it.                      *)
LEMMA GridPlaced ==
  ASSUME NEW t \in CommonBlocks,
         NEW P \in Splits(Count(t[1], t[3])), NEW Q \in Splits(Count(t[2], t[3])),
         NEW c \in ChunkGrid(t, P, Q)
  PROVE  WellPlaced(c) /\ BlockOf(c) = t
<1>1. PICK r \in P, s \in Q : c = Chunk(t, r, s)
  BY DEF ChunkGrid
<1>2. c.left = t[1] /\ c.right = t[2] /\ c.block = t[3] /\ c.rows = r /\ c.cols = s
  BY <1>1 DEF Chunk
<1>3. t = <<t[1], t[2], t[3]>>
  BY DEF CommonBlocks
<1>4. r \in Ranges(Count(t[1], t[3])) /\ s \in Ranges(Count(t[2], t[3]))
  BY DEF Splits
<1> QED
  BY <1>2, <1>3, <1>4 DEF WellPlaced, BlockOf

(* The one chunk of a block that is not split is within it.                *)
LEMMA WholePlaced ==
  ASSUME PackingTypeOK, NEW t \in CommonBlocks
  PROVE  WellPlaced(WholeChunk(t)) /\ BlockOf(WholeChunk(t)) = t
<1> DEFINE c == WholeChunk(t)
<1>1. /\ c.left = t[1] /\ c.right = t[2] /\ c.block = t[3]
      /\ c.rows = <<0, Count(t[1], t[3])>> /\ c.cols = <<0, Count(t[2], t[3])>>
  BY DEF WholeChunk, Chunk
<1>2. /\ t = <<t[1], t[2], t[3]>>
      /\ t[1] \in DataProvider /\ t[2] \in DataProvider /\ t[3] \in BlockName
      /\ blocks[t[1]][t[3]] # {} /\ blocks[t[2]][t[3]] # {}
  BY DEF CommonBlocks
<1>3. Count(t[1], t[3]) \in Nat \ {0} /\ Count(t[2], t[3]) \in Nat \ {0}
  BY <1>2, BlockFinite, FS_EmptySet DEF Count
<1>4. c.rows \in Ranges(Count(t[1], t[3])) /\ c.cols \in Ranges(Count(t[2], t[3]))
  BY <1>1, <1>3 DEF Ranges
<1> QED
  BY <1>1, <1>2, <1>4 DEF WellPlaced, BlockOf

(* A package that is appended is the only new one.                         *)
LEMMA PackagesGrow ==
  ASSUME PackingTypeOK, NEW P \in SUBSET Chunks, packages' = Append(packages, P)
  PROVE  /\ \A p \in DOMAIN packages : p \in DOMAIN packages' /\ packages'[p] = packages[p]
         /\ \E n \in DOMAIN packages' :
               /\ n \notin DOMAIN packages /\ packages'[n] = P
               /\ DOMAIN packages' = DOMAIN packages \cup {n}
<1>1. Len(packages) + 1 \notin 1 .. Len(packages)
  BY AppendPackage
<1>2. 1 .. Len(packages) + 1 = (1 .. Len(packages)) \cup {Len(packages) + 1}
  BY AppendPackage
<1> QED
  BY <1>1, <1>2, AppendPackage

(* A step that appends no package.                                         *)
LEMMA PackagesSame ==
  ASSUME Structure, UNCHANGED <<blocks, packages>>, todo' \subseteq todo
  PROVE  \A p \in DOMAIN packages' : PackageOK(packages[p])'
<1>1. \A p \in DOMAIN packages : PackageOK(packages[p])
  BY DEF Structure
<1>2. \A c : (BlockOf(c) \notin todo => BlockOf(c) \notin todo') /\ (WellPlaced(c) => WellPlaced(c)')
             /\ (c = WholeChunk(BlockOf(c)) => c = WholeChunk(BlockOf(c))')
  BY ChunksStay DEF BlockOf
<1> QED
  BY <1>1, <1>2 DEF PackageOK, ChunkOK, BlockOf

(* A step that appends one.                                                *)
LEMMA PackageAdded ==
  ASSUME PackingTypeOK, Structure, UNCHANGED blocks, todo' \subseteq todo,
         NEW P \in SUBSET Chunks, PackageOK(P), packages' = Append(packages, P)
  PROVE  \A p \in DOMAIN packages' : PackageOK(packages[p])'
<1>1. \A p \in DOMAIN packages' : PackageOK(packages'[p])
  BY PackagesGrow DEF Structure
<1>2. \A c : (BlockOf(c) \notin todo => BlockOf(c) \notin todo') /\ (WellPlaced(c) => WellPlaced(c)')
             /\ (c = WholeChunk(BlockOf(c)) => c = WholeChunk(BlockOf(c))')
  BY ChunksStay DEF BlockOf
<1> QED
  BY <1>1, <1>2 DEF PackageOK, ChunkOK, BlockOf

(* Appending the current package if there is one.                          *)
LEMMA FlushAdded ==
  ASSUME PackingTypeOK, Structure, UNCHANGED blocks, todo' \subseteq todo, packages' = Flushed
  PROVE  \A p \in DOMAIN packages' : PackageOK(packages[p])'
<1>1. CASE current = {}
  BY <1>1, PackagesSame DEF Flushed
<1>2. CASE current # {}
  <2>1. PackageOK(current) /\ current \in SUBSET Chunks /\ packages' = Append(packages, current)
    BY <1>2 DEF Structure, PackageOK, Flushed, PackingTypeOK
  <2> QED
    BY <2>1, PackageAdded
<1> QED
  BY <1>1, <1>2

(* No chunk is anywhere at first.                                          *)
LEMMA StructureInit == Init => Structure
  BY DEF Init, Structure

(* Every step keeps the chunks in their places.                            *)
LEMMA StructureStep ==
  ASSUME PackingTypeOK, Structure, [Next]_vars
  PROVE  Structure'
<1>1. ASSUME NEW d \in DataProvider,
             UploadBlocks(d) \/ UploadMap(d) \/ UploadJson(d) \/ UploadBinary(d)
      PROVE  Structure'
  <2>1. PICK keys, contents : Upload(d, keys, contents)
    BY <1>1, Contents
  <2> QED
    BY <2>1 DEF Upload, Structure, packing
<1>2. CASE CreateJobs
  <2>1. step = "uploading"
    BY <1>2 DEF CreateJobs
  <2>2. pending' = {} /\ current' = {} /\ packages' = << >> /\ comparisons' = 0 /\ step' = "packing"
    BY <1>2, <2>1 DEF CreateJobs, Structure
  <2> QED
    BY <2>2 DEF Structure
<1>3. ASSUME NEW t \in todo, SplitBlock(t)
      PROVE  Structure'
  <2>1. /\ UNCHANGED <<blocks, step>> /\ todo' = todo \ {t} /\ step = "packing"
        /\ current' = {} /\ comparisons' = 0 /\ packages' = Flushed
    BY <1>3 DEF SplitBlock, TakeBlock, stored
  <2>2. \A c \in pending' : ChunkOK(c)'
    <3>1. t \in CommonBlocks
      BY DEF PackingTypeOK
    <3>2. \A c \in pending' : WellPlaced(c) /\ BlockOf(c) = t
      BY <1>3, <3>1, GridPlaced DEF SplitBlock
    <3> QED
      BY <2>1, <3>2, ChunksStay DEF ChunkOK, BlockOf
  <2>3. \A p \in DOMAIN packages' : PackageOK(packages[p])'
    BY <2>1, FlushAdded
  <2> QED
    BY <2>1, <2>2, <2>3 DEF Structure
<1>4. CASE AppendChunk
  <2>1. PICK c \in pending : pending' = pending \ {c} /\ packages' = Append(packages, {c})
    BY <1>4 DEF AppendChunk
  <2>2. /\ UNCHANGED <<blocks, step, todo, current, comparisons>>
        /\ step = "packing" /\ current = {}
    BY <1>4, <2>1 DEF AppendChunk, stored, Structure
  <2>3. PackageOK({c}) /\ {c} \in SUBSET Chunks
    BY DEF Structure, PackageOK, PackingTypeOK
  <2>4. \A p \in DOMAIN packages' : PackageOK(packages[p])'
    BY <2>1, <2>2, <2>3, PackageAdded
  <2>5. \A d \in pending' : ChunkOK(d)'
    BY <2>1, <2>2, PackagesStay DEF Structure
  <2> QED
    BY <2>1, <2>2, <2>4, <2>5 DEF Structure
<1>5. ASSUME NEW t \in todo, BundleBlock(t)
      PROVE  Structure'
  <2>1. /\ UNCHANGED <<blocks, step, pending>> /\ todo' = todo \ {t}
        /\ step = "packing" /\ pending = {}
    BY <1>5 DEF BundleBlock, TakeBlock, stored
  <2>0. PICK w : w = WholeChunk(t)
    OBVIOUS
  <2>2. t \in CommonBlocks /\ BlockOf(w) = t /\ WellPlaced(w)
    BY <2>0, WholePlaced DEF PackingTypeOK
  <2>3. ChunkOK(w)' /\ w = WholeChunk(BlockOf(w))'
    BY <2>0, <2>1, <2>2, ChunksStay DEF ChunkOK, BlockOf
  <2>4. \A c \in current : ChunkOK(c)' /\ c = WholeChunk(BlockOf(c))'
    BY <2>1, PackagesStay, ChunksStay DEF Structure
  <2>5. CASE Fits(t)
    <3>1. current' = current \cup {w} /\ UNCHANGED packages
      BY <1>5, <2>0, <2>5 DEF BundleBlock
    <3>2. \A p \in DOMAIN packages' : PackageOK(packages[p])'
      BY <2>1, <3>1, PackagesSame
    <3>3. \A c \in current' : ChunkOK(c)' /\ c = WholeChunk(BlockOf(c))'
      BY <2>3, <2>4, <3>1
    <3> QED
      BY <2>1, <3>1, <3>2, <3>3 DEF Structure
  <2>6. CASE ~Fits(t)
    <3>1. packages' = Append(packages, current) /\ current' = {w}
      BY <1>5, <2>0, <2>6 DEF BundleBlock
    <3>2. current # {}
      <4>1. ASSUME current = {}
            PROVE  Fits(t)
        <5>1. comparisons = 0 /\ Cardinality(current) = 0
          BY <4>1, FS_EmptySet DEF Structure
        <5>2. NumComparisons(t) <= ChunkSizeAim /\ NumComparisons(t) \in Nat
          BY <1>5, <2>2, WholeType DEF BundleBlock
        <5> QED
          BY <5>1, <5>2, PackagesAssumption DEF Fits, PackagesAssumption
      <4> QED
        BY <2>6, <4>1
    <3>3. PackageOK(current) /\ current \in SUBSET Chunks
      BY <3>2 DEF Structure, PackageOK, PackingTypeOK
    <3>4. \A p \in DOMAIN packages' : PackageOK(packages[p])'
      BY <2>1, <3>1, <3>3, PackageAdded
    <3> QED
      BY <2>1, <2>3, <3>1, <3>4 DEF Structure
  <2> QED
    BY <2>5, <2>6
<1>6. CASE SendPackages
  <2>1. /\ UNCHANGED blocks /\ todo = {} /\ pending = {} /\ todo' = todo /\ pending' = pending
        /\ current' = {} /\ comparisons' = 0 /\ step' = "computing" /\ packages' = Flushed
    BY <1>6 DEF SendPackages, stored
  <2>2. \A p \in DOMAIN packages' : PackageOK(packages[p])'
    BY <2>1, FlushAdded
  <2> QED
    BY <2>1, <2>2 DEF Structure
<1>7. ASSUME UNCHANGED <<blocks, packing>>,
             step' = step \/ (step = "computing" /\ step' = "finished")
      PROVE  Structure'
  <2>1. UNCHANGED <<blocks, todo, pending, current, comparisons, packages>>
    BY <1>7 DEF packing
  <2>2. \A p \in DOMAIN packages' : PackageOK(packages[p])'
    BY <2>1, PackagesSame
  <2>3. (\A c \in pending : ChunkOK(c)') /\ \A c \in current : ChunkOK(c)' /\ c = WholeChunk(BlockOf(c))'
    BY <2>1, PackagesStay, ChunksStay DEF Structure
  <2> QED
    BY <1>7, <2>1, <2>2, <2>3 DEF Structure
<1>8. ASSUME NEW p \in DOMAIN packages, Compute(p)
      PROVE  Structure'
  BY <1>7, <1>8 DEF Compute, stored
<1>9. CASE MergeFiles
  BY <1>7, <1>9 DEF MergeFiles, stored
<1>10. CASE Finish
  BY <1>7, <1>10 DEF Finish, Aggregating, stored
<1>11. CASE UNCHANGED vars
  BY <1>7, <1>11 DEF vars, packing
<1> QED
  BY <1>1, <1>2, <1>3, <1>4, <1>5, <1>6, <1>8, <1>9, <1>10, <1>11 DEF Next

-------------------------------------------------------------------------------
(* Every pair in a common block is covered once.                           *)

(* A split puts every position into one range.                             *)
LEMMA GridCovers ==
  ASSUME PackingTypeOK, NEW t \in CommonBlocks,
         NEW P \in Splits(Count(t[1], t[3])), NEW Q \in Splits(Count(t[2], t[3])),
         NEW e \in blocks[t[1]][t[3]], NEW f \in blocks[t[2]][t[3]]
  PROVE  \E c \in ChunkGrid(t, P, Q) :
            /\ Covers(c, t, e, f)
            /\ \A d \in ChunkGrid(t, P, Q) : Covers(d, t, e, f) => d = c
<1> DEFINE i == Rank(blocks[t[1]][t[3]], e)
           j == Rank(blocks[t[2]][t[3]], f)
<1>1. t[1] \in DataProvider /\ t[2] \in DataProvider /\ t[3] \in BlockName
      /\ t = <<t[1], t[2], t[3]>>
  BY DEF CommonBlocks
<1>2. i \in 0 .. Count(t[1], t[3]) - 1 /\ j \in 0 .. Count(t[2], t[3]) - 1
  BY <1>1, BlockFinite, RankBound DEF Count
<1>3. PICK r \in P : Within(i, r) /\ \A s \in P : Within(i, s) => s = r
  BY <1>2 DEF Splits
<1>4. PICK s \in Q : Within(j, s) /\ \A r2 \in Q : Within(j, r2) => r2 = s
  BY <1>2 DEF Splits
<1>5. Chunk(t, r, s) \in ChunkGrid(t, P, Q)
  BY DEF ChunkGrid
<1>6. Covers(Chunk(t, r, s), t, e, f)
  BY <1>1, <1>3, <1>4 DEF Covers, Chunk, BlockOf
<1>7. ASSUME NEW d \in ChunkGrid(t, P, Q), Covers(d, t, e, f)
      PROVE  d = Chunk(t, r, s)
  <2>1. PICK r2 \in P, s2 \in Q : d = Chunk(t, r2, s2)
    BY DEF ChunkGrid
  <2>2. Within(i, r2) /\ Within(j, s2)
    BY <1>7, <2>1 DEF Covers, Chunk
  <2> QED
    BY <1>3, <1>4, <2>1, <2>2
<1> QED
  BY <1>5, <1>6, <1>7

(* The one chunk of a block that is not split covers every pair.           *)
LEMMA WholeCovers ==
  ASSUME PackingTypeOK, NEW t \in CommonBlocks,
         NEW e \in blocks[t[1]][t[3]], NEW f \in blocks[t[2]][t[3]]
  PROVE  Covers(WholeChunk(t), t, e, f)
<1>1. t[1] \in DataProvider /\ t[2] \in DataProvider /\ t[3] \in BlockName
  BY DEF CommonBlocks
<1>2. /\ Rank(blocks[t[1]][t[3]], e) \in 0 .. Count(t[1], t[3]) - 1
      /\ Rank(blocks[t[2]][t[3]], f) \in 0 .. Count(t[2], t[3]) - 1
      /\ Count(t[1], t[3]) \in Nat /\ Count(t[2], t[3]) \in Nat
  BY <1>1, BlockFinite, RankBound DEF Count
<1>3. BlockOf(WholeChunk(t)) = t
  BY WholePlaced
<1> QED
  BY <1>2, <1>3 DEF Covers, WholeChunk, Chunk, Within

(* What packages cover after one is appended.                              *)
LEMMA AppendedCovers ==
  ASSUME PackingTypeOK, NEW P \in SUBSET Chunks, packages' = Append(packages, P),
         NEW t, NEW e, NEW f, OnceAt(t, e, f),
         \A c, d \in P : Covers(c, t, e, f) /\ Covers(d, t, e, f) => c = d,
         \A c \in P : Covers(c, t, e, f) =>
             \A p \in DOMAIN packages : \A d \in packages[p] : ~Covers(d, t, e, f)
  PROVE  /\ \A p \in DOMAIN packages' : \A c \in packages'[p] : Covers(c, t, e, f) =>
               \A r \in DOMAIN packages' : \A d \in packages'[r] :
                  Covers(d, t, e, f) => r = p /\ d = c
         /\ \A c : (\E p \in DOMAIN packages' : c \in packages'[p]) <=>
                   c \in P \/ \E p \in DOMAIN packages : c \in packages[p]
<1>1. PICK n \in DOMAIN packages' :
         /\ n \notin DOMAIN packages /\ packages'[n] = P
         /\ DOMAIN packages' = DOMAIN packages \cup {n}
  BY PackagesGrow
<1>2. \A p \in DOMAIN packages : p \in DOMAIN packages' /\ packages'[p] = packages[p]
  BY PackagesGrow
<1> QED
  BY <1>1, <1>2 DEF OnceAt

(* Moving the current package to the end of the packages.                  *)
LEMMA FlushedCovers ==
  ASSUME PackingTypeOK, Structure, packages' = Flushed,
         NEW t \in CommonBlocks, NEW e, NEW f, OnceAt(t, e, f)
  PROVE  /\ \A p \in DOMAIN packages' : \A c \in packages'[p] : Covers(c, t, e, f) =>
               \A r \in DOMAIN packages' : \A d \in packages'[r] :
                  Covers(d, t, e, f) => r = p /\ d = c
         /\ \A c : (\E p \in DOMAIN packages' : c \in packages'[p]) <=>
                   c \in current \/ \E p \in DOMAIN packages : c \in packages[p]
<1>1. CASE current = {}
  BY <1>1 DEF Flushed, OnceAt
<1>2. CASE current # {}
  <2>1. packages' = Append(packages, current) /\ current \in SUBSET Chunks
    BY <1>2 DEF Flushed, PackingTypeOK
  <2>2. \A c, d \in current : Covers(c, t, e, f) /\ Covers(d, t, e, f) => c = d
    BY DEF Structure, Covers
  <2>3. \A c \in current : Covers(c, t, e, f) =>
             \A p \in DOMAIN packages : \A d \in packages[p] : ~Covers(d, t, e, f)
    BY DEF OnceAt
  <2> QED
    BY <2>1, <2>2, <2>3, AppendedCovers
<1> QED
  BY <1>1, <1>2

(* A chunk that is somewhere is of no block still to come.                 *)
LEMMA PlacedNotTodo ==
  ASSUME Structure, NEW t \in todo, NEW e, NEW f
  PROVE  /\ \A c \in pending \cup current : ~Covers(c, t, e, f)
         /\ \A p \in DOMAIN packages : \A c \in packages[p] : ~Covers(c, t, e, f)
  BY DEF Structure, PackageOK, ChunkOK, Covers

(* Coverage after a step, from what it says of each pair.                  *)
LEMMA CoverageKept ==
  ASSUME UNCHANGED blocks,
         \A t \in CommonBlocks : \A e \in blocks[t[1]][t[3]], f \in blocks[t[2]][t[3]] :
            CoveredAt(t, e, f)' /\ OnceAt(t, e, f)'
  PROVE  Coverage'
  BY ChunksStay DEF Coverage

(* Every step keeps each pair to come or covered, once.                    *)
LEMMA CoverageStep ==
  ASSUME PackingTypeOK, Structure, Coverage, [Next]_vars
  PROVE  Coverage'
<1>1. ASSUME NEW d \in DataProvider,
             UploadBlocks(d) \/ UploadMap(d) \/ UploadJson(d) \/ UploadBinary(d)
      PROVE  Coverage'
  <2>1. PICK keys, contents : Upload(d, keys, contents)
    BY <1>1, Contents
  <2> QED
    BY <2>1 DEF Upload, Coverage
<1>2. CASE CreateJobs
  <2>1. /\ UNCHANGED <<blocks, packages, pending, current>> /\ todo' = CommonBlocks
        /\ packages = << >> /\ pending = {} /\ current = {}
    BY <1>2 DEF CreateJobs, Structure, stored
  <2>2. \A t \in CommonBlocks : \A e, f : CoveredAt(t, e, f)' /\ OnceAt(t, e, f)'
    BY <2>1 DEF CoveredAt, OnceAt
  <2> QED
    BY <2>1, <2>2, CoverageKept
<1>3. ASSUME NEW k \in todo, SplitBlock(k)
      PROVE  Coverage'
  <2>1. /\ UNCHANGED <<blocks, step>> /\ todo' = todo \ {k} /\ step = "packing"
        /\ current' = {} /\ packages' = Flushed /\ pending = {}
    BY <1>3 DEF SplitBlock, TakeBlock, stored
  <2>2. PICK P \in Splits(Count(k[1], k[3])), Q \in Splits(Count(k[2], k[3])) :
           pending' = ChunkGrid(k, P, Q)
    BY <1>3 DEF SplitBlock
  <2>3. k \in CommonBlocks
    BY DEF PackingTypeOK
  <2>4. \A c \in pending' : BlockOf(c) = k
    BY <2>2, <2>3, GridPlaced
  <2>5. ASSUME NEW t \in CommonBlocks,
               NEW e \in blocks[t[1]][t[3]], NEW f \in blocks[t[2]][t[3]]
        PROVE  CoveredAt(t, e, f)' /\ OnceAt(t, e, f)'
    <3>1. CoveredAt(t, e, f) /\ OnceAt(t, e, f)
      BY <2>1 DEF Coverage
    <3>2. /\ \A p \in DOMAIN packages' : \A c \in packages'[p] : Covers(c, t, e, f) =>
                \A r \in DOMAIN packages' : \A d \in packages'[r] :
                   Covers(d, t, e, f) => r = p /\ d = c
          /\ \A c : (\E p \in DOMAIN packages' : c \in packages'[p]) <=>
                    c \in current \/ \E p \in DOMAIN packages : c \in packages[p]
      BY <2>1, <3>1, FlushedCovers
    <3>3. CASE t = k
      <4>1. PICK c \in pending' : Covers(c, t, e, f) /\ \A d \in pending' : Covers(d, t, e, f) => d = c
        BY <2>2, <3>3, GridCovers
      <4>2. \A p \in DOMAIN packages' : \A d \in packages'[p] : ~Covers(d, t, e, f)
        BY <3>2, <3>3, PlacedNotTodo
      <4>3. CoveredAt(t, e, f)'
        BY <2>1, <4>1, ChunksStay DEF CoveredAt
      <4>4. OnceAt(t, e, f)'
        BY <2>1, <4>1, <4>2, ChunksStay DEF OnceAt
      <4> QED
        BY <4>3, <4>4
    <3>4. CASE t # k
      <4>1. \A c \in pending' : ~Covers(c, t, e, f)
        BY <2>4, <3>4 DEF Covers
      <4>2. CoveredAt(t, e, f)'
        BY <2>1, <3>1, <3>2, <3>4, ChunksStay DEF CoveredAt
      <4>3. OnceAt(t, e, f)'
        BY <2>1, <3>2, <4>1, ChunksStay DEF OnceAt
      <4> QED
        BY <4>2, <4>3
    <3> QED
      BY <3>3, <3>4
  <2> QED
    BY <2>1, <2>5, CoverageKept
<1>4. CASE AppendChunk
  <2>1. PICK c \in pending : pending' = pending \ {c} /\ packages' = Append(packages, {c})
    BY <1>4 DEF AppendChunk
  <2>2. /\ UNCHANGED <<blocks, step, todo, current>>
        /\ step = "packing" /\ current = {} /\ {c} \in SUBSET Chunks
    BY <1>4, <2>1 DEF AppendChunk, stored, Structure, PackingTypeOK
  <2>3. ASSUME NEW t \in CommonBlocks,
               NEW e \in blocks[t[1]][t[3]], NEW f \in blocks[t[2]][t[3]]
        PROVE  CoveredAt(t, e, f)' /\ OnceAt(t, e, f)'
    <3>1. CoveredAt(t, e, f) /\ OnceAt(t, e, f)
      BY <2>2 DEF Coverage
    <3>0. PICK S : S = {c}
      OBVIOUS
    <3>2. /\ \A d \in S : Covers(d, t, e, f) =>
                \A p \in DOMAIN packages : \A x \in packages[p] : ~Covers(x, t, e, f)
          /\ \A d, x \in S : Covers(d, t, e, f) /\ Covers(x, t, e, f) => d = x
      BY <3>0, <3>1 DEF OnceAt
    <3>3. /\ \A p \in DOMAIN packages' : \A x \in packages'[p] : Covers(x, t, e, f) =>
                \A r \in DOMAIN packages' : \A d \in packages'[r] :
                   Covers(d, t, e, f) => r = p /\ d = x
          /\ \A x : (\E p \in DOMAIN packages' : x \in packages'[p]) <=>
                    x \in S \/ \E p \in DOMAIN packages : x \in packages[p]
      <4>1. S \in SUBSET Chunks /\ packages' = Append(packages, S)
        BY <2>1, <2>2, <3>0
      <4> QED
        BY <3>1, <3>2, <4>1, AppendedCovers
    <3>4. CoveredAt(t, e, f)'
      BY <2>1, <2>2, <3>1, <3>0, <3>3, ChunksStay DEF CoveredAt
    <3>5. \A d \in pending' : Covers(d, t, e, f) =>
             \A p \in DOMAIN packages' : \A x \in packages'[p] : ~Covers(x, t, e, f)
      <4>1. ASSUME NEW d \in pending', Covers(d, t, e, f)
            PROVE  /\ ~Covers(c, t, e, f)
                   /\ \A p \in DOMAIN packages : \A x \in packages[p] : ~Covers(x, t, e, f)
        BY <2>1, <3>1, <4>1 DEF OnceAt
      <4> QED
        BY <3>0, <3>3, <4>1
    <3>6. OnceAt(t, e, f)'
      BY <2>1, <2>2, <3>1, <3>0, <3>3, <3>5, ChunksStay DEF OnceAt
    <3> QED
      BY <3>4, <3>6
  <2> QED
    BY <2>2, <2>3, CoverageKept
<1>5. ASSUME NEW k \in todo, BundleBlock(k)
      PROVE  Coverage'
  <2>1. /\ UNCHANGED <<blocks, step>> /\ todo' = todo \ {k}
        /\ step = "packing" /\ pending = {} /\ pending' = {}
    BY <1>5 DEF BundleBlock, TakeBlock, stored
  <2>2. PICK w : w = WholeChunk(k)
    OBVIOUS
  <2>3. k \in CommonBlocks /\ BlockOf(w) = k
    BY <2>2, WholePlaced DEF PackingTypeOK
  <2>4. ASSUME NEW t \in CommonBlocks,
               NEW e \in blocks[t[1]][t[3]], NEW f \in blocks[t[2]][t[3]]
        PROVE  CoveredAt(t, e, f)' /\ OnceAt(t, e, f)'
    <3>1. CoveredAt(t, e, f) /\ OnceAt(t, e, f)
      BY <2>1 DEF Coverage
    <3>2. t = k => Covers(w, t, e, f)
      BY <2>2, WholeCovers
    <3>3. Covers(w, t, e, f) => t = k
      BY <2>3 DEF Covers
    <3>4. Covers(w, t, e, f) =>
             \A p \in DOMAIN packages : \A c \in packages[p] : ~Covers(c, t, e, f)
      BY <3>3, PlacedNotTodo
    <3>5. CASE Fits(k)
      <4>1. current' = current \cup {w} /\ UNCHANGED packages
        BY <1>5, <2>2, <3>5 DEF BundleBlock
      <4>2. CoveredAt(t, e, f)'
        BY <2>1, <3>1, <3>2, <4>1, ChunksStay DEF CoveredAt
      <4>3. OnceAt(t, e, f)'
        BY <2>1, <3>1, <3>4, <4>1, ChunksStay DEF OnceAt
      <4> QED
        BY <4>2, <4>3
    <3>6. CASE ~Fits(k)
      <4>1. packages' = Append(packages, current) /\ current' = {w} /\ current \in SUBSET Chunks
        BY <1>5, <2>2, <3>6 DEF BundleBlock, PackingTypeOK
      <4>2. \A c, d \in current : Covers(c, t, e, f) /\ Covers(d, t, e, f) => c = d
        BY DEF Structure, Covers
      <4>3. \A c \in current : Covers(c, t, e, f) =>
               \A p \in DOMAIN packages : \A d \in packages[p] : ~Covers(d, t, e, f)
        BY <3>1 DEF OnceAt
      <4>4. /\ \A p \in DOMAIN packages' : \A c \in packages'[p] : Covers(c, t, e, f) =>
                  \A r \in DOMAIN packages' : \A d \in packages'[r] :
                     Covers(d, t, e, f) => r = p /\ d = c
            /\ \A c : (\E p \in DOMAIN packages' : c \in packages'[p]) <=>
                      c \in current \/ \E p \in DOMAIN packages : c \in packages[p]
        BY <3>1, <4>1, <4>2, <4>3, AppendedCovers
      <4>5. Covers(w, t, e, f) => \A c \in current : ~Covers(c, t, e, f)
        BY <3>3, PlacedNotTodo
      <4>6. CoveredAt(t, e, f)'
        BY <2>1, <3>1, <3>2, <4>1, <4>4, ChunksStay DEF CoveredAt
      <4>7. OnceAt(t, e, f)'
        BY <2>1, <3>4, <4>1, <4>4, <4>5, ChunksStay DEF OnceAt
      <4> QED
        BY <4>6, <4>7
    <3> QED
      BY <3>5, <3>6
  <2> QED
    BY <2>1, <2>4, CoverageKept
<1>6. CASE SendPackages
  <2>1. /\ UNCHANGED blocks /\ todo = {} /\ pending = {} /\ todo' = todo /\ pending' = pending
        /\ current' = {} /\ step = "packing" /\ packages' = Flushed
    BY <1>6 DEF SendPackages, stored
  <2>2. ASSUME NEW t \in CommonBlocks,
               NEW e \in blocks[t[1]][t[3]], NEW f \in blocks[t[2]][t[3]]
        PROVE  CoveredAt(t, e, f)' /\ OnceAt(t, e, f)'
    <3>1. CoveredAt(t, e, f) /\ OnceAt(t, e, f)
      BY <2>1 DEF Coverage
    <3>2. /\ \A p \in DOMAIN packages' : \A c \in packages'[p] : Covers(c, t, e, f) =>
                \A r \in DOMAIN packages' : \A d \in packages'[r] :
                   Covers(d, t, e, f) => r = p /\ d = c
          /\ \A c : (\E p \in DOMAIN packages' : c \in packages'[p]) <=>
                    c \in current \/ \E p \in DOMAIN packages : c \in packages[p]
      BY <2>1, <3>1, FlushedCovers
    <3>3. CoveredAt(t, e, f)'
      BY <2>1, <3>1, <3>2, ChunksStay DEF CoveredAt
    <3>4. OnceAt(t, e, f)'
      BY <2>1, <3>2, ChunksStay DEF OnceAt
    <3> QED
      BY <3>3, <3>4
  <2> QED
    BY <2>1, <2>2, CoverageKept
<1>7. ASSUME UNCHANGED <<blocks, packing>>,
             step' = step \/ step = "computing"
      PROVE  Coverage'
  <2>1. UNCHANGED <<blocks, todo, pending, current, packages>>
    BY <1>7 DEF packing
  <2>2. ASSUME step' # "uploading",
               NEW t \in CommonBlocks,
               NEW e \in blocks[t[1]][t[3]], NEW f \in blocks[t[2]][t[3]]
        PROVE  CoveredAt(t, e, f)' /\ OnceAt(t, e, f)'
    <3>1. CoveredAt(t, e, f) /\ OnceAt(t, e, f)
      BY <1>7, <2>2 DEF Coverage
    <3> QED
      BY <2>1, <3>1, ChunksStay DEF CoveredAt, OnceAt
  <2> QED
    BY <2>1, <2>2, ChunksStay DEF Coverage
<1>8. ASSUME NEW p \in DOMAIN packages, Compute(p)
      PROVE  Coverage'
  BY <1>7, <1>8 DEF Compute, stored
<1>9. CASE MergeFiles
  BY <1>7, <1>9 DEF MergeFiles, stored
<1>10. CASE Finish
  BY <1>7, <1>10 DEF Finish, Aggregating, stored
<1>11. CASE UNCHANGED vars
  BY <1>7, <1>11 DEF vars, packing
<1> QED
  BY <1>1, <1>2, <1>3, <1>4, <1>5, <1>6, <1>8, <1>9, <1>10, <1>11 DEF Next

-------------------------------------------------------------------------------
(* The theorems.                                                           *)

(* Every chunk is in its place, and every pair of a common block is to     *)
(* come or covered by one of them.                                         *)
THEOREM PackingInvariantHolds == Spec => []PackingInvariant
<1>1. Init => PackingInvariant
  BY TypeInit, StructureInit DEF PackingInvariant, Coverage, Init
<1>2. PackingInvariant /\ [Next]_vars => PackingInvariant'
  BY TypeStep, StructureStep, CoverageStep DEF PackingInvariant
<1> QED
  BY <1>1, <1>2, PTL DEF Spec

(* What a chunk covers is what compute_filter_similarity compares for it,  *)
(* whichever of the two ways of fetching encodings it takes.               *)
LEMMA ComparesCovered ==
  ASSUME PackingTypeOK, Structure, NEW p \in DOMAIN packages, NEW c \in packages[p],
         NEW t \in CommonBlocks,
         NEW e \in blocks[t[1]][t[3]], NEW f \in blocks[t[2]][t[3]]
  PROVE  c.block = t[3] /\ Compares(packages[p], c, <<t[1], e, t[2], f>>) <=> Covers(c, t, e, f)
<1> DEFINE B == c.block = t[3] /\ c.left = t[1] /\ c.right = t[2]
<1>1. B <=> BlockOf(c) = t
  BY DEF BlockOf, CommonBlocks
<1>2. CASE Cardinality(packages[p]) > 1
  <2>1. packages[p] # {c}
    <3>1. Cardinality({c}) = 1
      BY FS_Singleton
    <3>2. packages[p] = {c} => Cardinality(packages[p]) = 1
      BY <3>1
    <3>3. ~(1 > 1)
      OBVIOUS
    <3> QED
      BY <1>2, <3>2, <3>3
  <2>2. c = WholeChunk(BlockOf(c))
    BY <2>1 DEF Structure, PackageOK
  <2>3. BlockOf(c) = t => Covers(c, t, e, f)
    BY <2>2, WholeCovers
  <2>4. Covers(c, t, e, f) <=> B
    BY <1>1, <2>3 DEF Covers
  <2>5. c.block = t[3] /\ Compares(packages[p], c, <<t[1], e, t[2], f>>) <=> B
    BY <1>2 DEF Compares, Left, Right
  <2> QED
    BY <2>4, <2>5
<1>3. CASE ~(Cardinality(packages[p]) > 1)
  <2>1. B => (Compares(packages[p], c, <<t[1], e, t[2], f>>) <=>
                 /\ Within(Rank(blocks[t[1]][t[3]], e), c.rows)
                 /\ Within(Rank(blocks[t[2]][t[3]], f), c.cols))
    BY <1>3 DEF Compares, Left, Right, InRange
  <2>2. c.block = t[3] /\ Compares(packages[p], c, <<t[1], e, t[2], f>>) => B
    BY DEF Compares
  <2> QED
    BY <1>1, <2>1, <2>2 DEF Covers
<1> QED
  BY <1>2, <1>3

(* Two encodings in a common block are compared for it exactly once.       *)
THEOREM EveryPairComparedOnce == Spec => []ComparedOnce
<1>1. PackingInvariant => ComparedOnce
  <2> SUFFICES ASSUME PackingInvariant, step \in {"computing", "finished"},
                      NEW t \in CommonBlocks,
                      NEW e \in blocks[t[1]][t[3]], NEW f \in blocks[t[2]][t[3]]
               PROVE  \E p \in DOMAIN packages : \E c \in packages[p] :
                         /\ c.block = t[3] /\ Compares(packages[p], c, <<t[1], e, t[2], f>>)
                         /\ \A r \in DOMAIN packages : \A d \in packages[r] :
                               d.block = t[3] /\ Compares(packages[r], d, <<t[1], e, t[2], f>>)
                                   => r = p /\ d = c
    BY DEF ComparedOnce
  <2> USE DEF PackingInvariant
  <2>1. CoveredAt(t, e, f) /\ OnceAt(t, e, f)
    BY DEF Coverage
  <2>2. todo = {} /\ pending = {} /\ current = {}
    BY DEF Structure
  <2>3. PICK p \in DOMAIN packages : \E c \in packages[p] : Covers(c, t, e, f)
    BY <2>1, <2>2 DEF CoveredAt
  <2>4. PICK c \in packages[p] : Covers(c, t, e, f)
    BY <2>3
  <2>5. \A r \in DOMAIN packages : \A d \in packages[r] : Covers(d, t, e, f) => r = p /\ d = c
    BY <2>1, <2>4 DEF OnceAt
  <2>6. c.block = t[3] /\ Compares(packages[p], c, <<t[1], e, t[2], f>>)
    BY <2>4, ComparesCovered
  <2>7. ASSUME NEW r \in DOMAIN packages, NEW d \in packages[r],
               d.block = t[3], Compares(packages[r], d, <<t[1], e, t[2], f>>)
        PROVE  r = p /\ d = c
    BY <2>5, <2>7, ComparesCovered
  <2> QED
    BY <2>6, <2>7
<1> QED
  BY <1>1, PackingInvariantHolds, PTL

(* No package is empty and no chunk fetches an empty side.                 *)
THEOREM NothingIsEmpty == Spec => []NothingEmpty
<1>1. PackingInvariant => NothingEmpty
  <2> SUFFICES ASSUME PackingInvariant, NEW p \in DOMAIN packages
               PROVE  /\ packages[p] # {}
                      /\ \A c \in packages[p] : /\ Left(packages[p], c) # {}
                                                /\ Right(packages[p], c) # {}
    BY DEF NothingEmpty
  <2> USE DEF PackingInvariant
  <2>1. packages[p] # {} /\ \A c \in packages[p] : WellPlaced(c)
    BY DEF Structure, PackageOK, ChunkOK
  <2>2. ASSUME NEW d \in DataProvider, NEW b \in BlockName, NEW r \in Ranges(Count(d, b))
        PROVE  InRange(d, b, r) # {}
    <3>1. r[1] \in 0 .. Count(d, b) - 1 /\ r[1] < r[2] /\ r[1] <= r[1]
      BY BlockFinite DEF Ranges
    <3>2. PICK e \in blocks[d][b] : Rank(blocks[d][b], e) = r[1]
      BY <3>1, BlockFinite, RankOnto DEF Count
    <3> QED
      BY <3>1, <3>2 DEF InRange, Within
  <2>3. ASSUME NEW c \in packages[p]
        PROVE  Left(packages[p], c) # {} /\ Right(packages[p], c) # {}
    <3>1. /\ c.left \in DataProvider /\ c.right \in DataProvider /\ c.block \in BlockName
          /\ blocks[c.left][c.block] # {} /\ blocks[c.right][c.block] # {}
          /\ c.rows \in Ranges(Count(c.left, c.block))
          /\ c.cols \in Ranges(Count(c.right, c.block))
      BY <2>1 DEF WellPlaced, BlockOf, CommonBlocks
    <3> QED
      BY <2>2, <3>1 DEF Left, Right
  <2> QED
    BY <2>1, <2>3
<1> QED
  BY <1>1, PackingInvariantHolds, PTL
===============================================================================
