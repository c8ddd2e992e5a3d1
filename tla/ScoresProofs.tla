----------------------------- MODULE ScoresProofs -----------------------------
(***************************************************************************)
(* Theorems about the results of WorkPackages, for any data providers and  *)
(* sizes, any blocks, limits and similarities: what the current package    *)
(* holds, what the progress counts, and what the files of candidate pairs  *)
(* have.  They rest on where the chunks are, which WorkPackagesProofs has. *)
(***************************************************************************)
EXTENDS WorkPackagesProofs, Sums

-------------------------------------------------------------------------------
(* What is finite.                                                         *)

(* The names of blocks in the database.                                    *)
LEMMA NamesFinite == IsFiniteSet(BlockName)
<1> DEFINE S == Block \cup {"1"}
           h == [b \in S |-> Hashed(b)]
<1>1. IsFiniteSet(S)
  BY PackagesAssumption, FS_AddElement DEF PackagesAssumption
<1>2. IsFiniteSet({h[b] : b \in S})
  <2> HIDE DEF h, S
  <2> QED BY <1>1, FiniteImage
<1>3. BlockName = {h[b] : b \in S} \cup {DefaultBlockId}
  BY DEF BlockName
<1> QED BY <1>2, <1>3, FS_AddElement

(* The blocks that two data providers may have in common, and those they   *)
(* have.                                                                   *)
LEMMA CommonFinite ==
    /\ IsFiniteSet(DataProvider \X DataProvider \X BlockName)
    /\ IsFiniteSet(CommonBlocks)
<1> DEFINE S == (DataProvider \X DataProvider) \X BlockName
           h == [s \in S |-> <<s[1][1], s[1][2], s[2]>>]
           T == {h[s] : s \in S}
<1>1. IsFiniteSet(S)
  BY PackagesAssumption, NamesFinite, FS_Product DEF PackagesAssumption
<1>2. IsFiniteSet(T)
  <2> HIDE DEF h, S
  <2> QED BY <1>1, FiniteImage
<1>3. DataProvider \X DataProvider \X BlockName \subseteq T
  <2> SUFFICES ASSUME NEW t \in DataProvider \X DataProvider \X BlockName PROVE t \in T
    OBVIOUS
  <2>1. <<<<t[1], t[2]>>, t[3]>> \in S
    OBVIOUS
  <2>2. h[<<<<t[1], t[2]>>, t[3]>>] = t
    BY <2>1
  <2> QED BY <2>1, <2>2
<1>4. CommonBlocks \subseteq DataProvider \X DataProvider \X BlockName
  BY DEF CommonBlocks
<1> HIDE DEF T
<1> QED BY <1>2, <1>3, <1>4, FS_Subset

(* The pairs of encodings.                                                 *)
LEMMA PairFinite == IsFiniteSet(Pair)
<1> DEFINE S == (DataProvider \X Entity) \X (DataProvider \X Entity)
           h == [s \in S |-> <<s[1][1], s[1][2], s[2][1], s[2][2]>>]
           T == {h[s] : s \in S}
<1>1. IsFiniteSet(S)
  <2>1. IsFiniteSet(DataProvider \X Entity)
    BY PackagesAssumption, EntityFinite, FS_Product DEF PackagesAssumption
  <2> QED BY <2>1, FS_Product
<1>2. IsFiniteSet(T)
  <2> HIDE DEF h, S
  <2> QED BY <1>1, FiniteImage
<1>3. Pair \subseteq T
  <2> SUFFICES ASSUME NEW q \in Pair PROVE q \in T
    OBVIOUS
  <2>1. q \in DataProvider \X Entity \X DataProvider \X Entity
    BY DEF Pair
  <2> DEFINE s == <<<<q[1], q[2]>>, <<q[3], q[4]>>>>
  <2>2. s \in S
    BY <2>1
  <2>3. h[s] = q
    BY <2>1, <2>2
  <2> QED BY <2>2, <2>3
<1> HIDE DEF T
<1> QED BY <1>2, <1>3, FS_Subset

(* Chunks that are whole blocks: the current package, or any of several.   *)
LEMMA WholeFinite ==
    ASSUME NEW P, \A c \in P : WellPlaced(c) /\ c = WholeChunk(BlockOf(c))
    PROVE  IsFiniteSet(P)
<1> DEFINE h == [t \in CommonBlocks |-> WholeChunk(t)]
           T == {h[t] : t \in CommonBlocks}
<1>1. IsFiniteSet(T)
  <2> HIDE DEF h
  <2> QED BY CommonFinite, FiniteImage
<1>2. P \subseteq T
  BY DEF WellPlaced
<1> HIDE DEF T
<1> QED BY <1>1, <1>2, FS_Subset

(* A package is a finite set of chunks.                                    *)
LEMMA PackageFinite == ASSUME NEW P, PackageOK(P) PROVE IsFiniteSet(P)
<1>1. CASE \A c \in P : c = WholeChunk(BlockOf(c))
  BY <1>1, WholeFinite DEF PackageOK, ChunkOK
<1>2. CASE \E c \in P : P = {c}
  BY <1>2, FS_Singleton
<1> QED BY <1>1, <1>2 DEF PackageOK

(* What a chunk reads is of its block.                                     *)
LEMMA SidesFinite ==
    ASSUME PackingTypeOK, NEW P, NEW c, WellPlaced(c)
    PROVE  /\ Left(P, c) \subseteq blocks[c.left][c.block]
           /\ Right(P, c) \subseteq blocks[c.right][c.block]
           /\ IsFiniteSet(Left(P, c)) /\ Cardinality(Left(P, c)) \in Nat
           /\ IsFiniteSet(Right(P, c)) /\ Cardinality(Right(P, c)) \in Nat
<1>1. c.left \in DataProvider /\ c.right \in DataProvider /\ c.block \in BlockName
  BY DEF WellPlaced, BlockOf, CommonBlocks
<1>2. IsFiniteSet(blocks[c.left][c.block]) /\ IsFiniteSet(blocks[c.right][c.block])
  BY <1>1, BlockFinite
<1>3. /\ Left(P, c) \subseteq blocks[c.left][c.block]
      /\ Right(P, c) \subseteq blocks[c.right][c.block]
  BY DEF Left, Right, InRange
<1> QED BY <1>2, <1>3, FS_Subset, FS_CardinalityType

-------------------------------------------------------------------------------
(* What the packages cost.                                                 *)

(* The comparisons of whole blocks.                                        *)
Amount(c) == Count(c.left, c.block) * Count(c.right, c.block)

(* A package of several chunks compares their whole blocks.                *)
LEMMA SeveralWhole ==
    ASSUME NEW P, Cardinality(P) > 1
    PROVE  PackageComparisons(P) = SumFunction([c \in P |-> Amount(c)])
<1>1. \A c \in P : Cardinality(Left(P, c)) * Cardinality(Right(P, c)) = Amount(c)
  BY DEF Left, Right, Amount, Count
<1> QED BY <1>1 DEF PackageComparisons

(* While the blocks are the same, packages make the same comparisons.      *)
LEMMA ComparisonsStay ==
    ASSUME UNCHANGED blocks
    PROVE  /\ \A P : PackageComparisons(P)' = PackageComparisons(P)
           /\ \A c : Amount(c)' = Amount(c)
  BY DEF PackageComparisons, Left, Right, InRange, Amount, Count

(* The current package is within the limits, so it is as a package.        *)
WithinAim(P) ==
    Cardinality(P) > 1 => Cardinality(P) <= MaxChunks /\ PackageComparisons(P) <= ChunkSizeAim

(* What Bundled says of the current package is what BundlesWithinAim asks  *)
(* of a package.                                                           *)
LEMMA CurrentWithinAim == ASSUME Bundled PROVE WithinAim(current)
  BY SeveralWhole DEF Bundled, Amount, WithinAim

(* Appending a package that is within the limits.                          *)
LEMMA WithinAimAppended ==
    ASSUME PackingTypeOK, Bundled, UNCHANGED blocks, NEW P \in SUBSET Chunks,
           packages' = Append(packages, P), WithinAim(P)
    PROVE  BundlesWithinAim'
<1>1. \A p \in DOMAIN packages' : WithinAim(packages'[p])
  BY PackagesGrow DEF Bundled, BundlesWithinAim, WithinAim
<1> SUFFICES ASSUME NEW p \in DOMAIN packages' PROVE WithinAim(packages[p])'
  BY DEF BundlesWithinAim, WithinAim
<1>2. PackageComparisons(packages[p])' = PackageComparisons(packages'[p])
  BY DEF PackageComparisons, Left, Right, InRange
<1> QED BY <1>1, <1>2 DEF WithinAim

(* The packages of a step that appends none.                               *)
LEMMA WithinAimKept ==
    ASSUME Bundled, UNCHANGED <<blocks, packages>>
    PROVE  BundlesWithinAim'
BY ComparisonsStay DEF Bundled, BundlesWithinAim

(* The comparisons of a block that is well placed.                         *)
LEMMA AmountType == ASSUME PackingTypeOK, NEW c, WellPlaced(c) PROVE Amount(c) \in Nat
<1>1. c.left \in DataProvider /\ c.right \in DataProvider /\ c.block \in BlockName
  BY DEF WellPlaced, BlockOf, CommonBlocks
<1>2. Count(c.left, c.block) \in Nat /\ Count(c.right, c.block) \in Nat
  BY <1>1, BlockFinite
<1> QED BY <1>2 DEF Amount

(* Taking a block adds its comparisons to those of the current package.    *)
LEMMA WholeAmount ==
    ASSUME PackingTypeOK, Structure, NEW t \in todo
    PROVE  LET w == WholeChunk(t) IN
           /\ w \notin current /\ IsFiniteSet(current) /\ NumComparisons(t) \in Nat
           /\ SumFunction([c \in current |-> Amount(c)]) \in Nat
           /\ SumFunction([c \in current \cup {w} |-> Amount(c)])
                 = SumFunction([c \in current |-> Amount(c)]) + NumComparisons(t)
           /\ SumFunction([c \in {w} |-> Amount(c)]) = NumComparisons(t)
<1> DEFINE w == WholeChunk(t)
           g == [c \in current |-> Amount(c)]
           h == [c \in current \cup {w} |-> Amount(c)]
           k == [c \in {w} |-> Amount(c)]
<1>1. t \in CommonBlocks
  BY DEF PackingTypeOK
<1>2. WellPlaced(w) /\ BlockOf(w) = t
  BY <1>1, WholePlaced
<1>3. w \notin current
  BY <1>2 DEF Structure, ChunkOK
<1>4. IsFiniteSet(current) /\ \A c \in current : Amount(c) \in Nat
  BY WholeFinite, AmountType DEF Structure, ChunkOK
<1>5. Amount(w) = NumComparisons(t) /\ Amount(w) \in Nat
  <2>1. w.left = t[1] /\ w.right = t[2] /\ w.block = t[3]
    BY DEF WholeChunk, Chunk
  <2> HIDE DEF w
  <2> QED BY <1>2, <2>1, AmountType DEF Amount, NumComparisons
<1>6. /\ DOMAIN g = current /\ DOMAIN h = current \cup {w} /\ DOMAIN k = {w}
      /\ \A c \in current : g[c] = h[c] /\ h[c] \in Nat /\ g[c] \in Nat
      /\ h[w] = Amount(w) /\ k[w] = Amount(w)
  BY <1>4
<1> HIDE DEF w, g, h, k
<1>7. SumFunctionOnSet(h, current \cup {w}) = h[w] + SumFunctionOnSet(h, current)
  BY <1>3, <1>4, <1>5, <1>6, SumAdd
<1>8. SumFunctionOnSet(g, current) = SumFunctionOnSet(h, current) /\ SumFunctionOnSet(g, current) \in Nat
  BY <1>4, <1>6, SumSame, SumType
<1>9. SumFunctionOnSet(k, {w}) = k[w] + 0
  <2>1. SumFunctionOnSet(k, {} \cup {w}) = k[w] + SumFunctionOnSet(k, {})
    BY <1>5, <1>6, SumAdd, FS_EmptySet
  <2>2. {} \cup {w} = {w}
    OBVIOUS
  <2> QED BY <2>1, <2>2, SumEmpty
<1>10. SumFunction(g) = SumFunctionOnSet(g, current) /\ SumFunction(k) = SumFunctionOnSet(k, {w})
       /\ SumFunction(h) = SumFunctionOnSet(h, current \cup {w})
  BY <1>6 DEF SumFunction
<1>11. /\ w \notin current /\ IsFiniteSet(current) /\ NumComparisons(t) \in Nat
       /\ SumFunction(g) \in Nat
       /\ SumFunction(h) = SumFunction(g) + NumComparisons(t)
       /\ SumFunction(k) = NumComparisons(t)
  BY <1>3, <1>4, <1>5, <1>6, <1>7, <1>8, <1>9, <1>10
<1> QED BY <1>11 DEF w, g, h, k

(* Nothing is taken yet, or again.                                         *)
LEMMA EmptyAmount == SumFunction([c \in {} |-> Amount(c)]) = 0
<1> DEFINE g == [c \in {} |-> Amount(c)]
<1>1. DOMAIN g = {}
  OBVIOUS
<1> HIDE DEF g
<1>2. SumFunction(g) = 0
  BY <1>1, SumEmpty DEF SumFunction
<1> QED BY <1>2 DEF g

(* The two limits of the current package, with its comparisons by name.    *)
Taken(P, n) ==
    /\ n = SumFunction([c \in P |-> Amount(c)])
    /\ n <= ChunkSizeAim /\ Cardinality(P) <= MaxChunks

(* Bundled in terms of the current package and its comparisons.            *)
LEMMA TakenNow == Bundled <=> Taken(current, comparisons) /\ BundlesWithinAim
  BY DEF Bundled, Taken, Amount

(* The same after a step that leaves the blocks alone.                     *)
LEMMA TakenNext ==
    ASSUME UNCHANGED blocks, BundlesWithinAim', Taken(current', comparisons')
    PROVE  Bundled'
  BY DEF Bundled, Taken, Amount, Count

(* An empty package is within the limits.                                  *)
LEMMA TakenNothing == Taken({}, 0)
<1>1. Cardinality({}) = 0 /\ MaxChunks \in Nat /\ ChunkSizeAim \in Nat
  BY FS_EmptySet, PackagesAssumption DEF PackagesAssumption
<1> QED BY <1>1, EmptyAmount DEF Taken

(* No package is there at first.                                           *)
LEMMA BundledInit == Init => Bundled
<1> SUFFICES ASSUME Init PROVE Bundled
  OBVIOUS
<1>1. current = {} /\ comparisons = 0 /\ packages = << >>
  BY DEF Init
<1>2. BundlesWithinAim
  BY <1>1 DEF BundlesWithinAim
<1> QED BY <1>1, <1>2, TakenNothing, TakenNow

(* Appending the current package if there is one.                          *)
LEMMA FlushedWithinAim ==
    ASSUME PackingTypeOK, Bundled, UNCHANGED blocks, packages' = Flushed
    PROVE  BundlesWithinAim'
<1>1. CASE current = {}
  BY <1>1, WithinAimKept DEF Flushed
<1>2. CASE current # {}
  <2>1. current \in SUBSET Chunks /\ packages' = Append(packages, current)
    BY <1>2 DEF Flushed, PackingTypeOK
  <2> QED BY <2>1, CurrentWithinAim, WithinAimAppended
<1> QED BY <1>1, <1>2

(* Every step keeps what the current package holds, and keeps packages     *)
(* within the aim.                                                         *)
LEMMA BundledStep ==
    ASSUME PackingTypeOK, Structure, Bundled, [Next]_vars
    PROVE  Bundled'
<1>1. ASSUME NEW d \in DataProvider,
             UploadBlocks(d) \/ UploadMap(d) \/ UploadJson(d) \/ UploadBinary(d)
      PROVE  Bundled'
  <2>1. PICK keys, contents : Upload(d, keys, contents)
    BY <1>1, Contents
  <2>2. packages' = << >> /\ current' = {} /\ comparisons' = 0
    BY <2>1 DEF Upload, packing, Structure
  <2>3. BundlesWithinAim'
    BY <2>2 DEF BundlesWithinAim
  <2>4. SumFunction([c \in {} |-> Count(c.left, c.block)' * Count(c.right, c.block)']) = 0
    <3> DEFINE g == [c \in {} |-> Count(c.left, c.block)' * Count(c.right, c.block)']
    <3>1. DOMAIN g = {}
      OBVIOUS
    <3> HIDE DEF g
    <3>2. SumFunction(g) = 0
      BY <3>1, SumEmpty DEF SumFunction
    <3> QED BY <3>2 DEF g
  <2>5. Cardinality({}) = 0 /\ MaxChunks \in Nat /\ ChunkSizeAim \in Nat
    BY FS_EmptySet, PackagesAssumption DEF PackagesAssumption
  <2> QED BY <2>2, <2>3, <2>4, <2>5 DEF Bundled
<1>2. ASSUME NEW t \in todo, SplitBlock(t) PROVE Bundled'
  <2>1. UNCHANGED blocks /\ packages' = Flushed /\ current' = {} /\ comparisons' = 0
    BY <1>2 DEF SplitBlock, stored
  <2> QED BY <2>1, FlushedWithinAim, TakenNothing, TakenNext
<1>3. ASSUME NEW t \in todo, BundleBlock(t) PROVE Bundled'
  <2> DEFINE w == WholeChunk(t)
  <2>1. UNCHANGED blocks /\ NumComparisons(t) <= ChunkSizeAim
    BY <1>3 DEF BundleBlock, stored
  <2>2. /\ w \notin current /\ IsFiniteSet(current) /\ NumComparisons(t) \in Nat
        /\ SumFunction([c \in current |-> Amount(c)]) \in Nat
        /\ SumFunction([c \in current \cup {w} |-> Amount(c)])
              = SumFunction([c \in current |-> Amount(c)]) + NumComparisons(t)
        /\ SumFunction([c \in {w} |-> Amount(c)]) = NumComparisons(t)
    BY WholeAmount
  <2>3. CASE /\ Fits(t) /\ current' = current \cup {w}
             /\ comparisons' = comparisons + NumComparisons(t) /\ UNCHANGED packages
    <3>1. BundlesWithinAim'
      BY <2>1, <2>3, WithinAimKept
    <3>2. comparisons' <= ChunkSizeAim /\ Cardinality(current) < MaxChunks
      BY <2>3 DEF Fits
    <3>3. Cardinality(current \cup {w}) = Cardinality(current) + 1
      BY <2>2, FS_AddElement
    <3>4. Cardinality(current) \in Nat /\ MaxChunks \in Nat
      BY <2>2, FS_CardinalityType, PackagesAssumption DEF PackagesAssumption
    <3>5. Cardinality(current') <= MaxChunks
      BY <2>3, <3>2, <3>3, <3>4
    <3>6. comparisons' = SumFunction([c \in current' |-> Amount(c)])
      <4>1. comparisons = SumFunction([c \in current |-> Amount(c)])
        BY TakenNow DEF Taken
      <4> HIDE DEF w
      <4> QED BY <2>2, <2>3, <4>1
    <3>7. Taken(current', comparisons')
      BY <3>2, <3>5, <3>6 DEF Taken
    <3> QED BY <2>1, <3>1, <3>7, TakenNext
  <2>4. CASE /\ packages' = Append(packages, current) /\ current' = {w}
             /\ comparisons' = NumComparisons(t)
    <3>1. current \in SUBSET Chunks
      BY DEF PackingTypeOK
    <3>2. BundlesWithinAim'
      BY <2>1, <2>4, <3>1, CurrentWithinAim, WithinAimAppended
    <3>3. Cardinality(current') <= MaxChunks
      <4>1. Cardinality(current') = 1
        BY <2>4, FS_Singleton
      <4> QED BY <4>1, PackagesAssumption DEF PackagesAssumption
    <3>4. Taken(current', comparisons')
      BY <2>1, <2>2, <2>4, <3>3 DEF Taken
    <3> QED BY <2>1, <3>2, <3>4, TakenNext
  <2> QED BY <1>3, <2>3, <2>4 DEF BundleBlock
<1>4. CASE AppendChunk
  <2>1. PICK c \in pending : packages' = Append(packages, {c})
    BY <1>4 DEF AppendChunk
  <2>2. UNCHANGED <<blocks, current, comparisons>>
    BY <1>4 DEF AppendChunk, stored
  <2>3. {c} \in SUBSET Chunks
    BY DEF PackingTypeOK
  <2>4. WithinAim({c})
    <3>1. Cardinality({c}) = 1
      BY FS_Singleton
    <3> QED BY <3>1 DEF WithinAim
  <2>5. BundlesWithinAim'
    BY <2>1, <2>2, <2>3, <2>4, WithinAimAppended
  <2> QED BY <2>2, <2>5, TakenNow, TakenNext
<1>5. CASE SendPackages
  <2>1. UNCHANGED blocks /\ packages' = Flushed /\ current' = {} /\ comparisons' = 0
    BY <1>5 DEF SendPackages, stored
  <2> QED BY <2>1, FlushedWithinAim, TakenNothing, TakenNext
<1>6. ASSUME UNCHANGED <<blocks, current, comparisons, packages>> PROVE Bundled'
  BY <1>6, WithinAimKept, TakenNow, TakenNext
<1>7. CASE CreateJobs
  BY <1>6, <1>7 DEF CreateJobs, stored
<1>8. ASSUME NEW p \in DOMAIN packages, Compute(p) PROVE Bundled'
  BY <1>6, <1>8 DEF Compute, stored, packing
<1>9. CASE MergeFiles \/ Finish
  BY <1>6, <1>9 DEF MergeFiles, Finish, stored, packing
<1>10. CASE UNCHANGED vars
  BY <1>6, <1>10 DEF vars
<1> QED BY <1>1, <1>2, <1>3, <1>4, <1>5, <1>7, <1>8, <1>9, <1>10 DEF Next

-------------------------------------------------------------------------------
(* What the progress counts.                                               *)

(* There are finitely many comparisons to make.                            *)
LEMMA ToCompareFinite == IsFiniteSet(ToCompare)
<1>1. IsFiniteSet(CommonBlocks \X (Entity \X Entity))
  BY CommonFinite, EntityFinite, FS_Product
<1>2. ToCompare \subseteq CommonBlocks \X (Entity \X Entity)
  BY DEF ToCompare
<1> QED BY <1>1, <1>2, FS_Subset

(* The comparisons a chunk of package P makes.                             *)
MadeBy(P, c) == {BlockOf(c)} \X (Left(P, c) \X Right(P, c))

(* A chunk makes as many comparisons as its sides have combinations.       *)
LEMMA MadeByCount ==
    ASSUME PackingTypeOK, NEW P, NEW c, WellPlaced(c)
    PROVE  /\ IsFiniteSet(MadeBy(P, c))
           /\ Cardinality(MadeBy(P, c)) = Cardinality(Left(P, c)) * Cardinality(Right(P, c))
<1> DEFINE L == Left(P, c)
           R == Right(P, c)
           B == {BlockOf(c)}
<1>1. IsFiniteSet(L) /\ Cardinality(L) \in Nat /\ IsFiniteSet(R) /\ Cardinality(R) \in Nat
  BY SidesFinite
<1>2. IsFiniteSet(B) /\ Cardinality(B) = 1
  BY FS_Singleton
<1> HIDE DEF L, R, B
<1>3. IsFiniteSet(L \X R) /\ Cardinality(L \X R) = Cardinality(L) * Cardinality(R)
  BY <1>1, FS_Product
<1>4. /\ IsFiniteSet(B \X (L \X R))
      /\ Cardinality(B \X (L \X R)) = Cardinality(B) * Cardinality(L \X R)
  BY <1>2, <1>3, FS_Product
<1>5. Cardinality(L) * Cardinality(R) \in Nat
  BY <1>1
<1>6. 1 * (Cardinality(L) * Cardinality(R)) = Cardinality(L) * Cardinality(R)
  BY <1>5
<1>7. /\ IsFiniteSet(B \X (L \X R))
      /\ Cardinality(B \X (L \X R)) = Cardinality(L) * Cardinality(R)
  BY <1>2, <1>3, <1>4, <1>6
<1> QED BY <1>7 DEF MadeBy, L, R, B

(* A package makes what its chunks make.                                   *)
LEMMA MakesByChunk ==
    ASSUME PackingTypeOK, Structure, NEW p \in DOMAIN packages
    PROVE  {w \in ToCompare : Makes(p, w)} = UNION {MadeBy(packages[p], c) : c \in packages[p]}
<1> DEFINE P == packages[p]
<1>1. \A c \in P : WellPlaced(c)
  BY DEF Structure, PackageOK, ChunkOK
<1>2. ASSUME NEW w \in ToCompare, Makes(p, w)
      PROVE  \E c \in P : w \in MadeBy(P, c)
  <2>1. PICK c \in P :
           c.block = w[1][3] /\ Compares(P, c, <<w[1][1], w[2][1], w[1][2], w[2][2]>>)
    BY <1>2 DEF Makes
  <2>2. /\ w[1][1] = c.left /\ w[2][1] \in Left(P, c)
        /\ w[1][2] = c.right /\ w[2][2] \in Right(P, c)
    BY <2>1 DEF Compares
  <2>3. w = <<w[1], <<w[2][1], w[2][2]>>>> /\ w[1] = <<w[1][1], w[1][2], w[1][3]>>
    BY DEF ToCompare, CommonBlocks
  <2>4. w[1] = BlockOf(c)
    BY <2>1, <2>2, <2>3 DEF BlockOf
  <2> QED BY <2>2, <2>3, <2>4 DEF MadeBy
<1>3. ASSUME NEW c \in P, NEW w \in MadeBy(P, c)
      PROVE  w \in ToCompare /\ Makes(p, w)
  <2>1. PICK e \in Left(P, c), f \in Right(P, c) : w = <<BlockOf(c), <<e, f>>>>
    BY DEF MadeBy
  <2>2. e \in blocks[c.left][c.block] /\ f \in blocks[c.right][c.block]
    BY <1>1, SidesFinite
  <2>3. BlockOf(c) \in CommonBlocks
    BY <1>1 DEF WellPlaced
  <2>4. /\ w[1] = BlockOf(c) /\ w[2][1] = e /\ w[2][2] = f
        /\ w[1][1] = c.left /\ w[1][2] = c.right /\ w[1][3] = c.block
    BY <2>1 DEF BlockOf
  <2>5. e \in Entity /\ f \in Entity
    <3>1. c.left \in DataProvider /\ c.right \in DataProvider /\ c.block \in BlockName
      BY <2>3 DEF BlockOf, CommonBlocks
    <3> QED BY <2>2, <3>1 DEF PackingTypeOK
  <2>6. w \in ToCompare
    BY <2>1, <2>2, <2>3, <2>4, <2>5 DEF ToCompare
  <2>7. Compares(P, c, <<c.left, e, c.right, f>>)
    BY <2>1 DEF Compares
  <2>8. Makes(p, w)
    BY <2>4, <2>7 DEF Makes
  <2> QED BY <2>6, <2>8
<1> QED BY <1>2, <1>3

(* No two chunks of the packages make the same comparison.                 *)
LEMMA MadeOnce ==
    ASSUME PackingInvariant, step # "uploading",
           NEW p \in DOMAIN packages, NEW c \in packages[p],
           NEW r \in DOMAIN packages, NEW d \in packages[r],
           NEW w \in ToCompare,
           c.block = w[1][3], Compares(packages[p], c, <<w[1][1], w[2][1], w[1][2], w[2][2]>>),
           d.block = w[1][3], Compares(packages[r], d, <<w[1][1], w[2][1], w[1][2], w[2][2]>>)
    PROVE  r = p /\ d = c
<1> DEFINE t == w[1]
           e == w[2][1]
           f == w[2][2]
<1>1. t \in CommonBlocks /\ e \in blocks[t[1]][t[3]] /\ f \in blocks[t[2]][t[3]]
  BY DEF ToCompare
<1>2. PackingTypeOK /\ Structure /\ OnceAt(t, e, f)
  BY <1>1 DEF PackingInvariant, Coverage
<1>3. Covers(c, t, e, f) /\ Covers(d, t, e, f)
  BY <1>1, <1>2, ComparesCovered
<1> QED BY <1>2, <1>3 DEF OnceAt

(* The chunks of one package make different comparisons.                   *)
LEMMA MadeApart ==
    ASSUME PackingInvariant, step # "uploading", NEW p \in DOMAIN packages,
           NEW c \in packages[p], NEW d \in packages[p], c # d
    PROVE  MadeBy(packages[p], c) \cap MadeBy(packages[p], d) = {}
<1> DEFINE P == packages[p]
<1> SUFFICES ASSUME NEW w, w \in MadeBy(P, c), w \in MadeBy(P, d) PROVE FALSE
  OBVIOUS
<1>1. PackingTypeOK /\ Structure
  BY DEF PackingInvariant
<1>2. w \in ToCompare
  BY <1>1, MakesByChunk
<1>3. ASSUME NEW b \in P, w \in MadeBy(P, b)
      PROVE  b.block = w[1][3] /\ Compares(P, b, <<w[1][1], w[2][1], w[1][2], w[2][2]>>)
  <2>1. PICK e \in Left(P, b), f \in Right(P, b) : w = <<BlockOf(b), <<e, f>>>>
    BY <1>3 DEF MadeBy
  <2>2. /\ w[2][1] = e /\ w[2][2] = f
        /\ w[1][1] = b.left /\ w[1][2] = b.right /\ w[1][3] = b.block
    BY <2>1 DEF BlockOf
  <2> QED BY <2>1, <2>2 DEF Compares
<1> QED BY <1>2, <1>3, MadeOnce

(* A package adds to the progress how many comparisons it makes.           *)
LEMMA MakesCount ==
    ASSUME PackingInvariant, step # "uploading", NEW p \in DOMAIN packages
    PROVE  Cardinality({w \in ToCompare : Makes(p, w)}) = PackageComparisons(packages[p])
<1> DEFINE P == packages[p]
           F == [c \in P |-> MadeBy(P, c)]
           n == [c \in P |-> Cardinality(Left(P, c)) * Cardinality(Right(P, c))]
<1>1. PackingTypeOK /\ Structure /\ PackageOK(P)
  BY DEF PackingInvariant, Structure
<1>2. IsFiniteSet(P) /\ \A c \in P : WellPlaced(c)
  BY <1>1, PackageFinite DEF PackageOK, ChunkOK
<1>3. \A c \in P : IsFiniteSet(F[c]) /\ Cardinality(F[c]) = n[c]
  BY <1>1, <1>2, MadeByCount
<1>4. \A c, d \in P : c # d => F[c] \cap F[d] = {}
  BY MadeApart
<1>5. Cardinality(UNION {F[c] : c \in P}) = SumFunctionOnSet([c \in P |-> Cardinality(F[c])], P)
  <2> HIDE DEF F, P
  <2> QED BY <1>2, <1>3, <1>4, UnionCardinality
<1>6. [c \in P |-> Cardinality(F[c])] = n
  BY <1>3
<1>7. SumFunction(n) = SumFunctionOnSet(n, P)
  <2>1. DOMAIN n = P
    OBVIOUS
  <2> HIDE DEF n, P
  <2> QED BY <2>1 DEF SumFunction
<1>8. UNION {F[c] : c \in P} = {w \in ToCompare : Makes(p, w)}
  <2>1. UNION {F[c] : c \in P} = UNION {MadeBy(P, c) : c \in P}
    OBVIOUS
  <2> QED BY <2>1, <1>1, MakesByChunk
<1>9. SumFunction(n) = PackageComparisons(P)
  BY DEF PackageComparisons
<1>10. Cardinality(UNION {F[c] : c \in P}) = SumFunction(n)
  <2> HIDE DEF F, n, P
  <2> QED BY <1>5, <1>6, <1>7
<1> QED BY <1>8, <1>9, <1>10

(* get_total_comparisons_for_project counts, per block name and two data   *)
(* providers, what there is to compare.                                    *)
Ordered(b, d) == {<<d[1], d[2], b>>} \X (blocks[d[1]][b] \X blocks[d[2]][b])

(* One block of two data providers, whether it is common or empty.         *)
LEMMA OrderedCount ==
    ASSUME PackingTypeOK, NEW b \in BlockName, NEW d \in Combinations
    PROVE  /\ IsFiniteSet(Ordered(b, d))
           /\ Cardinality(Ordered(b, d)) = Count(d[1], b) * Count(d[2], b)
<1> DEFINE L == blocks[d[1]][b]
           R == blocks[d[2]][b]
           B == {<<d[1], d[2], b>>}
<1>1. d[1] \in DataProvider /\ d[2] \in DataProvider
  BY DEF Combinations
<1>2. IsFiniteSet(L) /\ Cardinality(L) \in Nat /\ IsFiniteSet(R) /\ Cardinality(R) \in Nat
  BY <1>1, BlockFinite, FS_CardinalityType
<1>3. IsFiniteSet(B) /\ Cardinality(B) = 1
  BY FS_Singleton
<1>4. Cardinality(L) = Count(d[1], b) /\ Cardinality(R) = Count(d[2], b)
  BY DEF Count
<1> HIDE DEF L, R, B
<1>5. IsFiniteSet(L \X R) /\ Cardinality(L \X R) = Cardinality(L) * Cardinality(R)
  BY <1>2, FS_Product
<1>6. /\ IsFiniteSet(B \X (L \X R))
      /\ Cardinality(B \X (L \X R)) = Cardinality(B) * Cardinality(L \X R)
  BY <1>3, <1>5, FS_Product
<1>7. Cardinality(L) * Cardinality(R) \in Nat
  BY <1>2
<1>8. 1 * (Cardinality(L) * Cardinality(R)) = Cardinality(L) * Cardinality(R)
  BY <1>7
<1>9. /\ IsFiniteSet(B \X (L \X R))
      /\ Cardinality(B \X (L \X R)) = Count(d[1], b) * Count(d[2], b)
  BY <1>3, <1>4, <1>5, <1>6, <1>8
<1> QED BY <1>9 DEF Ordered, L, R, B

(* One block name, over all pairs of data providers.                       *)
LEMMA BlockCount ==
    ASSUME PackingTypeOK, NEW b \in BlockName
    PROVE  /\ IsFiniteSet(UNION {Ordered(b, d) : d \in Combinations})
           /\ Cardinality(UNION {Ordered(b, d) : d \in Combinations}) = BlockComparisons(b)
<1> DEFINE F == [d \in Combinations |-> Ordered(b, d)]
           n == [d \in Combinations |-> Count(d[1], b) * Count(d[2], b)]
<1>1. IsFiniteSet(Combinations)
  <2>1. IsFiniteSet(DataProvider \X DataProvider)
    BY PackagesAssumption, FS_Product DEF PackagesAssumption
  <2>2. Combinations \subseteq DataProvider \X DataProvider
    BY DEF Combinations
  <2> QED BY <2>1, <2>2, FS_Subset
<1>2. \A d \in Combinations : IsFiniteSet(F[d]) /\ Cardinality(F[d]) = n[d]
  BY OrderedCount
<1>3. \A c, d \in Combinations : c # d => F[c] \cap F[d] = {}
  <2> SUFFICES ASSUME NEW c \in Combinations, NEW d \in Combinations,
                      NEW w, w \in Ordered(b, c), w \in Ordered(b, d)
               PROVE  c = d
    OBVIOUS
  <2>1. w[1] = <<c[1], c[2], b>> /\ w[1] = <<d[1], d[2], b>>
    BY DEF Ordered
  <2>2. c[1] = d[1] /\ c[2] = d[2]
    BY <2>1
  <2> QED BY <2>2 DEF Combinations
<1>4. /\ IsFiniteSet(UNION {F[d] : d \in Combinations})
      /\ Cardinality(UNION {F[d] : d \in Combinations})
            = SumFunctionOnSet([d \in Combinations |-> Cardinality(F[d])], Combinations)
  <2> HIDE DEF F
  <2> QED BY <1>1, <1>2, <1>3, UnionCardinality
<1>5. [d \in Combinations |-> Cardinality(F[d])] = n
  BY <1>2
<1>6. SumFunction(n) = SumFunctionOnSet(n, Combinations)
  <2>1. DOMAIN n = Combinations
    OBVIOUS
  <2> HIDE DEF n
  <2> QED BY <2>1 DEF SumFunction
<1>7. UNION {F[d] : d \in Combinations} = UNION {Ordered(b, d) : d \in Combinations}
  OBVIOUS
<1>8. SumFunction(n) = BlockComparisons(b)
  BY DEF BlockComparisons
<1>9. /\ IsFiniteSet(UNION {F[d] : d \in Combinations})
      /\ Cardinality(UNION {F[d] : d \in Combinations}) = BlockComparisons(b)
  <2> HIDE DEF F, n
  <2> QED BY <1>4, <1>5, <1>6, <1>8
<1> HIDE DEF F
<1> QED BY <1>7, <1>9

(* All block names: the total of the database is the number of comparisons *)
(* to make.                                                                *)
LEMMA TotalCount ==
    ASSUME PackingTypeOK
    PROVE  TotalComparisons = Cardinality(ToCompare)
<1> DEFINE G(b) == UNION {Ordered(b, d) : d \in Combinations}
           F == [b \in BlockName |-> G(b)]
           n == [b \in BlockName |-> BlockComparisons(b)]
<1>1. \A b \in BlockName : IsFiniteSet(F[b]) /\ Cardinality(F[b]) = n[b]
  BY BlockCount
<1>2. ASSUME NEW b \in BlockName, NEW w \in G(b)
      PROVE  w[1][3] = b /\ w \in ToCompare
  <2>1. PICK d \in Combinations : w \in Ordered(b, d)
    OBVIOUS
  <2>2. PICK e \in blocks[d[1]][b], f \in blocks[d[2]][b] : w = <<<<d[1], d[2], b>>, <<e, f>>>>
    BY <2>1 DEF Ordered
  <2>3. d[1] \in DataProvider /\ d[2] \in DataProvider /\ d[1] < d[2]
    BY DEF Combinations
  <2>4. e \in Entity /\ f \in Entity
    BY <2>2, <2>3 DEF PackingTypeOK
  <2>5. <<d[1], d[2], b>> \in CommonBlocks
    BY <2>2, <2>3 DEF CommonBlocks
  <2> QED BY <2>2, <2>4, <2>5 DEF ToCompare
<1>3. ASSUME NEW w \in ToCompare
      PROVE  \E b \in BlockName : w \in G(b)
  <2> DEFINE t == w[1]
             d == <<t[1], t[2]>>
  <2>1. t \in CommonBlocks /\ w = <<t, <<w[2][1], w[2][2]>>>>
    BY DEF ToCompare
  <2>2. t[1] \in DataProvider /\ t[2] \in DataProvider /\ t[1] < t[2] /\ t[3] \in BlockName
        /\ t = <<t[1], t[2], t[3]>>
    BY <2>1 DEF CommonBlocks
  <2>3. d \in Combinations /\ d[1] = t[1] /\ d[2] = t[2]
    BY <2>2 DEF Combinations
  <2>4. w[2][1] \in blocks[t[1]][t[3]] /\ w[2][2] \in blocks[t[2]][t[3]]
    BY DEF ToCompare
  <2> HIDE DEF t, d
  <2>5. w \in Ordered(t[3], d)
    BY <2>1, <2>2, <2>3, <2>4 DEF Ordered
  <2> QED BY <2>2, <2>3, <2>5
<1>4. UNION {F[b] : b \in BlockName} = ToCompare
  <2>1. \A b \in BlockName : F[b] = G(b)
    OBVIOUS
  <2> HIDE DEF F, G
  <2> QED BY <2>1, <1>2, <1>3
<1>5. \A b, c \in BlockName : b # c => F[b] \cap F[c] = {}
  <2>1. \A b \in BlockName : F[b] = G(b)
    OBVIOUS
  <2> HIDE DEF F, G
  <2> QED BY <2>1, <1>2
<1>6. Cardinality(UNION {F[b] : b \in BlockName})
         = SumFunctionOnSet([b \in BlockName |-> Cardinality(F[b])], BlockName)
  <2> HIDE DEF F
  <2> QED BY NamesFinite, <1>1, <1>5, UnionCardinality
<1>7. [b \in BlockName |-> Cardinality(F[b])] = n
  BY <1>1
<1>8. SumFunction(n) = SumFunctionOnSet(n, BlockName)
  <2>1. DOMAIN n = BlockName
    OBVIOUS
  <2> HIDE DEF n
  <2> QED BY <2>1 DEF SumFunction
<1>9. SumFunction(n) = TotalComparisons
  BY DEF TotalComparisons
<1> HIDE DEF F, n
<1> QED BY <1>4, <1>6, <1>7, <1>8, <1>9

(* How far the run is, when packages are computed and when it has ended.   *)
Ended ==
    /\ step \in {"uploading", "packing"} => computed = {} /\ files = {}
    /\ step = "finished" => computed = DOMAIN packages /\ Cardinality(files) <= 1

(* Packages are computed only after packing, and a run ends with all of    *)
(* them computed and one file at most.                                     *)
LEMMA EndedStep ==
    ASSUME PackingTypeOK, Structure, Ended, FilesFound, [Next]_vars
    PROVE  Ended'
<1>1. ASSUME NEW d \in DataProvider,
             UploadBlocks(d) \/ UploadMap(d) \/ UploadJson(d) \/ UploadBinary(d)
      PROVE  Ended'
  <2>1. PICK keys, contents : Upload(d, keys, contents)
    BY <1>1, Contents
  <2> QED BY <2>1 DEF Upload, Ended, results
<1>2. CASE CreateJobs
  BY <1>2 DEF CreateJobs, Ended, results
<1>3. ASSUME NEW t \in todo, SplitBlock(t) \/ BundleBlock(t) PROVE Ended'
  BY <1>3 DEF SplitBlock, BundleBlock, TakeBlock, Ended, results
<1>4. CASE AppendChunk
  BY <1>4 DEF AppendChunk, Structure, Ended, results
<1>5. CASE SendPackages
  BY <1>5 DEF SendPackages, Ended
<1>6. ASSUME NEW p \in DOMAIN packages, Compute(p) PROVE Ended'
  BY <1>6 DEF Compute, Ended
<1>7. CASE MergeFiles
  BY <1>7 DEF MergeFiles, Aggregating, Ended
<1>8. CASE Finish
  <2>1. computed = DOMAIN packages /\ UNCHANGED <<computed, packages>> /\ step' = "finished"
    BY <1>8 DEF Finish, Aggregating, packing
  <2>2. Cardinality(files') <= 1
    <3>1. Cardinality(files) <= 1
      BY <1>8 DEF Finish
    <3>2. files' = files \/ \E f : files' = {f}
      BY <1>8 DEF Finish
    <3>3. ASSUME NEW f, files' = {f} PROVE Cardinality(files') <= 1
      <4>1. Cardinality({f}) = 1
        BY FS_Singleton
      <4>2. Cardinality(files') = 1
        BY <3>3, <4>1
      <4> QED BY <4>2
    <3> QED BY <3>1, <3>2, <3>3
  <2> QED BY <2>1, <2>2 DEF Ended
<1>9. CASE UNCHANGED vars
  BY <1>9 DEF vars, Ended
<1> QED BY <1>1, <1>2, <1>3, <1>4, <1>5, <1>6, <1>7, <1>8, <1>9 DEF Next

(* What a package makes and finds is settled when it is appended.          *)
LEMMA MakesStay ==
    ASSUME UNCHANGED <<blocks, packages>>
    PROVE  /\ ToCompare' = ToCompare
           /\ \A p, w : Makes(p, w)' <=> Makes(p, w)
  BY DEF ToCompare, CommonBlocks, Makes, Compares, Left, Right, InRange

(* A step that computes nothing, while the packages are the same.          *)
LEMMA ProgressKept ==
    ASSUME Progressed, UNCHANGED <<blocks, packages, computed, progress>>
    PROVE  Progressed'
  BY MakesStay DEF Progressed

(* Before the first package is computed the progress is zero.              *)
LEMMA NothingMade == ASSUME computed = {} PROVE Progressed <=> progress = 0
<1>1. {w \in ToCompare : \E p \in computed : Makes(p, w)} = {}
  OBVIOUS
<1> QED BY <1>1, FS_EmptySet DEF Progressed

(* So it is after a step that computes none.                               *)
LEMMA NothingMadeNext ==
    ASSUME computed' = {}, progress' = 0
    PROVE  Progressed'
<1>1. {w \in ToCompare' : \E p \in computed' : Makes(p, w)'} = {}
  OBVIOUS
<1> QED BY <1>1, FS_EmptySet DEF Progressed

(* A package that is compared makes only what none has made.               *)
LEMMA ProgressStep ==
    ASSUME PackingInvariant, Ended, Progressed, [Next]_vars
    PROVE  Progressed'
<1>0. PackingTypeOK /\ Structure
  BY DEF PackingInvariant
<1>1. ASSUME step \in {"uploading", "packing"}, UNCHANGED <<computed, progress>>
      PROVE  Progressed'
  <2>1. computed = {}
    BY <1>1 DEF Ended
  <2>2. progress = 0
    BY <2>1, NothingMade
  <2> QED BY <1>1, <2>1, <2>2, NothingMadeNext
<1>2. ASSUME NEW d \in DataProvider,
             UploadBlocks(d) \/ UploadMap(d) \/ UploadJson(d) \/ UploadBinary(d)
      PROVE  Progressed'
  <2>1. PICK keys, contents : Upload(d, keys, contents)
    BY <1>2, Contents
  <2> QED BY <2>1, <1>1 DEF Upload, results
<1>3. CASE CreateJobs
  BY <1>1, <1>3 DEF CreateJobs, results
<1>4. ASSUME NEW t \in todo, SplitBlock(t) \/ BundleBlock(t) PROVE Progressed'
  BY <1>1, <1>4 DEF SplitBlock, BundleBlock, TakeBlock, results
<1>5. CASE AppendChunk
  BY <1>0, <1>1, <1>5 DEF AppendChunk, Structure, results
<1>6. CASE SendPackages
  BY <1>1, <1>6 DEF SendPackages, results
<1>7. ASSUME NEW p \in DOMAIN packages, Compute(p) PROVE Progressed'
  <2> DEFINE Old == {w \in ToCompare : \E r \in computed : Makes(r, w)}
             New == {w \in ToCompare : Makes(p, w)}
  <2>1. /\ step = "computing" /\ p \notin computed
        /\ UNCHANGED <<blocks, packages>> /\ computed' = computed \cup {p}
        /\ progress' = progress + PackageComparisons(packages[p])
    BY <1>7 DEF Compute, Running, stored, packing
  <2>2. Old \cap New = {}
    <3> SUFFICES ASSUME NEW w \in ToCompare, NEW r \in computed, Makes(r, w), Makes(p, w) PROVE FALSE
      OBVIOUS
    <3>1. r \in DOMAIN packages
      BY <1>0 DEF PackingTypeOK
    <3>2. PICK c \in packages[p] :
             c.block = w[1][3] /\ Compares(packages[p], c, <<w[1][1], w[2][1], w[1][2], w[2][2]>>)
      BY DEF Makes
    <3>3. PICK d \in packages[r] :
             d.block = w[1][3] /\ Compares(packages[r], d, <<w[1][1], w[2][1], w[1][2], w[2][2]>>)
      BY DEF Makes
    <3>4. r = p
      BY <2>1, <3>1, <3>2, <3>3, MadeOnce
    <3> QED BY <2>1, <3>4
  <2>3. IsFiniteSet(Old) /\ IsFiniteSet(New) /\ Cardinality(Old) \in Nat /\ Cardinality(New) \in Nat
    <3>1. Old \subseteq ToCompare /\ New \subseteq ToCompare
      OBVIOUS
    <3> HIDE DEF Old, New
    <3> QED BY <3>1, ToCompareFinite, FS_Subset, FS_CardinalityType
  <2>4. Cardinality(Old \cup New) = Cardinality(Old) + Cardinality(New)
    <3> HIDE DEF Old, New
    <3>1. Cardinality(Old \cap New) = 0
      BY <2>2, FS_EmptySet
    <3>2. Cardinality(Old \cup New) = Cardinality(Old) + Cardinality(New) - Cardinality(Old \cap New)
      BY <2>3, FS_Union
    <3> QED BY <2>3, <3>1, <3>2
  <2>5. Cardinality(New) = PackageComparisons(packages[p])
    BY <2>1, MakesCount
  <2>6. {w \in ToCompare' : \E r \in computed' : Makes(r, w)'} = Old \cup New
    <3>1. {w \in ToCompare : \E r \in computed' : Makes(r, w)} = Old \cup New
      BY <2>1
    <3> HIDE DEF Old, New
    <3> QED BY <2>1, <3>1, MakesStay
  <2>7. progress = Cardinality(Old)
    BY DEF Progressed
  <2>8. progress' = Cardinality(Old \cup New)
    <3> HIDE DEF Old, New
    <3> QED BY <2>1, <2>4, <2>5, <2>7
  <2> HIDE DEF Old, New
  <2> QED BY <2>6, <2>8 DEF Progressed
<1>8. CASE MergeFiles \/ Finish
  BY <1>8, ProgressKept DEF MergeFiles, Finish, stored, packing
<1>9. CASE UNCHANGED vars
  BY <1>9, ProgressKept DEF vars
<1> QED BY <1>2, <1>3, <1>4, <1>5, <1>6, <1>7, <1>8, <1>9 DEF Next

-------------------------------------------------------------------------------
(* What the files have.                                                    *)

(* What a package has to have scores of.                                   *)
AllScored(scores, p) ==
    \A c \in packages[p] : \A q \in Matches(packages[p], c) : Scored(scores, packages[p], c, q)

(* A file has scores of what the packages it comes from find, and all of   *)
(* it; no package's finds are without a file.                              *)
FileOK(f) ==
    /\ f.of \subseteq computed
    /\ f.scores \in [Pair -> Nat]
    /\ \A q \in Pair : f.scores[q] > 0 => \E p \in f.of : Finds(p, q)
    /\ \A p \in f.of : AllScored(f.scores, p)
    /\ Cardinality(f.of) > 1 => \A q \in Pair : f.scores[q] <= 1
Kept(p) == \A q \in Pair : Finds(p, q) => \E f \in files : p \in f.of

(* FilesFound in terms of single files and single packages.                *)
LEMMA FilesNow ==
    FilesFound <=> IsFiniteSet(files) /\ (\A f \in files : FileOK(f)) /\ \A p \in computed : Kept(p)
  BY DEF FilesFound, FileOK, Kept, AllScored

(* What a package finds is settled when it is appended.                    *)
LEMMA FindsStay ==
    ASSUME UNCHANGED <<blocks, rows, similar, packages>>
    PROVE  /\ \A p, q : Finds(p, q)' <=> Finds(p, q)
           /\ \A p, scores : AllScored(scores, p)' <=> AllScored(scores, p)
<1>1. \A p, q : Finds(p, q)' <=> Finds(p, q)
  BY DEF Finds, Matches, Compares, Similar, Left, Right, InRange
<1>2. ASSUME NEW p, NEW scores PROVE AllScored(scores, p)' <=> AllScored(scores, p)
  <2>1. \A c : Matches(packages[p], c)' = Matches(packages[p], c)
    BY DEF Matches, Compares, Similar, Left, Right, InRange
  <2>2. \A c : K(packages[p], c)' = K(packages[p], c)
    BY DEF K, Left, Right, InRange
  <2>3. \A c, q : Scored(scores, packages[p], c, q)' <=> Scored(scores, packages[p], c, q)
    BY <2>1, <2>2 DEF Scored, Rivals
  <2> QED BY <2>1, <2>3 DEF AllScored
<1> QED BY <1>1, <1>2

(* The files of the next state, while the packages are the same.           *)
LEMMA FilesNext ==
    ASSUME UNCHANGED <<blocks, rows, similar, packages>>,
           computed \subseteq computed',
           IsFiniteSet(files'),
           \A f \in files' :
              /\ f.of \subseteq computed'
              /\ f.scores \in [Pair -> Nat]
              /\ \A q \in Pair : f.scores[q] > 0 => \E p \in f.of : Finds(p, q)
              /\ \A p \in f.of : AllScored(f.scores, p)
              /\ Cardinality(f.of) > 1 => \A q \in Pair : f.scores[q] <= 1,
           \A p \in computed' : \A q \in Pair : Finds(p, q) => \E f \in files' : p \in f.of
    PROVE  FilesFound'
<1>1. \A f \in files' : \A p \in f.of : AllScored(f.scores, p)'
  BY FindsStay
<1>2. \A p, q : Finds(p, q)' <=> Finds(p, q)
  BY FindsStay
<1>3. \A f \in files' : /\ f.of \subseteq computed'
                        /\ f.scores \in [Pair -> Nat]
                        /\ \A q \in Pair : f.scores[q] > 0 => \E p \in f.of : Finds(p, q)'
                        /\ Cardinality(f.of) > 1 => \A q \in Pair : f.scores[q] <= 1
  BY <1>2
<1>4. \A p \in computed' : \A q \in Pair : Finds(p, q)' => \E f \in files' : p \in f.of
  BY <1>2
<1> QED BY <1>1, <1>3, <1>4 DEF FilesFound, AllScored

(* Where a chunk finds a pair, k is a number and not zero.                 *)
LEMMA KType ==
    ASSUME PackingTypeOK, NEW P, NEW c, WellPlaced(c), NEW q \in Matches(P, c)
    PROVE  K(P, c) \in Nat \ {0}
<1> DEFINE L == Left(P, c)
           R == Right(P, c)
<1>1. /\ IsFiniteSet(L) /\ Cardinality(L) \in Nat
      /\ IsFiniteSet(R) /\ Cardinality(R) \in Nat
  BY SidesFinite
<1>2. L # {} /\ R # {}
  BY DEF Matches, Compares
<1>3. K(P, c) = Cardinality(L) \/ K(P, c) = Cardinality(R)
  BY DEF K
<1> HIDE DEF L, R
<1>4. Cardinality(L) # 0 /\ Cardinality(R) # 0
  BY <1>1, <1>2, FS_EmptySet
<1> QED BY <1>1, <1>3, <1>4

(* What has a score with some scores has one with more.                    *)
LEMMA ScoredMore ==
    ASSUME PackingTypeOK, NEW P, NEW c, WellPlaced(c), NEW q \in Matches(P, c),
           NEW scores, NEW more, \A r \in Pair : scores[r] > 0 => more[r] > 0,
           Scored(scores, P, c, q)
    PROVE  Scored(more, P, c, q)
<1> DEFINE A == {r \in Rivals(Matches(P, c), q) : scores[r] > 0}
           B == {r \in Rivals(Matches(P, c), q) : more[r] > 0}
<1>1. q \in Pair /\ Rivals(Matches(P, c), q) \subseteq Pair
  BY DEF Matches, Rivals
<1>2. CASE scores[q] > 0
  BY <1>1, <1>2 DEF Scored
<1>3. CASE Cardinality(A) >= K(P, c)
  <2>1. A \subseteq B /\ B \subseteq Pair
    BY <1>1
  <2> HIDE DEF A, B
  <2>2. IsFiniteSet(A) /\ IsFiniteSet(B)
    BY <2>1, PairFinite, FS_Subset
  <2>3. Cardinality(A) <= Cardinality(B) /\ Cardinality(A) \in Nat /\ Cardinality(B) \in Nat
    BY <2>1, <2>2, FS_Subset, FS_CardinalityType
  <2>4. Cardinality(B) >= K(P, c)
    BY <1>3, <2>3, KType
  <2> QED BY <2>4 DEF Scored, B
<1> QED BY <1>2, <1>3 DEF Scored

(* What compute_filter_similarity counts: scores are of what the package   *)
(* finds, all that k allows, and the count of candidates is zero only if   *)
(* it finds nothing.                                                       *)
LEMMA CandidatesFound ==
    ASSUME PackingTypeOK, Structure, NEW p \in DOMAIN packages,
           NEW ret \in Returns(packages[p])
    PROVE  LET scores == Candidates(packages[p], ret) IN
           /\ scores \in [Pair -> Nat]
           /\ \A q \in Pair : scores[q] > 0 => Finds(p, q)
           /\ AllScored(scores, p)
           /\ NumCandidates(scores) = 0 => \A q \in Pair : ~Finds(p, q)
<1> DEFINE P == packages[p]
           Having(q) == {c \in P : q \in ret[c]}
           scores == [q \in Pair |-> Cardinality(Having(q))]
<1>1. IsFiniteSet(P) /\ \A c \in P : WellPlaced(c)
  BY PackageFinite DEF Structure, PackageOK, ChunkOK
<1>2. ASSUME NEW q \in Pair
      PROVE  Cardinality(Having(q)) \in Nat /\ (Cardinality(Having(q)) > 0 <=> Having(q) # {})
  <2>1. IsFiniteSet(Having(q))
    BY <1>1, FS_Subset
  <2> HIDE DEF Having
  <2>2. Cardinality(Having(q)) \in Nat /\ (Cardinality(Having(q)) = 0 <=> Having(q) = {})
    BY <2>1, FS_CardinalityType, FS_EmptySet
  <2> QED BY <2>2
<1>3. \A c \in P : ret[c] \in TopK(P, c)
  BY DEF Returns
<1>4. \A c \in P : ret[c] \subseteq Matches(P, c) /\ Matches(P, c) \subseteq Pair
  BY <1>3 DEF TopK, Matches
<1>5. scores \in [Pair -> Nat] /\ \A q \in Pair : scores[q] > 0 <=> \E c \in P : q \in ret[c]
  <2>1. \A q \in Pair : Having(q) # {} <=> \E c \in P : q \in ret[c]
    OBVIOUS
  <2> HIDE DEF Having
  <2> QED BY <1>2, <2>1
<1> HIDE DEF scores
<1>6. \A q \in Pair : scores[q] > 0 => Finds(p, q)
  BY <1>4, <1>5 DEF Finds
<1>7. ASSUME NEW c \in P, NEW q \in Matches(P, c)
      PROVE  Scored(scores, P, c, q)
  <2> DEFINE A == Rivals(ret[c], q)
             B == {r \in Rivals(Matches(P, c), q) : scores[r] > 0}
  <2>1. q \in ret[c] \/ Cardinality(A) = K(P, c)
    BY <1>3 DEF TopK
  <2>2. CASE q \in ret[c]
    BY <1>4, <1>5, <2>2 DEF Scored
  <2>3. CASE Cardinality(A) = K(P, c)
    <3>1. A \subseteq B /\ B \subseteq Pair
      BY <1>4, <1>5 DEF Rivals
    <3> HIDE DEF A, B
    <3>2. IsFiniteSet(A) /\ IsFiniteSet(B)
      BY <3>1, PairFinite, FS_Subset
    <3>3. Cardinality(A) <= Cardinality(B) /\ Cardinality(A) \in Nat /\ Cardinality(B) \in Nat
      BY <3>1, <3>2, FS_Subset, FS_CardinalityType
    <3>4. Cardinality(B) >= K(P, c)
      BY <2>3, <3>3
    <3> QED BY <3>4 DEF Scored, B
  <2> QED BY <2>1, <2>2, <2>3
<1>8. AllScored(scores, p)
  BY <1>7 DEF AllScored
<1>9. ASSUME SumFunction(scores) = 0, NEW q \in Pair, Finds(p, q) PROVE FALSE
  <2>1. DOMAIN scores = Pair /\ \A r \in Pair : scores[r] \in Nat
    BY <1>5
  <2>2. \A r \in Pair : scores[r] = 0
    BY <1>9, <2>1, PairFinite, SumZero DEF SumFunction
  <2>3. PICK c \in P : q \in Matches(P, c)
    BY <1>9 DEF Finds
  <2>4. K(P, c) \in Nat \ {0}
    BY <1>1, <2>3, KType
  <2> DEFINE B == {r \in Rivals(Matches(P, c), q) : scores[r] > 0}
  <2>5. B = {}
    BY <1>4, <2>2 DEF Rivals
  <2>6. Cardinality(B) >= K(P, c)
    BY <1>7, <2>2, <2>3 DEF Scored
  <2> HIDE DEF B
  <2>7. Cardinality(B) = 0
    BY <2>5, FS_EmptySet
  <2> QED BY <2>4, <2>6, <2>7
<1>10. Candidates(P, ret) = scores
  BY DEF Candidates, scores
<1> QED BY <1>5, <1>6, <1>8, <1>9, <1>10 DEF NumCandidates

(* A merged file has what both files have, once.                           *)
LEMMA MergedFound ==
    ASSUME PackingTypeOK, Structure, NEW f, NEW g, FileOK(f), FileOK(g)
    PROVE  /\ Merge(f, g).of = f.of \cup g.of
           /\ Merge(f, g).scores \in [Pair -> Nat]
           /\ \A q \in Pair : Merge(f, g).scores[q] <= 1
           /\ \A q \in Pair : Merge(f, g).scores[q] > 0 => \E p \in f.of \cup g.of : Finds(p, q)
           /\ \A p \in f.of \cup g.of : AllScored(Merge(f, g).scores, p)
<1> DEFINE h == [q \in Pair |-> IF f.scores[q] + g.scores[q] > 0 THEN 1 ELSE 0]
<1>1. Merge(f, g).of = f.of \cup g.of /\ Merge(f, g).scores = h
  BY DEF Merge
<1>2. h \in [Pair -> Nat] /\ \A q \in Pair : h[q] <= 1
  OBVIOUS
<1>3. ASSUME NEW q \in Pair PROVE h[q] > 0 <=> f.scores[q] > 0 \/ g.scores[q] > 0
  <2>1. f.scores[q] \in Nat /\ g.scores[q] \in Nat
    BY DEF FileOK
  <2> QED BY <2>1
<1> HIDE DEF h
<1>4. ASSUME NEW q \in Pair, h[q] > 0 PROVE \E p \in f.of \cup g.of : Finds(p, q)
  BY <1>3, <1>4 DEF FileOK
<1>5. ASSUME NEW e, FileOK(e), \A q \in Pair : e.scores[q] > 0 => h[q] > 0, NEW p \in e.of
      PROVE  AllScored(h, p)
  <2> SUFFICES ASSUME NEW c \in packages[p], NEW q \in Matches(packages[p], c)
               PROVE  Scored(h, packages[p], c, q)
    BY DEF AllScored
  <2>1. p \in DOMAIN packages
    BY <1>5 DEF FileOK, PackingTypeOK
  <2>2. WellPlaced(c)
    BY <2>1 DEF Structure, PackageOK, ChunkOK
  <2>3. Scored(e.scores, packages[p], c, q)
    BY <1>5 DEF FileOK, AllScored
  <2> QED BY <1>5, <2>2, <2>3, ScoredMore
<1>6. \A p \in f.of \cup g.of : AllScored(h, p)
  BY <1>3, <1>5
<1> QED BY <1>1, <1>2, <1>4, <1>6

(* Every step keeps what the files have: computing a package, merging two  *)
(* files and ending the run add or lose no pair.                           *)
LEMMA FilesStep ==
    ASSUME PackingTypeOK, Structure, Ended, FilesFound, [Next]_vars
    PROVE  FilesFound'
<1>0. IsFiniteSet(files) /\ (\A f \in files : FileOK(f)) /\ \A p \in computed : Kept(p)
  BY FilesNow
<1>1. ASSUME step \in {"uploading", "packing"}, UNCHANGED <<computed, files>>
      PROVE  FilesFound'
  <2>1. computed' = {} /\ files' = {}
    BY <1>1 DEF Ended
  <2> QED BY <2>1, FS_EmptySet DEF FilesFound
<1>2. ASSUME NEW d \in DataProvider,
             UploadBlocks(d) \/ UploadMap(d) \/ UploadJson(d) \/ UploadBinary(d)
      PROVE  FilesFound'
  <2>1. PICK keys, contents : Upload(d, keys, contents)
    BY <1>2, Contents
  <2> QED BY <2>1, <1>1 DEF Upload, results
<1>3. CASE CreateJobs
  BY <1>1, <1>3 DEF CreateJobs, results
<1>4. ASSUME NEW t \in todo, SplitBlock(t) \/ BundleBlock(t) PROVE FilesFound'
  BY <1>1, <1>4 DEF SplitBlock, BundleBlock, TakeBlock, results
<1>5. CASE AppendChunk
  BY <1>1, <1>5 DEF AppendChunk, Structure, results
<1>6. CASE SendPackages
  BY <1>1, <1>6 DEF SendPackages, results
<1>7. ASSUME NEW p \in DOMAIN packages, Compute(p) PROVE FilesFound'
  <2>0. PICK ret \in Returns(packages[p]) : LET scores == Candidates(packages[p], ret) IN
           files' = files \cup (IF NumCandidates(scores) = 0 THEN {}
               ELSE {[of |-> {p}, num |-> NumCandidates(scores), scores |-> scores]})
    BY <1>7 DEF Compute
  <2> DEFINE scores == Candidates(packages[p], ret)
             new == [of |-> {p}, num |-> NumCandidates(scores), scores |-> scores]
  <2>1. /\ UNCHANGED <<blocks, rows, similar, packages>> /\ computed' = computed \cup {p}
        /\ files' = files \cup (IF NumCandidates(scores) = 0 THEN {} ELSE {new})
    BY <1>7, <2>0 DEF Compute, stored, packing
  <2>2. /\ scores \in [Pair -> Nat]
        /\ \A q \in Pair : scores[q] > 0 => Finds(p, q)
        /\ AllScored(scores, p)
        /\ NumCandidates(scores) = 0 => \A q \in Pair : ~Finds(p, q)
    BY CandidatesFound
  <2>3. new.of = {p} /\ new.scores = scores
    OBVIOUS
  <2> HIDE DEF scores, new
  <2>4. /\ new.of \subseteq computed'
        /\ new.scores \in [Pair -> Nat]
        /\ \A q \in Pair : new.scores[q] > 0 => \E r \in new.of : Finds(r, q)
        /\ \A r \in new.of : AllScored(new.scores, r)
        /\ Cardinality(new.of) > 1 => \A q \in Pair : new.scores[q] <= 1
    <3>1. Cardinality(new.of) = 1
      BY <2>3, FS_Singleton
    <3>2. ~(Cardinality(new.of) > 1)
      BY <3>1
    <3> QED BY <2>1, <2>2, <2>3, <3>2
  <2>5. IsFiniteSet(files')
    BY <1>0, <2>1, FS_AddElement
  <2>6. \A f \in files' :
           /\ f.of \subseteq computed'
           /\ f.scores \in [Pair -> Nat]
           /\ \A q \in Pair : f.scores[q] > 0 => \E r \in f.of : Finds(r, q)
           /\ \A r \in f.of : AllScored(f.scores, r)
           /\ Cardinality(f.of) > 1 => \A q \in Pair : f.scores[q] <= 1
    <3>1. \A f \in files : f.of \subseteq computed'
      BY <1>0, <2>1 DEF FileOK
    <3> QED BY <1>0, <2>1, <2>4, <3>1 DEF FileOK
  <2>7. \A r \in computed' : \A q \in Pair : Finds(r, q) => \E f \in files' : r \in f.of
    <3>1. ASSUME NEW r \in computed, NEW q \in Pair, Finds(r, q)
          PROVE  \E f \in files' : r \in f.of
      BY <1>0, <2>1, <3>1 DEF Kept
    <3>2. ASSUME NEW q \in Pair, Finds(p, q)
          PROVE  \E f \in files' : p \in f.of
      BY <2>1, <2>2, <2>3, <3>2
    <3> QED BY <2>1, <3>1, <3>2
  <2> QED BY <2>1, <2>5, <2>6, <2>7, FilesNext
<1>8. CASE MergeFiles
  <2>1. PICK f \in files, g \in files : files' = (files \ {f, g}) \cup {Merge(f, g)}
    BY <1>8 DEF MergeFiles
  <2>2. UNCHANGED <<blocks, rows, similar, packages, computed>>
    BY <1>8 DEF MergeFiles, stored, packing
  <2> DEFINE m == Merge(f, g)
  <2>3. /\ m.of = f.of \cup g.of
        /\ m.scores \in [Pair -> Nat]
        /\ \A q \in Pair : m.scores[q] <= 1
        /\ \A q \in Pair : m.scores[q] > 0 => \E p \in f.of \cup g.of : Finds(p, q)
        /\ \A p \in f.of \cup g.of : AllScored(m.scores, p)
    BY <1>0, MergedFound
  <2> HIDE DEF m
  <2>4. files' = (files \ {f, g}) \cup {m}
    BY <2>1 DEF m
  <2>5. IsFiniteSet(files')
    <3>1. IsFiniteSet(files \ {f, g})
      BY <1>0, FS_Subset
    <3> QED BY <2>4, <3>1, FS_AddElement
  <2>6. \A h \in files' :
           /\ h.of \subseteq computed'
           /\ h.scores \in [Pair -> Nat]
           /\ \A q \in Pair : h.scores[q] > 0 => \E p \in h.of : Finds(p, q)
           /\ \A p \in h.of : AllScored(h.scores, p)
           /\ Cardinality(h.of) > 1 => \A q \in Pair : h.scores[q] <= 1
    <3>1. f.of \cup g.of \subseteq computed
      BY <1>0 DEF FileOK
    <3>2. /\ m.of \subseteq computed'
          /\ m.scores \in [Pair -> Nat]
          /\ \A q \in Pair : m.scores[q] > 0 => \E p \in m.of : Finds(p, q)
          /\ \A p \in m.of : AllScored(m.scores, p)
          /\ Cardinality(m.of) > 1 => \A q \in Pair : m.scores[q] <= 1
      BY <2>2, <2>3, <3>1
    <3>3. \A h \in files : h.of \subseteq computed'
      BY <1>0, <2>2 DEF FileOK
    <3> QED BY <1>0, <2>4, <3>2, <3>3 DEF FileOK
  <2>7. \A p \in computed' : \A q \in Pair : Finds(p, q) => \E h \in files' : p \in h.of
    <3> SUFFICES ASSUME NEW p \in computed', NEW q \in Pair, Finds(p, q)
                 PROVE  \E h \in files' : p \in h.of
      OBVIOUS
    <3>1. PICK h \in files : p \in h.of
      BY <1>0, <2>2 DEF Kept
    <3>2. h \in files' \/ h \in {f, g}
      BY <2>4
    <3>3. h \in {f, g} => p \in m.of
      BY <2>3, <3>1
    <3> QED BY <2>4, <3>1, <3>2, <3>3
  <2> QED BY <2>2, <2>5, <2>6, <2>7, FilesNext
<1>9. CASE Finish
  <2>1. UNCHANGED <<blocks, rows, similar, packages, computed>>
    BY <1>9 DEF Finish, stored, packing
  <2>2. CASE files # {}
    <3>1. files' = files
      BY <1>9, <2>2 DEF Finish
    <3>2. \A f \in files' :
             /\ f.of \subseteq computed'
             /\ f.scores \in [Pair -> Nat]
             /\ \A q \in Pair : f.scores[q] > 0 => \E r \in f.of : Finds(r, q)
             /\ \A r \in f.of : AllScored(f.scores, r)
             /\ Cardinality(f.of) > 1 => \A q \in Pair : f.scores[q] <= 1
      BY <1>0, <2>1, <3>1 DEF FileOK
    <3> QED BY <1>0, <2>1, <3>1, <3>2, FilesNext DEF Kept
  <2>3. CASE files = {}
    <3> DEFINE zero == [q \in Pair |-> 0]
               new == [of |-> {}, num |-> 0, scores |-> zero]
    <3>1. files' = {new}
      BY <1>9, <2>3 DEF Finish
    <3>2. new.of = {} /\ new.scores = zero
      OBVIOUS
    <3>3. zero \in [Pair -> Nat] /\ \A q \in Pair : zero[q] = 0 /\ ~(zero[q] > 0)
      OBVIOUS
    <3>4. Cardinality({}) = 0 /\ ~(0 > 1)
      BY FS_EmptySet
    <3> HIDE DEF zero, new
    <3>5. \A f \in files' :
             /\ f.of \subseteq computed'
             /\ f.scores \in [Pair -> Nat]
             /\ \A q \in Pair : f.scores[q] > 0 => \E r \in f.of : Finds(r, q)
             /\ \A r \in f.of : AllScored(f.scores, r)
             /\ Cardinality(f.of) > 1 => \A q \in Pair : f.scores[q] <= 1
      BY <3>1, <3>2, <3>3, <3>4
    <3>6. \A r \in computed' : \A q \in Pair : ~Finds(r, q)
      BY <1>0, <2>1, <2>3 DEF Kept
    <3>7. IsFiniteSet(files')
      BY <3>1, FS_Singleton
    <3> QED BY <2>1, <3>5, <3>6, <3>7, FilesNext
  <2> QED BY <2>2, <2>3
<1>10. CASE UNCHANGED vars
  <2>1. UNCHANGED <<blocks, rows, similar, packages, computed, files>>
    BY <1>10 DEF vars
  <2>2. \A f \in files' :
           /\ f.of \subseteq computed'
           /\ f.scores \in [Pair -> Nat]
           /\ \A q \in Pair : f.scores[q] > 0 => \E r \in f.of : Finds(r, q)
           /\ \A r \in f.of : AllScored(f.scores, r)
           /\ Cardinality(f.of) > 1 => \A q \in Pair : f.scores[q] <= 1
    BY <1>0, <2>1 DEF FileOK
  <2> QED BY <1>0, <2>1, <2>2, FilesNext DEF Kept
<1> QED BY <1>2, <1>3, <1>4, <1>5, <1>6, <1>7, <1>8, <1>9, <1>10 DEF Next

-------------------------------------------------------------------------------
(* Types of what is not packing: uploaded rows, files.                     *)

RestTyped ==
    /\ similar \in Similarities
    /\ \A d \in DataProvider : RowsTypeOK(d)
    /\ \A f \in files :
          f.num \in Nat /\ f = [of |-> f.of, num |-> f.num, scores |-> f.scores]

(* A step that uploads nothing and makes no file.                          *)
LEMMA RestKept ==
    ASSUME RestTyped, UNCHANGED <<similar, rows, files>>
    PROVE  RestTyped'
  BY DEF RestTyped, RowsTypeOK

(* What the rows of an upload are, in whichever format it comes.           *)
LEMMA UploadedRows ==
    ASSUME NEW d \in DataProvider,
           UploadBlocks(d) \/ UploadMap(d) \/ UploadJson(d) \/ UploadBinary(d)
    PROVE  \E k \in 0 .. Size[d] : \E keys \in [0 .. k - 1 -> 0 .. Size[d] - 1] :
              \E contents : Upload(d, keys, contents)
<1>1. Size[d] \in Nat
  BY PackagesAssumption DEF PackagesAssumption
<1>2. ASSUME NEW n \in 1 .. Size[d], NEW contents, Upload(d, InOrder(n), contents)
      PROVE  \E k \in 0 .. Size[d] : \E keys \in [0 .. k - 1 -> 0 .. Size[d] - 1] :
                Upload(d, keys, contents)
  <2>1. n \in 0 .. Size[d] /\ InOrder(n) \in [0 .. n - 1 -> 0 .. Size[d] - 1]
    BY <1>1 DEF InOrder
  <2> QED BY <1>2, <2>1
<1>3. CASE UploadBlocks(d)
  BY <1>2, <1>3 DEF UploadBlocks
<1>4. CASE UploadMap(d)
  <2>0. PICK n \in 1 .. Size[d] : \E k \in 1 .. n :
           \E keys \in [0 .. k - 1 -> 0 .. n - 1] : \E contents : Upload(d, keys, contents)
    BY <1>4 DEF UploadMap
  <2>1. PICK k \in 1 .. n : \E keys \in [0 .. k - 1 -> 0 .. n - 1] :
           \E contents : Upload(d, keys, contents)
    BY <2>0
  <2>2. 0 .. n - 1 \subseteq 0 .. Size[d] - 1 /\ k \in 0 .. Size[d]
    BY <1>1
  <2>3. [0 .. k - 1 -> 0 .. n - 1] \subseteq [0 .. k - 1 -> 0 .. Size[d] - 1]
    BY <2>2
  <2> QED BY <2>1, <2>2, <2>3
<1>5. CASE UploadJson(d)
  BY <1>2, <1>5 DEF UploadJson
<1>6. CASE UploadBinary(d)
  BY <1>2, <1>6 DEF UploadBinary
<1> QED BY <1>3, <1>4, <1>5, <1>6

(* Every step keeps them.                                                  *)
LEMMA RestStep ==
    ASSUME PackingTypeOK, Structure, Ended, FilesFound, RestTyped, [Next]_vars
    PROVE  RestTyped'
<1>1. ASSUME NEW d \in DataProvider,
             UploadBlocks(d) \/ UploadMap(d) \/ UploadJson(d) \/ UploadBinary(d)
      PROVE  RestTyped'
  <2>0. PICK k \in 0 .. Size[d] : \E keys \in [0 .. k - 1 -> 0 .. Size[d] - 1] :
           \E contents : Upload(d, keys, contents)
    BY <1>1, UploadedRows
  <2>1. PICK keys \in [0 .. k - 1 -> 0 .. Size[d] - 1] : \E contents : Upload(d, keys, contents)
    BY <2>0
  <2>2. rows' = [rows EXCEPT ![d] = keys] /\ UNCHANGED <<similar, files>>
    BY <2>1 DEF Upload, results
  <2>3. DOMAIN rows = DataProvider
    BY DEF PackingTypeOK
  <2>4. ASSUME NEW c \in DataProvider PROVE RowsTypeOK(c)'
    <3>1. CASE c = d
      <4>1. rows'[c] = keys
        BY <2>2, <2>3, <3>1
      <4> QED BY <3>1, <4>1 DEF RowsTypeOK
    <3>2. CASE c # d
      <4>1. rows'[c] = rows[c]
        BY <2>2, <2>3, <3>2
      <4> QED BY <4>1 DEF RestTyped, RowsTypeOK
    <3> QED BY <3>1, <3>2
  <2> QED BY <2>2, <2>4 DEF RestTyped
<1>2. CASE CreateJobs
  BY <1>2, RestKept DEF CreateJobs, stored, results
<1>3. ASSUME NEW t \in todo, SplitBlock(t) \/ BundleBlock(t) PROVE RestTyped'
  BY <1>3, RestKept DEF SplitBlock, BundleBlock, stored, results
<1>4. CASE AppendChunk
  BY <1>4, RestKept DEF AppendChunk, stored, results
<1>5. CASE SendPackages
  BY <1>5, RestKept DEF SendPackages, stored, results
<1>6. ASSUME UNCHANGED <<similar, rows>>,
             \A f \in files' : f \in files \/ \E of, scores : \E num \in Nat :
                f = [of |-> of, num |-> num, scores |-> scores]
      PROVE  RestTyped'
  BY <1>6 DEF RestTyped, RowsTypeOK
<1>7. ASSUME NEW p \in DOMAIN packages, Compute(p) PROVE RestTyped'
  <2>1. PICK ret \in Returns(packages[p]) : LET scores == Candidates(packages[p], ret) IN
           files' = files \cup (IF NumCandidates(scores) = 0 THEN {}
               ELSE {[of |-> {p}, num |-> NumCandidates(scores), scores |-> scores]})
    BY <1>7 DEF Compute
  <2> DEFINE scores == Candidates(packages[p], ret)
  <2>2. scores \in [Pair -> Nat]
    BY CandidatesFound
  <2>3. NumCandidates(scores) \in Nat
    <3> HIDE DEF scores
    <3>1. DOMAIN scores = Pair /\ \A q \in Pair : scores[q] \in Nat
      BY <2>2
    <3> QED BY <3>1, PairFinite, SumType DEF NumCandidates, SumFunction
  <2>4. UNCHANGED <<similar, rows>>
    BY <1>7 DEF Compute, stored
  <2>5. files' = files \cup (IF NumCandidates(scores) = 0 THEN {}
           ELSE {[of |-> {p}, num |-> NumCandidates(scores), scores |-> scores]})
    BY <2>1
  <2> HIDE DEF scores
  <2> QED BY <1>6, <2>3, <2>4, <2>5
<1>8. CASE MergeFiles
  <2>1. PICK f \in files, g \in files : files' = (files \ {f, g}) \cup {Merge(f, g)}
    BY <1>8 DEF MergeFiles
  <2>2. f.num + g.num \in Nat
    BY DEF RestTyped
  <2>3. UNCHANGED <<similar, rows>>
    BY <1>8 DEF MergeFiles, stored
  <2>4. \E of, scores : Merge(f, g) = [of |-> of, num |-> f.num + g.num, scores |-> scores]
    BY DEF Merge
  <2> QED BY <1>6, <2>1, <2>2, <2>3, <2>4
<1>9. CASE Finish
  <2>1. UNCHANGED <<similar, rows>>
    BY <1>9 DEF Finish, stored
  <2>2. files' = files \/ files' = {[of |-> {}, num |-> 0, scores |-> [q \in Pair |-> 0]]}
    BY <1>9 DEF Finish
  <2> QED BY <1>6, <2>1, <2>2
<1>10. CASE UNCHANGED vars
  BY <1>10, RestKept DEF vars
<1> QED BY <1>1, <1>2, <1>3, <1>4, <1>5, <1>7, <1>8, <1>9, <1>10 DEF Next

-------------------------------------------------------------------------------
(* The theorems.                                                           *)

(* The current package, the progress and the files of any run add up to    *)
(* the blocks that _create_work_packages took, the comparisons that were   *)
(* made and the pairs that were found.                                     *)
THEOREM ResultsInvariantHolds == Spec => []ResultsInvariant
<1>1. Init => ResultsInvariant
  <2> SUFFICES ASSUME Init PROVE ResultsInvariant
    OBVIOUS
  <2>1. computed = {} /\ files = {} /\ step = "uploading" /\ progress = 0
    BY DEF Init
  <2>2. FilesFound
    BY <2>1, FS_EmptySet DEF FilesFound
  <2> QED BY <2>1, <2>2, NothingMade, BundledInit DEF ResultsInvariant
<1>2. PackingInvariant /\ ResultsInvariant /\ [Next]_vars => ResultsInvariant'
  <2> SUFFICES ASSUME PackingInvariant, ResultsInvariant, [Next]_vars
               PROVE  ResultsInvariant'
    OBVIOUS
  <2>1. PackingTypeOK /\ Structure
    BY DEF PackingInvariant
  <2>2. Ended /\ Bundled /\ Progressed /\ FilesFound
    BY DEF ResultsInvariant, Ended
  <2>3. Ended' /\ Bundled' /\ Progressed' /\ FilesFound'
    BY <2>1, <2>2, EndedStep, BundledStep, ProgressStep, FilesStep
  <2> QED BY <2>3 DEF ResultsInvariant, Ended
<1> QED BY <1>1, <1>2, PackingInvariantHolds, PTL DEF Spec

(* Every variable keeps its type: rows were uploaded, the progress is a    *)
(* natural number, and files are of computed packages and have scores of   *)
(* pairs.                                                                  *)
THEOREM PackagesTypeCorrect == Spec => []PackagesTypeOK
<1>1. Init => RestTyped
  <2> SUFFICES ASSUME Init, NEW d \in DataProvider PROVE RowsTypeOK(d)
    BY DEF Init, RestTyped
  <2>1. rows[d] = << >> /\ Size[d] \in Nat
    BY PackagesAssumption DEF Init, PackagesAssumption
  <2>2. << >> \in [0 .. 0 - 1 -> 0 .. Size[d] - 1] /\ 0 \in 0 .. Size[d]
    BY <2>1
  <2> QED BY <2>1, <2>2 DEF RowsTypeOK
<1>2. PackingInvariant /\ ResultsInvariant /\ RestTyped /\ [Next]_vars => RestTyped'
  <2> SUFFICES ASSUME PackingInvariant, ResultsInvariant, RestTyped, [Next]_vars
               PROVE  RestTyped'
    OBVIOUS
  <2>1. PackingTypeOK /\ Structure
    BY DEF PackingInvariant
  <2>2. Ended /\ FilesFound
    BY DEF ResultsInvariant, Ended
  <2> QED BY <2>1, <2>2, RestStep
<1>3. PackingInvariant /\ ResultsInvariant /\ RestTyped => PackagesTypeOK
  <2> SUFFICES ASSUME PackingInvariant, ResultsInvariant, RestTyped PROVE PackagesTypeOK
    OBVIOUS
  <2>1. PackingTypeOK
    BY DEF PackingInvariant
  <2>2. progress \in Nat
    <3> DEFINE Made == {w \in ToCompare : \E p \in computed : Makes(p, w)}
    <3>1. progress = Cardinality(Made)
      BY DEF ResultsInvariant, Progressed
    <3>2. Made \subseteq ToCompare
      OBVIOUS
    <3>3. IsFiniteSet(Made)
      <4> HIDE DEF Made
      <4> QED BY <2>1, <3>2, ToCompareFinite, FS_Subset
    <3> HIDE DEF Made
    <3> QED BY <3>1, <3>3, FS_CardinalityType
  <2>3. ASSUME NEW f \in files
        PROVE  f \in [of : SUBSET computed, num : Nat, scores : [Pair -> Nat]]
    <3>1. f.of \subseteq computed /\ f.scores \in [Pair -> Nat]
      BY DEF ResultsInvariant, FilesFound
    <3>2. f.num \in Nat /\ f = [of |-> f.of, num |-> f.num, scores |-> f.scores]
      BY DEF RestTyped
    <3> QED BY <3>1, <3>2
  <2> QED BY <2>1, <2>2, <2>3 DEF PackagesTypeOK, RestTyped
<1> QED BY <1>1, <1>2, <1>3, PackingInvariantHolds, ResultsInvariantHolds, PTL DEF Spec

(* A package of several chunks is within the aim and has no more chunks    *)
(* than allowed.                                                           *)
THEOREM BundlesStayWithinAim == Spec => []BundlesWithinAim
<1>1. ResultsInvariant => BundlesWithinAim
  BY DEF ResultsInvariant, Bundled
<1> QED BY <1>1, ResultsInvariantHolds, PTL

(* The comparisons added up in redis never pass the total that the         *)
(* database counts, and reach it when the run is finished.                 *)
THEOREM ProgressReachesTotal == Spec => []ProgressAddsUp
<1>1. PackingInvariant /\ ResultsInvariant => ProgressAddsUp
  <2> SUFFICES ASSUME PackingInvariant, ResultsInvariant PROVE ProgressAddsUp
    OBVIOUS
  <2> DEFINE Made == {w \in ToCompare : \E p \in computed : Makes(p, w)}
  <2>1. progress = Cardinality(Made) /\ TotalComparisons = Cardinality(ToCompare)
    BY TotalCount DEF PackingInvariant, ResultsInvariant, Progressed
  <2>2. Made \subseteq ToCompare
    OBVIOUS
  <2>3. Cardinality(Made) <= Cardinality(ToCompare)
    <3> HIDE DEF Made
    <3> QED BY <2>2, ToCompareFinite, FS_Subset
  <2>4. ASSUME step = "finished" PROVE Made = ToCompare
    <3> SUFFICES ASSUME NEW w \in ToCompare PROVE \E p \in computed : Makes(p, w)
      OBVIOUS
    <3> DEFINE t == w[1]
               e == w[2][1]
               f == w[2][2]
    <3>1. computed = DOMAIN packages
      BY <2>4 DEF ResultsInvariant
    <3>2. t \in CommonBlocks /\ e \in blocks[t[1]][t[3]] /\ f \in blocks[t[2]][t[3]]
      BY DEF ToCompare
    <3>3. CoveredAt(t, e, f) /\ PackingTypeOK /\ Structure
      BY <2>4, <3>2 DEF PackingInvariant, Coverage
    <3>4. todo = {} /\ pending = {} /\ current = {}
      BY <2>4, <3>3 DEF Structure
    <3>5. PICK p \in DOMAIN packages : \E c \in packages[p] : Covers(c, t, e, f)
      BY <3>3, <3>4 DEF CoveredAt
    <3>6. PICK c \in packages[p] : Covers(c, t, e, f)
      BY <3>5
    <3>7. c.block = t[3] /\ Compares(packages[p], c, <<t[1], e, t[2], f>>)
      BY <3>2, <3>3, <3>6, ComparesCovered
    <3> QED BY <3>1, <3>7 DEF Makes
  <2> HIDE DEF Made
  <2> QED BY <2>1, <2>3, <2>4 DEF ProgressAddsUp
<1> QED BY <1>1, PackingInvariantHolds, ResultsInvariantHolds, PTL

(* The file a run ends with has scores only of pairs that are similar and  *)
(* share a block, of each of them that k leaves room for, and no           *)
(* duplicates once files were merged.                                      *)
THEOREM ScoresAreComplete == Spec => []ScoresComplete
<1>1. PackingInvariant /\ ResultsInvariant => ScoresComplete
  <2> SUFFICES ASSUME PackingInvariant, ResultsInvariant, step = "finished", NEW f \in files
               PROVE  /\ \A q \in Pair : f.scores[q] > 0 => ShareBlock(q) /\ Similar(q)
                      /\ \A q \in Pair : ShareBlock(q) /\ Similar(q) =>
                            /\ \E p \in DOMAIN packages : Finds(p, q)
                            /\ \A p \in DOMAIN packages : \A c \in packages[p] :
                                  q \in Matches(packages[p], c) => Scored(f.scores, packages[p], c, q)
                      /\ Cardinality(f.of) > 1 => \A q \in Pair : f.scores[q] <= 1
    BY DEF ScoresComplete
  <2>1. FileOK(f) /\ (\A p \in computed : Kept(p)) /\ IsFiniteSet(files)
    BY FilesNow DEF ResultsInvariant
  <2>2. computed = DOMAIN packages /\ Cardinality(files) <= 1
    BY DEF ResultsInvariant
  <2>3. \A g \in files : g = f
    <3> SUFFICES ASSUME NEW g \in files, g # f PROVE FALSE
      OBVIOUS
    <3>1. IsFiniteSet(files \ {f}) /\ Cardinality(files \ {f}) = Cardinality(files) - 1
      BY <2>1, FS_RemoveElement
    <3>2. Cardinality(files) \in Nat /\ Cardinality(files \ {f}) \in Nat
      BY <2>1, <3>1, FS_CardinalityType
    <3>3. Cardinality(files \ {f}) = 0
      BY <2>2, <3>1, <3>2
    <3>4. files \ {f} = {}
      BY <3>1, <3>3, FS_EmptySet
    <3> QED BY <3>4
  <2>4. ASSUME NEW q \in Pair, f.scores[q] > 0
        PROVE  \E p \in DOMAIN packages : Finds(p, q)
    BY <2>1, <2>2, <2>4 DEF FileOK
  <2>5. PackingTypeOK /\ Structure /\ Coverage
    BY DEF PackingInvariant
  <2>6. ASSUME NEW q \in Pair, NEW p \in DOMAIN packages, Finds(p, q)
        PROVE  ShareBlock(q) /\ Similar(q)
    <3>1. PICK c \in packages[p] : Compares(packages[p], c, q) /\ Similar(q)
      BY <2>6 DEF Finds, Matches
    <3>2. WellPlaced(c)
      BY <2>5 DEF Structure, PackageOK, ChunkOK
    <3>3. c.block \in BlockName
      BY <3>2 DEF WellPlaced, BlockOf, CommonBlocks
    <3>4. q[2] \in blocks[c.left][c.block] /\ q[4] \in blocks[c.right][c.block]
      BY <2>5, <3>1, <3>2, SidesFinite DEF Compares
    <3>5. q[1] = c.left /\ q[3] = c.right
      BY <3>1 DEF Compares
    <3> QED BY <3>1, <3>3, <3>4, <3>5 DEF ShareBlock
  <2>7. ASSUME NEW q \in Pair, ShareBlock(q), Similar(q)
        PROVE  \E p \in DOMAIN packages : Finds(p, q)
    <3>1. PICK b \in BlockName : q[2] \in blocks[q[1]][b] /\ q[4] \in blocks[q[3]][b]
      BY <2>7 DEF ShareBlock
    <3>2. /\ q[1] \in DataProvider /\ q[3] \in DataProvider /\ q[1] < q[3]
          /\ q = <<q[1], q[2], q[3], q[4]>>
      BY DEF Pair
    <3> DEFINE t == <<q[1], q[3], b>>
    <3>3. t \in CommonBlocks /\ t[1] = q[1] /\ t[2] = q[3] /\ t[3] = b
      BY <3>1, <3>2 DEF CommonBlocks
    <3> HIDE DEF t
    <3>4. CoveredAt(t, q[2], q[4])
      BY <2>5, <3>1, <3>3 DEF Coverage
    <3>5. todo = {} /\ pending = {} /\ current = {}
      BY <2>5 DEF Structure
    <3>6. PICK p \in DOMAIN packages : \E c \in packages[p] : Covers(c, t, q[2], q[4])
      BY <3>4, <3>5 DEF CoveredAt
    <3>7. PICK c \in packages[p] : Covers(c, t, q[2], q[4])
      BY <3>6
    <3>8. Compares(packages[p], c, <<t[1], q[2], t[2], q[4]>>)
      BY <2>5, <3>1, <3>3, <3>7, ComparesCovered
    <3>9. Compares(packages[p], c, q)
      BY <3>2, <3>3, <3>8
    <3> QED BY <2>7, <3>9 DEF Finds, Matches
  <2>8. Cardinality(f.of) > 1 => \A q \in Pair : f.scores[q] <= 1
    BY <2>1 DEF FileOK
  <2>9. ASSUME NEW p \in DOMAIN packages, NEW c \in packages[p], NEW q \in Matches(packages[p], c)
        PROVE  Scored(f.scores, packages[p], c, q)
    <3>1. q \in Pair /\ Finds(p, q)
      BY DEF Finds, Matches
    <3>2. p \in f.of
      BY <2>1, <2>2, <2>3, <3>1 DEF Kept
    <3> QED BY <2>1, <3>2 DEF FileOK, AllScored
  <2> QED BY <2>4, <2>6, <2>7, <2>8, <2>9
<1> QED BY <1>1, PackingInvariantHolds, ResultsInvariantHolds, PTL

===============================================================================
