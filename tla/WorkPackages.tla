------------------------------ MODULE WorkPackages ------------------------------
(***************************************************************************)
(* Which encodings a run compares, and what becomes of the scores.  The    *)
(* data providers upload encodings with their blocks;                      *)
(* create_comparison_jobs finds the blocks two of them have in common and  *)
(* makes work packages of them, splitting large blocks and bundling small  *)
(* ones; compute_filter_similarity compares a package and stores its       *)
(* candidate pairs in a file; aggregate_comparisons merges the files, two  *)
(* at a time.                                                              *)
(*                                                                         *)
(* RunLifecycle has the control of these tasks, with their failures and    *)
(* messages; here they all succeed, and the data is what matters.          *)
(***************************************************************************)
EXTENDS Integers, Sequences, FiniteSets, FiniteSetsExt

CONSTANTS
    DataProvider,    \* their ids in the database
    Size,            \* bound: how many encodings each may upload
    Block,           \* the names clients give blocks
    ChunkSizeAim,    \* Config.CHUNK_SIZE_AIM
    MaxChunks,       \* MAX_CHUNKS_PER_PACKAGE
    Workers,         \* bound: how many tasks celery runs at a time
    Schemas,         \* subset of {"blocking", "none"}: the project's uses_blocking
    Formats,         \* the upload formats each uses: "clknblocks" and "map", "clks" and "binary"
    Similarities     \* the sets of pairs that may reach the threshold

(* Entity ids are the positions in the upload.                             *)
Entity == UNION {0 .. Size[d] - 1 : d \in DataProvider}

ASSUME PackagesAssumption ==
    /\ DataProvider \subseteq Nat /\ IsFiniteSet(DataProvider)
    /\ IsFiniteSet(Block)
    /\ Size \in [DataProvider -> Nat]
    /\ Schemas \subseteq {"blocking", "none"}
    /\ ChunkSizeAim \in Nat \ {0} /\ MaxChunks \in Nat \ {0}
    /\ Workers \in Nat \ {0}

(* Names as the table blocks has them: those of JSON documents are hashed, *)
(* be they the client's or the "1" of convert_clks_to_clknblocks;          *)
(* DEFAULT_BLOCK_ID is stored as it is.                                    *)
Hashed(b) == <<"hashed", b>>
DefaultBlockId == <<"plain", "1">>
BlockName == {Hashed(b) : b \in Block \cup {"1"}} \cup {DefaultBlockId}

(* Two encodings, of the data providers q[1] < q[3]: their entity ids or,  *)
(* in similar, their rows in the uploaded arrays.                          *)
Pair == {q \in DataProvider \X Entity \X DataProvider \X Entity : q[1] < q[3]}

VARIABLES
    schema,      \* whether the project uses blocking
    uploaded,    \* data providers whose upload is done
    rows,        \* the row of the uploaded array each entity was
    blocks,      \* blocks and encodingblocks: the entities in each block
    similar,     \* the pairs of rows whose similarity reaches the run's threshold
    step,        \* how far the run is
    todo,        \* common blocks _create_work_packages has not taken
    pending,     \* chunks of a split block it has not appended
    current,     \* cur_package
    comparisons, \* cur_comparisons
    packages,    \* the packages so far
    computed,    \* indices of the packages that were compared
    progress,    \* comparisons counted in redis
    files        \* the candidate pairs in the object store

vars == <<schema, uploaded, rows, blocks, similar, step, todo, pending, current,
          comparisons, packages, computed, progress, files>>
stored   == <<schema, uploaded, rows, blocks, similar>>
packing  == <<todo, pending, current, comparisons, packages>>
results  == <<computed, progress, files>>

Init ==
    /\ schema \in Schemas
    /\ similar \in Similarities
    /\ uploaded = {}
    /\ rows = [d \in DataProvider |-> << >>]
    /\ blocks = [d \in DataProvider |-> [b \in BlockName |-> {}]]
    /\ step = "uploading"
    /\ todo = {} /\ pending = {} /\ current = {}
    /\ comparisons = 0
    /\ packages = << >>
    /\ computed = {} /\ progress = 0 /\ files = {}

-------------------------------------------------------------------------------
(* Uploads, of one encoding at least.  keys are the rows in the order the  *)
(* code reads them and stores them as entities 0, 1, ...                   *)

Upload(d, keys, contents) ==
    /\ step = "uploading" /\ d \notin uploaded
    /\ uploaded' = uploaded \cup {d}
    /\ rows' = [rows EXCEPT ![d] = keys]
    /\ blocks' = [blocks EXCEPT ![d] =
           [b \in BlockName |-> IF b \in DOMAIN contents THEN contents[b] ELSE {}]]
    /\ UNCHANGED <<schema, similar, step, packing, results>>

InOrder(n) == [i \in 0 .. n - 1 |-> i]
Blocking(n) == {[b \in {Hashed(c) : c \in Block} |-> of[b[2]]] : of \in [Block -> SUBSET (0 .. n - 1)]}

(* "clknblocks", or both files in the object store: each encoding with the *)
(* names of its blocks, any number of them.                                *)
UploadBlocks(d) ==
    /\ schema = "blocking" /\ "clknblocks" \in Formats[d]
    /\ \E n \in 1 .. Size[d] : \E contents \in Blocking(n) : Upload(d, InOrder(n), contents)

(* "encodings" with "blocks", a mapping from encoding id to block names    *)
(* that convert_encoding_upload_to_clknblock goes through: the encodings   *)
(* come in the order of its keys, those without a key not at all.          *)
UploadMap(d) ==
    /\ schema = "blocking" /\ "map" \in Formats[d]
    /\ \E n \in 1 .. Size[d] : \E k \in 1 .. n :
       \E keys \in [0 .. k - 1 -> 0 .. n - 1] : \E contents \in Blocking(k) :
          /\ \A i, j \in 0 .. k - 1 : keys[i] = keys[j] => i = j
          /\ Upload(d, keys, contents)

(* "clks" or "encodings" as JSON: all in block "1", which the view and     *)
(* stream_json_clksnblocks hash like any other name.                       *)
UploadJson(d) ==
    /\ schema = "none" /\ "clks" \in Formats[d]
    /\ \E n \in 1 .. Size[d] : Upload(d, InOrder(n), [b \in {Hashed("1")} |-> 0 .. n - 1])

(* Binary, in the request, whether or not the project uses blocking, or    *)
(* from the object store: all in the default block.                        *)
UploadBinary(d) ==
    /\ "binary" \in Formats[d]
    /\ \E n \in 1 .. Size[d] : Upload(d, InOrder(n), [b \in {DefaultBlockId} |-> 0 .. n - 1])

-------------------------------------------------------------------------------
(* create_comparison_jobs                                                  *)

Count(d, b) == Cardinality(blocks[d][b])

CommonBlocks ==
    {t \in DataProvider \X DataProvider \X BlockName :
        t[1] < t[2] /\ blocks[t[1]][t[3]] # {} /\ blocks[t[2]][t[3]] # {}}

(* Mutant: the blocks are those of either data provider.                   *)
CreateJobsEither ==
    /\ step = "uploading" /\ uploaded = DataProvider
    /\ step' = "packing"
    /\ todo' = {t \in DataProvider \X DataProvider \X BlockName :
                  t[1] < t[2] /\ (blocks[t[1]][t[3]] # {} \/ blocks[t[2]][t[3]] # {})}
    /\ UNCHANGED <<stored, pending, current, comparisons, packages, results>>

CreateJobs ==
    /\ step = "uploading" /\ uploaded = DataProvider
    /\ step' = "packing"
    /\ todo' = CommonBlocks
    /\ UNCHANGED <<stored, pending, current, comparisons, packages, results>>

Chunk(t, r, s) == [left |-> t[1], right |-> t[2], block |-> t[3], rows |-> r, cols |-> s]
WholeChunk(t) == Chunk(t, <<0, Count(t[1], t[3])>>, <<0, Count(t[2], t[3])>>)
NumComparisons(t) == Count(t[1], t[3]) * Count(t[2], t[3])

(* anonlink.concurrency.split_to_chunks cuts the positions of both sides   *)
(* into ranges and returns every combination.                              *)
Within(i, r) == r[1] <= i /\ i < r[2]
Ranges(n) == {r \in (0 .. n) \X (0 .. n) : r[1] < r[2]}
Splits(n) ==
    {P \in SUBSET Ranges(n) :
        \A i \in 0 .. n - 1 : \E r \in P : Within(i, r) /\ \A s \in P : Within(i, s) => s = r}
ChunkGrid(t, P, Q) == {Chunk(t, r, s) : r \in P, s \in Q}

(* The pairs of data providers are taken in itertools.combinations' order, *)
(* the blocks of one pair in the order a set has.                          *)
TakeBlock(t) ==
    /\ step = "packing" /\ pending = {} /\ t \in todo
    /\ \A u \in todo : t[1] < u[1] \/ (t[1] = u[1] /\ t[2] <= u[2])
    /\ todo' = todo \ {t}

(* Mutant: the current package is appended without a look.                 *)
FlushedAlways == Append(packages, current)

Flushed == IF current = {} THEN packages ELSE Append(packages, current)

(* Mutant: a large block resets the current package without appending it.  *)
SplitBlockDrops(t) ==
    /\ TakeBlock(t) /\ NumComparisons(t) > ChunkSizeAim
    /\ current' = {} /\ comparisons' = 0
    /\ \E P \in Splits(Count(t[1], t[3])), Q \in Splits(Count(t[2], t[3])) :
          pending' = ChunkGrid(t, P, Q)
    /\ UNCHANGED <<stored, step, packages, results>>

(* A block with more comparisons than the aim is split; each of its chunks *)
(* is a package of its own.                                                *)
SplitBlock(t) ==
    /\ TakeBlock(t) /\ NumComparisons(t) > ChunkSizeAim
    /\ packages' = Flushed
    /\ current' = {} /\ comparisons' = 0
    /\ \E P \in Splits(Count(t[1], t[3])), Q \in Splits(Count(t[2], t[3])) :
          pending' = ChunkGrid(t, P, Q)
    /\ UNCHANGED <<stored, step, results>>

AppendChunk ==
    /\ pending # {}
    /\ LET c == CHOOSE c \in pending : TRUE IN
          /\ pending' = pending \ {c}
          /\ packages' = Append(packages, {c})
    /\ UNCHANGED <<stored, step, todo, current, comparisons, results>>

(* A smaller one joins the current package, or begins the next one.        *)
Fits(t) ==
    /\ comparisons + NumComparisons(t) <= ChunkSizeAim
    /\ Cardinality(current) < MaxChunks

(* Mutant: a new package does not count its first chunk.                   *)
BundleBlockUncounted(t) ==
    /\ TakeBlock(t) /\ NumComparisons(t) <= ChunkSizeAim
    /\ \/ /\ Fits(t)
          /\ current' = current \cup {WholeChunk(t)}
          /\ comparisons' = comparisons + NumComparisons(t)
          /\ UNCHANGED packages
       \/ /\ ~Fits(t)
          /\ packages' = Append(packages, current)
          /\ current' = {WholeChunk(t)}
          /\ comparisons' = 0
    /\ UNCHANGED <<stored, step, pending, results>>

BundleBlock(t) ==
    /\ TakeBlock(t) /\ NumComparisons(t) <= ChunkSizeAim
    /\ \/ /\ Fits(t)
          /\ current' = current \cup {WholeChunk(t)}
          /\ comparisons' = comparisons + NumComparisons(t)
          /\ UNCHANGED packages
       \/ /\ ~Fits(t)
          /\ packages' = Append(packages, current)
          /\ current' = {WholeChunk(t)}
          /\ comparisons' = NumComparisons(t)
    /\ UNCHANGED <<stored, step, pending, results>>

(* The last package is appended and the chord of all of them is sent.      *)
SendPackages ==
    /\ step = "packing" /\ todo = {} /\ pending = {}
    /\ packages' = Flushed
    /\ current' = {} /\ comparisons' = 0
    /\ step' = "computing"
    /\ UNCHANGED <<stored, todo, pending, results>>

-------------------------------------------------------------------------------
(* compute_filter_similarity                                               *)

(* get_encoding_chunk reads the entities of a block in their order, with   *)
(* OFFSET and LIMIT for the range.                                         *)
Rank(S, e) == Cardinality({f \in S : f < e})
InRange(d, b, r) == {e \in blocks[d][b] : Within(Rank(blocks[d][b], e), r)}

(* Mutant: a package of one chunk is read like one of several.             *)
LeftWhole(P, c) == blocks[c.left][c.block]

(* get_encoding_chunks reads whole blocks, whatever the ranges are.        *)
Left(P, c) ==
    IF Cardinality(P) > 1 THEN blocks[c.left][c.block] ELSE InRange(c.left, c.block, c.rows)
Right(P, c) ==
    IF Cardinality(P) > 1 THEN blocks[c.right][c.block] ELSE InRange(c.right, c.block, c.cols)

Compares(P, c, q) ==
    /\ q[1] = c.left /\ q[2] \in Left(P, c)
    /\ q[3] = c.right /\ q[4] \in Right(P, c)
Similar(q) == <<q[1], rows[q[1]][q[2]], q[3], rows[q[3]][q[4]]>> \in similar

Matches(P, c) == {q \in Pair : Compares(P, c, q) /\ Similar(q)}

(* Of the matches of one encoding of the left side anonlink returns the    *)
(* best k only, and k is the size of the smaller side.  Which are the      *)
(* best is open here.                                                      *)
K(P, c) == LET l == Cardinality(Left(P, c))
               r == Cardinality(Right(P, c)) IN IF l <= r THEN l ELSE r
Rivals(S, q) == {r \in S : r[2] = q[2]}
TopK(P, c) ==
    {S \in SUBSET Matches(P, c) : \A q \in Matches(P, c) :
        /\ Cardinality(Rivals(S, q)) <= K(P, c)
        /\ q \in S \/ Cardinality(Rivals(S, q)) = K(P, c)}
Returns(P) == {ret \in [P -> UNION {TopK(P, c) : c \in P}] : \A c \in P : ret[c] \in TopK(P, c)}

(* How often the package has each pair: the results of its chunks are      *)
(* merged in order, and nothing is removed.                                *)
Candidates(P, ret) == [q \in Pair |-> Cardinality({c \in P : q \in ret[c]})]
NumCandidates(scores) == SumFunction(scores)

(* What it adds to the comparisons of the run in redis.                    *)
PackageComparisons(P) == SumFunction([c \in P |-> Cardinality(Left(P, c)) * Cardinality(Right(P, c))])

(* The tasks are started in the order they are sent and end in any.        *)
Running == {p \in DOMAIN packages \ computed :
               Cardinality({r \in DOMAIN packages \ computed : r < p}) < Workers}

Compute(p) ==
    /\ step = "computing" /\ p \in Running
    /\ progress' = progress + PackageComparisons(packages[p])
    /\ \E ret \in Returns(packages[p]) : LET scores == Candidates(packages[p], ret) IN
          files' = files \cup (IF NumCandidates(scores) = 0 THEN {}
              ELSE {[of |-> {p}, num |-> NumCandidates(scores), scores |-> scores]})
    /\ computed' = computed \cup {p}
    /\ UNCHANGED <<stored, step, packing>>

-------------------------------------------------------------------------------
(* aggregate_comparisons, with the results of all packages                 *)

Aggregating == step = "computing" /\ computed = DOMAIN packages

(* _merge_files takes the two files with the smallest num from the heap;   *)
(* _unique_values_iter keeps one of equal neighbours in the merged order,  *)
(* and num remains the sum.                                                *)
(* Mutant: equal neighbours are dropped, both of them.                     *)
MergeDropsEqual(f, g) ==
    [of     |-> f.of \cup g.of,
     num    |-> f.num + g.num,
     scores |-> [q \in Pair |-> IF f.scores[q] + g.scores[q] = 1 THEN 1 ELSE 0]]

Merge(f, g) ==
    [of     |-> f.of \cup g.of,
     num    |-> f.num + g.num,
     scores |-> [q \in Pair |-> IF f.scores[q] + g.scores[q] > 0 THEN 1 ELSE 0]]

MergeFiles ==
    /\ Aggregating
    /\ \E f, g \in files :
          /\ f # g /\ f.num <= g.num
          /\ \A h \in files \ {f, g} : g.num <= h.num
          /\ files' = (files \ {f, g}) \cup {Merge(f, g)}
    /\ UNCHANGED <<stored, step, packing, computed, progress>>

(* The last file, or an empty one, is the result of the run.               *)
Finish ==
    /\ Aggregating /\ Cardinality(files) <= 1
    /\ step' = "finished"
    /\ files' = IF files = {} THEN {[of |-> {}, num |-> 0, scores |-> [q \in Pair |-> 0]]}
                              ELSE files
    /\ UNCHANGED <<stored, packing, computed, progress>>

-------------------------------------------------------------------------------
Next ==
    \/ \E d \in DataProvider :
          UploadBlocks(d) \/ UploadMap(d) \/ UploadJson(d) \/ UploadBinary(d)
    \/ CreateJobs
    \/ \E t \in todo : SplitBlock(t) \/ BundleBlock(t)
    \/ AppendChunk \/ SendPackages
    \/ \E p \in DOMAIN packages : Compute(p)
    \/ MergeFiles \/ Finish

Spec == Init /\ [][Next]_vars

-------------------------------------------------------------------------------
(* What _create_work_packages reads and writes has its type: todo are      *)
(* common blocks, and what a chunk names exists.                           *)
Chunks == [left : DataProvider, right : DataProvider, block : BlockName,
           rows : Nat \X Nat, cols : Nat \X Nat]

PackingTypeOK ==
    /\ schema \in {"blocking", "none"}
    /\ uploaded \subseteq DataProvider
    /\ DOMAIN rows = DataProvider
    /\ blocks \in [DataProvider -> [BlockName -> SUBSET Entity]]
    /\ step \in {"uploading", "packing", "computing", "finished"}
    /\ todo \subseteq CommonBlocks
    /\ pending \subseteq Chunks
    /\ current \subseteq Chunks
    /\ comparisons \in Nat
    /\ packages \in Seq(SUBSET Chunks)
    /\ computed \subseteq DOMAIN packages

(* Every variable has its type.  Besides the above: entities come from     *)
(* rows that were uploaded, no more than the data provider may upload; the *)
(* progress is a natural number; files are from computed packages.         *)
RowsTypeOK(d) == \E k \in 0 .. Size[d] : rows[d] \in [0 .. k - 1 -> 0 .. Size[d] - 1]

PackagesTypeOK ==
    /\ PackingTypeOK
    /\ similar \in Similarities
    /\ \A d \in DataProvider : RowsTypeOK(d)
    /\ progress \in Nat
    /\ files \subseteq [of : SUBSET computed, num : Nat, scores : [Pair -> Nat]]

(* Once the packages are made, every pair of encodings that two data       *)
(* providers put into the same block is compared for that block, by        *)
(* exactly one chunk of one package: the boundaries of _create_work_packages*)
(* and the ranges that the two ways of fetching encodings read agree.      *)
ComparedOnce ==
    step \in {"computing", "finished"} =>
        \A t \in CommonBlocks : \A e \in blocks[t[1]][t[3]], f \in blocks[t[2]][t[3]] :
            \E p \in DOMAIN packages : \E c \in packages[p] :
                /\ c.block = t[3] /\ Compares(packages[p], c, <<t[1], e, t[2], f>>)
                /\ \A r \in DOMAIN packages : \A d \in packages[r] :
                      d.block = t[3] /\ Compares(packages[r], d, <<t[1], e, t[2], f>>)
                          => r = p /\ d = c

(* No package is empty, and no chunk fetches an empty side: the asserts    *)
(* "Zero sized chunk" of compute_filter_similarity, which would make the   *)
(* task retry until it gives up, never fail.                               *)
NothingEmpty ==
    \A p \in DOMAIN packages :
        /\ packages[p] # {}
        /\ \A c \in packages[p] : Left(packages[p], c) # {} /\ Right(packages[p], c) # {}

(* A package of several chunks makes no more comparisons than the aim and  *)
(* has no more chunks than allowed: cur_comparisons is the sum of what     *)
(* cur_package holds through all flushes and resets.                       *)
BundlesWithinAim ==
    \A p \in DOMAIN packages : LET P == packages[p] IN
        Cardinality(P) > 1 =>
            /\ Cardinality(P) <= MaxChunks
            /\ PackageComparisons(P) <= ChunkSizeAim

(* The comparisons that the tasks add up in redis end exactly at           *)
(* get_total_comparisons_for_project, which counts them per block name     *)
(* from the table blocks: the progress of a finished run is 1.             *)
Combinations == {d \in DataProvider \X DataProvider : d[1] < d[2]}
BlockComparisons(b) == SumFunction([d \in Combinations |-> Count(d[1], b) * Count(d[2], b)])
TotalComparisons == SumFunction([b \in BlockName |-> BlockComparisons(b)])

ProgressAddsUp ==
    /\ progress <= TotalComparisons
    /\ step = "finished" => progress = TotalComparisons

(* The file a run ends with has scores only of pairs that are similar and  *)
(* share a block.  Each of these is found, and has a score unless in all   *)
(* chunks that find it k matches of its left encoding have: none is lost   *)
(* between the packages, the files and the merges.  When files were merged *)
(* it has no duplicates.                                                   *)
ShareBlock(q) == \E b \in BlockName : q[2] \in blocks[q[1]][b] /\ q[4] \in blocks[q[3]][b]
Finds(p, q) == \E c \in packages[p] : q \in Matches(packages[p], c)
Scored(scores, P, c, q) ==
    \/ scores[q] > 0
    \/ Cardinality({r \in Rivals(Matches(P, c), q) : scores[r] > 0}) >= K(P, c)

ScoresComplete ==
    step = "finished" => \A f \in files :
        /\ \A q \in Pair : f.scores[q] > 0 => ShareBlock(q) /\ Similar(q)
        /\ \A q \in Pair : ShareBlock(q) /\ Similar(q) =>
              /\ \E p \in DOMAIN packages : Finds(p, q)
              /\ \A p \in DOMAIN packages : \A c \in packages[p] :
                    q \in Matches(packages[p], c) => Scored(f.scores, packages[p], c, q)
        /\ Cardinality(f.of) > 1 => \A q \in Pair : f.scores[q] <= 1

-------------------------------------------------------------------------------
(* The invariant the last three follow from.                               *)

(* cur_comparisons is what cur_package holds, within both limits.          *)
Bundled ==
    /\ comparisons = SumFunction([c \in current |-> Count(c.left, c.block) * Count(c.right, c.block)])
    /\ comparisons <= ChunkSizeAim /\ Cardinality(current) <= MaxChunks
    /\ BundlesWithinAim

(* What is to be compared: two encodings for a block they share.  A        *)
(* package makes such a comparison if one of its chunks does.              *)
ToCompare ==
    {w \in CommonBlocks \X (Entity \X Entity) :
        /\ w[2][1] \in blocks[w[1][1]][w[1][3]]
        /\ w[2][2] \in blocks[w[1][2]][w[1][3]]}
Makes(p, w) ==
    \E c \in packages[p] :
        c.block = w[1][3] /\ Compares(packages[p], c, <<w[1][1], w[2][1], w[1][2], w[2][2]>>)

(* The progress is the number of different comparisons made so far.        *)
Progressed == progress = Cardinality({w \in ToCompare : \E p \in computed : Makes(p, w)})

(* A file has scores of what the packages it comes from find, all that     *)
(* their chunks do, and every package that found any has a file it went    *)
(* into.                                                                   *)
FilesFound ==
    /\ IsFiniteSet(files)
    /\ \A f \in files :
          /\ f.of \subseteq computed
          /\ f.scores \in [Pair -> Nat]
          /\ \A q \in Pair : f.scores[q] > 0 => \E p \in f.of : Finds(p, q)
          /\ \A p \in f.of : \A c \in packages[p] : \A q \in Matches(packages[p], c) :
                Scored(f.scores, packages[p], c, q)
          /\ Cardinality(f.of) > 1 => \A q \in Pair : f.scores[q] <= 1
    /\ \A p \in computed : \A q \in Pair : Finds(p, q) => \E f \in files : p \in f.of

(* In any state of a run: the current package, the progress and the files  *)
(* add up to what was taken, made and found.                               *)
ResultsInvariant ==
    /\ step \in {"uploading", "packing"} => computed = {} /\ files = {}
    /\ step = "finished" => computed = DOMAIN packages /\ Cardinality(files) <= 1
    /\ Bundled /\ Progressed /\ FilesFound

-------------------------------------------------------------------------------
(* What the documentation says and the code does not do.                   *)

(* docs/concepts.rst:129: the second index of a score is the "row index    *)
(* from the uploaded CLKs", so the rows with the indices of a score are    *)
(* similar.  "encodings" with "blocks" are renumbered by the keys of the   *)
(* mapping.                                                                *)
ScoresNameRows ==
    step = "finished" => \A f \in files : \A q \in Pair : f.scores[q] > 0 => q \in similar

(* docs/concepts.rst:115: without blocking, "Similarities scores are       *)
(* computed between all CLKs in each organisation".  JSON and binary       *)
(* uploads are put into blocks of different names.                         *)
AllCompared ==
    schema = "none" /\ step = "finished" => \A f \in files : \A q \in Pair :
        (/\ q[2] \in DOMAIN rows[q[1]] /\ q[4] \in DOMAIN rows[q[3]]
         /\ Similar(q)) => f.scores[q] > 0
===============================================================================
