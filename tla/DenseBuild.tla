------------------------------ MODULE DenseBuild ------------------------------
(***************************************************************************)
(* The resumable builder of a dense sidecar (tutor/retrieval/index/        *)
(* simplewiki_build.py over simplewiki_store.py and manifest.py), crashes  *)
(* of the process included, and what DenseIndex.open accepts               *)
(* (tutor/retrieval/hybrid/dense.py).                                      *)
(*                                                                         *)
(* A row stands for one article: its vector, its passage id and its path,  *)
(* in three files that are appended one after the other.  A row is the     *)
(* article's entry id, or Torn for a row that a crash cut short; a byte    *)
(* length is the number of rows it spans.  The archive and the embedding   *)
(* model stay the same (a checkpoint of another one is refused outright).  *)
(***************************************************************************)
EXTENDS Integers, FiniteSets, Sequences

CONSTANTS
    EntryCount,      \* archive.all_entry_count
    Kind,            \* of each entry: "skip", "bare" or "lead"
    Limits,          \* limit_articles, chosen at each run; a large one stands for None
    SameLimit,       \* whether the runs are all given the same limit_articles
    Batching,        \* pairs of batch_size and checkpoint_every, chosen at each run
    MaxRuns,         \* bound: runs of the builder
    None,            \* a JSON file that does not exist
    Torn             \* the part of a row that was written before a crash

Entries == 1..EntryCount

Checkpoints ==
    [next : 1..(EntryCount + 1), processed : Nat, count : Nat,
     vectors : Nat, ids : Nat, paths : Nat]

ASSUME DenseBuildAssumption ==
    /\ EntryCount \in Nat
    /\ Kind \in [Entries -> {"skip", "bare", "lead"}]
    /\ Limits \subseteq Nat /\ SameLimit \in BOOLEAN
    /\ Batching \subseteq (Nat \ {0}) \X (Nat \ {0})
    /\ MaxRuns \in Nat
    /\ Torn \notin Entries
    /\ None \notin Nat /\ None \notin Checkpoints

VARIABLES
    vectors, ids, paths,  \* the rows of vectors.fp16, ids.txt, paths.txt
    checkpoint,           \* checkpoint.json
    manifest,             \* the count in manifest.json
    limit,                \* limit_articles of the run under way, or of the last one
    batching,             \* its batch_size and checkpoint_every
    pc,                   \* where the builder is; "down" when none runs
    at,                   \* the next entry to visit
    next,                 \* next_entry_id
    processed,            \* articles_processed
    count,                \* count: rows embedded so far
    pending,              \* lead passages not yet embedded
    batches,              \* batches_since_checkpoint
    last,                 \* whether the flush under way is the final one
    runs                  \* builder runs started

files == <<vectors, ids, paths>>
locals == <<at, next, processed, count, pending, batches, last>>
arguments == <<limit, batching>>
vars == <<files, checkpoint, manifest, arguments, pc, locals, runs>>

Init ==
    /\ vectors = <<>> /\ ids = <<>> /\ paths = <<>>
    /\ checkpoint = None /\ manifest = None
    /\ pc = "down"
    /\ at = 1 /\ next = 1 /\ processed = 0 /\ count = 0
    /\ pending = <<>> /\ batches = 0 /\ last = FALSE
    /\ limit = 0 /\ batching = <<1, 1>>
    /\ runs = 0

-----------------------------------------------------------------------------

\* Mutant: the bytes appended after the checkpoint are left in place.
TruncateNothing(file, size) == file

\* truncate_to
Truncate(file, size) == SubSeq(file, 1, size)

\* start_entry_id
EntryAfter(truth) == truth.next

Fresh == [next |-> 1, processed |-> 0, count |-> 0, vectors |-> 0, ids |-> 0, paths |-> 0]

\* A build resumes from its checkpoint, or starts from empty files.
Truth == IF checkpoint # None THEN checkpoint ELSE Fresh

StartBuild ==
    /\ pc = "down" /\ runs < MaxRuns
    /\ runs' = runs + 1
    /\ limit' \in IF SameLimit /\ runs > 0 THEN {limit} ELSE Limits
    /\ batching' \in Batching
    /\ vectors' = Truncate(vectors, Truth.vectors)
    /\ ids' = Truncate(ids, Truth.ids)
    /\ paths' = Truncate(paths, Truth.paths)
    /\ at' = EntryAfter(Truth) /\ next' = EntryAfter(Truth)
    /\ processed' = Truth.processed /\ count' = Truth.count
    /\ pending' = <<>> /\ batches' = 0 /\ last' = FALSE
    /\ pc' = "walk"
    /\ UNCHANGED <<checkpoint, manifest>>

\* One entry of _iter_articles; a batch that is full goes to the embedder.
Visit ==
    /\ pc = "walk" /\ at <= EntryCount
    /\ Kind[at] # "skip" => processed < limit
    /\ at' = at + 1
    /\ processed' = IF Kind[at] = "skip" THEN processed ELSE processed + 1
    /\ pending' = IF Kind[at] = "lead" THEN Append(pending, at) ELSE pending
    /\ pc' = IF Len(pending') >= batching[1] THEN "embed" ELSE "walk"
    /\ UNCHANGED <<files, checkpoint, manifest, next, count, batches, last, arguments, runs>>

\* The limit is reached at an article, or the archive is at its end: what is
\* pending is flushed, then the last checkpoint is taken.
EndWalk ==
    /\ pc = "walk"
    /\ at <= EntryCount => Kind[at] # "skip" /\ processed >= limit
    /\ next' = at
    /\ last' = TRUE
    /\ pc' = IF pending = <<>> THEN "checkpoint" ELSE "embed"
    /\ UNCHANGED <<files, checkpoint, manifest, at, processed, count, pending, batches, arguments, runs>>

\* embed() returns a vector for each text; when it raises the build ends (Crash).
AppendVectors ==
    /\ pc = "embed"
    /\ vectors' = vectors \o pending
    /\ pc' = "ids"
    /\ UNCHANGED <<ids, paths, checkpoint, manifest, locals, arguments, runs>>

AppendIds ==
    /\ pc = "ids"
    /\ ids' = ids \o pending
    /\ pc' = "paths"
    /\ UNCHANGED <<vectors, paths, checkpoint, manifest, locals, arguments, runs>>

\* Mutant: the next entry is taken before the last pending article.
NextOneShort(batch) == batch[Len(batch)]

\* The entry to resume from once a batch is on disk.
NextAfter(batch) == batch[Len(batch)] + 1

\* The end of _flush.
AppendPaths ==
    /\ pc = "paths"
    /\ paths' = paths \o pending
    /\ count' = count + Len(pending)
    /\ next' = NextAfter(pending)
    /\ pending' = <<>>
    /\ batches' = batches + 1
    /\ pc' = IF last \/ batches' >= batching[2] THEN "checkpoint" ELSE "walk"
    /\ UNCHANGED <<vectors, ids, checkpoint, manifest, at, processed, last, arguments, runs>>

\* checkpoint.json is replaced atomically.
Checkpoint ==
    /\ pc = "checkpoint"
    /\ checkpoint' = [next |-> next, processed |-> processed, count |-> count,
                      vectors |-> Len(vectors), ids |-> Len(ids), paths |-> Len(paths)]
    /\ batches' = 0
    /\ pc' = IF last THEN "manifest" ELSE "walk"
    /\ UNCHANGED <<files, manifest, at, next, processed, count, pending, last, arguments, runs>>

\* manifest.json, with the number of rows; the checkpoint stays.
Finish ==
    /\ pc = "manifest"
    /\ manifest' = count
    /\ pc' = "down"
    /\ UNCHANGED <<files, checkpoint, locals, arguments, runs>>

\* What a crash may leave of an append: some whole rows, then part of one.
Partial(file, batch) ==
    {file \o SubSeq(batch, 1, n) : n \in 0..Len(batch)}
    \cup {file \o Append(SubSeq(batch, 1, n), Torn) : n \in 0..(Len(batch) - 1)}

\* The process dies, or an exception ends the build.
Crash ==
    /\ pc # "down"
    /\ pc' = "down"
    /\ IF pc = "embed" THEN vectors' \in Partial(vectors, pending) ELSE UNCHANGED vectors
    /\ IF pc = "ids" THEN ids' \in Partial(ids, pending) ELSE UNCHANGED ids
    /\ IF pc = "paths" THEN paths' \in Partial(paths, pending) ELSE UNCHANGED paths
    /\ UNCHANGED <<checkpoint, manifest, locals, arguments, runs>>

Next ==
    \/ StartBuild \/ Visit \/ EndWalk \/ AppendVectors \/ AppendIds \/ AppendPaths
    \/ Checkpoint \/ Finish \/ Crash

Spec == Init /\ [][Next]_vars

-----------------------------------------------------------------------------
(* What DenseIndex.open accepts *)

\* A manifest, and as many whole rows in each file as it says.
Openable ==
    /\ manifest # None
    /\ Len(vectors) = manifest /\ Len(ids) = manifest /\ Len(paths) = manifest
    /\ \A i \in 1..manifest : vectors[i] # Torn

-----------------------------------------------------------------------------
(* Properties *)

TypeOK ==
    /\ vectors \in Seq(Entries \cup {Torn})
    /\ ids \in Seq(Entries \cup {Torn}) /\ paths \in Seq(Entries \cup {Torn})
    /\ checkpoint \in Checkpoints \cup {None}
    /\ manifest \in Nat \cup {None}
    /\ pc \in {"down", "walk", "embed", "ids", "paths", "checkpoint", "manifest"}
    /\ at \in 1..(EntryCount + 1) /\ next \in 1..(EntryCount + 1)
    /\ limit \in Nat /\ batching \in (Nat \ {0}) \X (Nat \ {0})
    /\ processed \in Nat /\ count \in Nat /\ batches \in Nat /\ runs \in Nat
    /\ pending \in Seq(Entries)
    /\ last \in BOOLEAN

\* The first n articles of the archive, and the rows a build of them writes.
Articles == {e \in Entries : Kind[e] # "skip"}
Leads(n) ==
    {e \in Entries : /\ Kind[e] = "lead"
                     /\ Cardinality({a \in Articles : a <= e}) <= n}

\* The rows of the entries in S, in archive order.
IsRowsOf(rows, S) ==
    /\ {rows[i] : i \in DOMAIN rows} = S
    /\ \A i, j \in DOMAIN rows : i < j => rows[i] < rows[j]

\* What the checkpoint vouches for is on disk in all three files, whatever a crash
\* left after it: one row for each lead passage before the entry to resume from.
CheckpointIsTruth ==
    checkpoint # None =>
        /\ checkpoint.vectors <= Len(vectors) /\ checkpoint.ids <= Len(ids)
        /\ checkpoint.paths <= Len(paths)
        /\ checkpoint.vectors = checkpoint.count
        /\ \A rows \in {SubSeq(vectors, 1, checkpoint.vectors),
                        SubSeq(ids, 1, checkpoint.ids),
                        SubSeq(paths, 1, checkpoint.paths)} :
              IsRowsOf(rows, {e \in Entries : Kind[e] = "lead" /\ e < checkpoint.next})

\* An index that opens is the one an uninterrupted build writes: no article lost, none
\* twice, row i of the three files about the same article.  This and the next property
\* are about runs with the same limit (SameLimit).
OpenedIsComplete ==
    Openable =>
        /\ vectors = ids /\ paths = ids
        /\ IsRowsOf(ids, Leads(limit))

\* Running the builder again over a finished index, to the end or until it is killed,
\* leaves the index as it is.
OpenedStays == [][Openable => Openable' /\ UNCHANGED files]_vars

=============================================================================
