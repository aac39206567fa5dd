--------------------------- MODULE DenseBuildProofs ---------------------------
(***************************************************************************)
(* What the sidecar builder keeps for any archive, any batching and any    *)
(* number of crashed runs: what the checkpoint vouches for is on disk, and *)
(* an index that opens is complete and stays.                              *)
(***************************************************************************)
EXTENDS DenseBuild, FiniteSetTheorems, SequenceTheorems, TLAPS

Rows == Entries \cup {Torn}

LeadsBelow(n) == {e \in Entries : Kind[e] = "lead" /\ e < n}
ArticlesBelow(n) == {a \in Articles : a < n}

\* g is f with something appended.
Extends(f, g) ==
    /\ Len(f) <= Len(g)
    /\ \A n \in 0..Len(f) : SubSeq(g, 1, n) = SubSeq(f, 1, n)

-----------------------------------------------------------------------------
(* The files *)

\* Appending extends a file.
LEMMA ConcatExtends ==
  ASSUME NEW S, NEW f \in Seq(S), NEW x \in Seq(S)
  PROVE  /\ f \o x \in Seq(S) /\ Len(f \o x) = Len(f) + Len(x)
         /\ Extends(f, f \o x)
<1>1. f \o x \in Seq(S) /\ Len(f \o x) = Len(f) + Len(x)
      /\ \A i \in 1..Len(f) : (f \o x)[i] = f[i]
  BY ConcatProperties
<1>2. Len(f) \in Nat /\ Len(x) \in Nat
  BY LenProperties
<1>3. ASSUME NEW n \in 0..Len(f)
      PROVE  SubSeq(f \o x, 1, n) = SubSeq(f, 1, n)
  <2>1. n \in Nat /\ 1..n \subseteq 1..Len(f) /\ 1..n \subseteq 1..Len(f \o x)
    BY <1>1, <1>2, <1>3
  <2>2. SubSeq(f \o x, 1, n) = [i \in 1..n |-> (f \o x)[i]]
    BY <1>1, <1>2, <2>1 DEF SubSeq
  <2>3. SubSeq(f, 1, n) = [i \in 1..n |-> f[i]]
    BY <1>2, <2>1 DEF SubSeq
  <2> QED
    BY <1>1, <2>1, <2>2, <2>3
<1> QED
  BY <1>1, <1>2, <1>3 DEF Extends

\* A file that is left alone is extended by nothing.
LEMMA SameExtends ==
  ASSUME NEW S, NEW f \in Seq(S)
  PROVE  Extends(f, f)
  BY LenProperties DEF Extends

\* The first rows of a file: how many there are, and that cutting twice is cutting once.
LEMMA CutFile ==
  ASSUME NEW S, NEW f \in Seq(S), NEW n \in Nat, n <= Len(f)
  PROVE  /\ SubSeq(f, 1, n) \in Seq(S) /\ Len(SubSeq(f, 1, n)) = n
         /\ SubSeq(SubSeq(f, 1, n), 1, n) = SubSeq(f, 1, n)
         /\ \A i \in 1..n : SubSeq(f, 1, n)[i] = f[i]
<1>0. Len(f) \in Nat
  BY LenProperties
<1>1. \A i \in 1..n : i \in 1..Len(f)
  BY <1>0
<1>2. SubSeq(f, 1, n) = [i \in 1..n |-> f[i]]
  BY <1>0 DEF SubSeq
<1>3. SubSeq(f, 1, n) \in Seq(S) /\ Len(SubSeq(f, 1, n)) = n
  <2>1. \A i \in 1..n : f[i] \in S
    BY <1>1, ElementOfSeq
  <2> QED
    BY <1>2, <2>1, SubSeqProperties, <1>0
<1>4. SubSeq(SubSeq(f, 1, n), 1, n) = [i \in 1..n |-> SubSeq(f, 1, n)[i]]
  BY <1>3 DEF SubSeq
<1> QED
  BY <1>2, <1>3, <1>4

\* What a crash leaves of an append is the file with something appended.
LEMMA PartialExtends ==
  ASSUME NEW f \in Seq(Rows), NEW batch \in Seq(Entries), NEW g \in Partial(f, batch)
  PROVE  g \in Seq(Rows) /\ Extends(f, g)
<1>0. Len(batch) \in Nat /\ batch \in Seq(Rows)
  BY LenProperties, SeqMonotonic DEF Rows
<1>1. CASE \E n \in 0..Len(batch) : g = f \o SubSeq(batch, 1, n)
  <2>1. PICK n \in 0..Len(batch) : g = f \o SubSeq(batch, 1, n)
    BY <1>1
  <2>2. SubSeq(batch, 1, n) \in Seq(Rows)
    BY <1>0, CutFile
  <2> QED
    BY <2>1, <2>2, ConcatExtends
<1>2. CASE \E n \in 0..(Len(batch) - 1) : g = f \o Append(SubSeq(batch, 1, n), Torn)
  <2>1. PICK n \in 0..(Len(batch) - 1) : g = f \o Append(SubSeq(batch, 1, n), Torn)
    BY <1>2
  <2>2. SubSeq(batch, 1, n) \in Seq(Rows)
    BY <1>0, CutFile
  <2>3. Append(SubSeq(batch, 1, n), Torn) \in Seq(Rows)
    BY <2>2, AppendProperties DEF Rows
  <2> QED
    BY <2>1, <2>3, ConcatExtends
<1> QED
  BY <1>1, <1>2 DEF Partial

-----------------------------------------------------------------------------
(* Types *)

\* What a run starts from is a checkpoint.
LEMMA TruthType ==
  ASSUME TypeOK
  PROVE  Truth \in Checkpoints
  BY DenseBuildAssumption DEF TypeOK, Truth, Fresh, Checkpoints

\* Types at the start of a run: the files are cut to what the checkpoint vouches for.
LEMMA StartTypes ==
  ASSUME TypeOK, StartBuild,
         Truth.vectors <= Len(vectors), Truth.ids <= Len(ids), Truth.paths <= Len(paths)
  PROVE  TypeOK'
<1>1. /\ Truth.next \in 1..(EntryCount + 1) /\ Truth.processed \in Nat /\ Truth.count \in Nat
      /\ Truth.vectors \in Nat /\ Truth.ids \in Nat /\ Truth.paths \in Nat
  BY TruthType DEF Checkpoints
<1>2. /\ vectors' \in Seq(Rows) /\ ids' \in Seq(Rows) /\ paths' \in Seq(Rows)
  BY <1>1, CutFile DEF StartBuild, Truncate, TypeOK, Rows
<1>3. limit' \in Nat /\ batching' \in (Nat \ {0}) \X (Nat \ {0})
  BY DenseBuildAssumption DEF StartBuild, TypeOK
<1>4. pending' \in Seq(Entries)
  BY EmptySeq DEF StartBuild
<1>5. at' \in 1..(EntryCount + 1) /\ next' \in 1..(EntryCount + 1)
  BY <1>1 DEF StartBuild, EntryAfter
<1>6. processed' \in Nat /\ count' \in Nat /\ batches' \in Nat /\ runs' \in Nat
  BY <1>1 DEF StartBuild, TypeOK
<1> QED
  BY <1>2, <1>3, <1>4, <1>5, <1>6 DEF StartBuild, TypeOK, Rows

\* Types while the archive is walked and its passages are gathered.
LEMMA WalkTypes ==
  ASSUME TypeOK, Visit \/ EndWalk
  PROVE  TypeOK'
<1>1. CASE Visit
  <2>1. at \in Entries /\ at' \in 1..(EntryCount + 1) /\ processed' \in Nat
    BY <1>1, DenseBuildAssumption DEF Visit, TypeOK, Entries
  <2>2. pending' \in Seq(Entries)
    BY <1>1, <2>1, AppendProperties DEF Visit, TypeOK
  <2> QED
    BY <1>1, <2>1, <2>2 DEF Visit, TypeOK, files, arguments
<1>2. CASE EndWalk
  BY <1>2 DEF EndWalk, TypeOK, files, arguments
<1> QED
  BY <1>1, <1>2

\* Types while a batch is written.
LEMMA FlushTypes ==
  ASSUME TypeOK, AppendVectors \/ AppendIds \/ AppendPaths, pc = "paths" => pending # <<>>
  PROVE  TypeOK'
<1>0. pending \in Seq(Rows) /\ Len(pending) \in Nat
  BY SeqMonotonic, LenProperties DEF TypeOK, Rows
<1>1. CASE AppendVectors
  <2>1. vectors' \in Seq(Rows)
    BY <1>0, <1>1, ConcatProperties DEF AppendVectors, TypeOK, Rows
  <2> QED
    BY <1>1, <2>1 DEF AppendVectors, TypeOK, Rows, locals, arguments
<1>2. CASE AppendIds
  <2>1. ids' \in Seq(Rows)
    BY <1>0, <1>2, ConcatProperties DEF AppendIds, TypeOK, Rows
  <2> QED
    BY <1>2, <2>1 DEF AppendIds, TypeOK, Rows, locals, arguments
<1>3. CASE AppendPaths
  <2>1. paths' \in Seq(Rows)
    BY <1>0, <1>3, ConcatProperties DEF AppendPaths, TypeOK, Rows
  <2>2. Len(pending) \in 1..Len(pending)
    BY <1>0, <1>3, EmptySeq DEF AppendPaths, TypeOK
  <2>3. pending[Len(pending)] \in Entries
    BY <2>2, ElementOfSeq DEF TypeOK
  <2>4. next' \in 1..(EntryCount + 1)
    BY <1>3, <2>3, DenseBuildAssumption DEF AppendPaths, NextAfter, Entries
  <2>5. pending' \in Seq(Entries)
    BY <1>3, EmptySeq DEF AppendPaths
  <2>6. count' \in Nat /\ batches' \in Nat
    BY <1>0, <1>3 DEF AppendPaths, TypeOK
  <2> QED
    BY <1>3, <2>1, <2>4, <2>5, <2>6 DEF AppendPaths, TypeOK, Rows, arguments
<1> QED
  BY <1>1, <1>2, <1>3

\* Types at the end of a batch, of a run, and at a crash.
LEMMA EndTypes ==
  ASSUME TypeOK, Checkpoint \/ Finish \/ Crash
  PROVE  TypeOK'
<1>0. Len(vectors) \in Nat /\ Len(ids) \in Nat /\ Len(paths) \in Nat
  BY LenProperties DEF TypeOK
<1>1. CASE Checkpoint
  <2>1. checkpoint' \in Checkpoints
    BY <1>0, <1>1 DEF Checkpoint, Checkpoints, TypeOK
  <2> QED
    BY <1>1, <2>1 DEF Checkpoint, TypeOK, files, arguments
<1>2. CASE Finish
  BY <1>2 DEF Finish, TypeOK, files, arguments, locals
<1>3. CASE Crash
  <2>1. vectors' \in Seq(Rows) /\ ids' \in Seq(Rows) /\ paths' \in Seq(Rows)
    BY <1>3, PartialExtends DEF Crash, TypeOK, Rows
  <2> QED
    BY <1>3, <2>1 DEF Crash, TypeOK, Rows, locals, arguments
<1> QED
  BY <1>1, <1>2, <1>3

-----------------------------------------------------------------------------
(* What is on disk *)

\* What the run started from, or will start from, is on disk in all three files.
TruthInv ==
    /\ Truth.vectors = Truth.count /\ Truth.ids = Truth.count /\ Truth.paths = Truth.count
    /\ Truth.count <= Len(vectors) /\ Truth.count <= Len(ids) /\ Truth.count <= Len(paths)
    /\ SubSeq(vectors, 1, Truth.count) = SubSeq(paths, 1, Truth.count)
    /\ SubSeq(ids, 1, Truth.count) = SubSeq(paths, 1, Truth.count)
    /\ IsRowsOf(SubSeq(paths, 1, Truth.count), LeadsBelow(Truth.next))

Flushing == pc \in {"embed", "ids", "paths"}

\* paths.txt is the last of the three to get a batch.
FilesInv ==
    /\ ids = IF pc = "paths" THEN paths \o pending ELSE paths
    /\ vectors = IF pc \in {"ids", "paths"} THEN paths \o pending ELSE paths

\* While the builder runs, what is written and what is pending are the lead passages of
\* the entries it has visited.
RunInv ==
    pc # "down" =>
        /\ FilesInv
        /\ count = Len(paths)
        /\ IsRowsOf(paths \o pending, LeadsBelow(at))
        /\ Flushing => pending # <<>>
        /\ pc \in {"checkpoint", "manifest"} => pending = <<>>
        /\ pc = "checkpoint" => LeadsBelow(next) = LeadsBelow(at)

\* Files that are only extended keep what the checkpoint vouches for.
LEMMA TruthKept ==
  ASSUME TypeOK, TypeOK', TruthInv, checkpoint' = checkpoint,
         Extends(vectors, vectors'), Extends(ids, ids'), Extends(paths, paths')
  PROVE  TruthInv'
<1>1. Truth' = Truth /\ Truth.next = Truth'.next
  BY DEF Truth
<1>2. /\ Truth.count \in Nat
      /\ Len(vectors) \in Nat /\ Len(ids) \in Nat /\ Len(paths) \in Nat
      /\ Len(vectors') \in Nat /\ Len(ids') \in Nat /\ Len(paths') \in Nat
  BY TruthType, LenProperties DEF Checkpoints, TypeOK
<1>3. /\ Truth.count \in 0..Len(vectors) /\ Truth.count \in 0..Len(ids)
      /\ Truth.count \in 0..Len(paths)
  BY <1>2 DEF TruthInv
<1>4. /\ SubSeq(vectors', 1, Truth.count) = SubSeq(vectors, 1, Truth.count)
      /\ SubSeq(ids', 1, Truth.count) = SubSeq(ids, 1, Truth.count)
      /\ SubSeq(paths', 1, Truth.count) = SubSeq(paths, 1, Truth.count)
  BY <1>3 DEF Extends
<1>5. /\ Truth.count <= Len(vectors') /\ Truth.count <= Len(ids')
      /\ Truth.count <= Len(paths')
  BY <1>2, <1>3 DEF Extends
<1>6. IsRowsOf(SubSeq(paths', 1, Truth.count), LeadsBelow(Truth.next))
  BY <1>4 DEF TruthInv
<1> QED
  BY <1>1, <1>4, <1>5, <1>6 DEF TruthInv, LeadsBelow, IsRowsOf

\* A lead passage goes behind those of the entries before it.
LEMMA LeadAppended ==
  ASSUME NEW n \in Entries, Kind[n] = "lead",
         NEW rows \in Seq(Rows), IsRowsOf(rows, LeadsBelow(n))
  PROVE  IsRowsOf(Append(rows, n), LeadsBelow(n + 1))
<1>0. n \in Nat /\ n \in Rows /\ Len(rows) \in Nat /\ DOMAIN rows = 1..Len(rows)
  BY LenProperties DEF Entries, Rows
<1> DEFINE longer == Append(rows, n)
<1>1. /\ longer \in Seq(Rows) /\ Len(longer) = Len(rows) + 1
      /\ \A i \in 1..Len(rows) : longer[i] = rows[i]
      /\ longer[Len(rows) + 1] = n
  BY <1>0, AppendProperties
<1>2. DOMAIN longer = 1..(Len(rows) + 1)
  BY <1>1, LenProperties
<1> HIDE DEF longer
<1>3. LeadsBelow(n + 1) = LeadsBelow(n) \cup {n}
  BY <1>0 DEF LeadsBelow, Entries
<1>4. {longer[i] : i \in DOMAIN longer} = {rows[i] : i \in DOMAIN rows} \cup {n}
  <2>1. \A i \in 1..(Len(rows) + 1) : i \in 1..Len(rows) \/ i = Len(rows) + 1
    BY <1>0
  <2>2. 1..Len(rows) \subseteq 1..(Len(rows) + 1) /\ Len(rows) + 1 \in 1..(Len(rows) + 1)
    BY <1>0
  <2> QED
    BY <1>0, <1>1, <1>2, <2>1, <2>2
<1>5. ASSUME NEW i \in DOMAIN longer, NEW j \in DOMAIN longer, i < j
      PROVE  longer[i] < longer[j]
  <2>1. i \in 1..Len(rows) /\ longer[i] = rows[i] /\ rows[i] \in LeadsBelow(n)
    <3>1. i \in 1..Len(rows)
      BY <1>0, <1>2, <1>5
    <3> QED
      BY <1>0, <1>1, <3>1 DEF IsRowsOf
  <2>2. CASE j \in 1..Len(rows)
    BY <1>0, <1>1, <1>5, <2>1, <2>2 DEF IsRowsOf
  <2>3. CASE j = Len(rows) + 1
    BY <1>1, <2>1, <2>3 DEF LeadsBelow
  <2> QED
    BY <1>0, <1>2, <2>2, <2>3
<1>6. {rows[i] : i \in DOMAIN rows} = LeadsBelow(n)
  BY DEF IsRowsOf
<1>7. IsRowsOf(longer, LeadsBelow(n + 1))
  BY <1>3, <1>4, <1>5, <1>6 DEF IsRowsOf
<1> QED
  BY <1>7 DEF longer

\* No entry with a lead passage follows the last one that is written or pending.
LEMMA LastIsLast ==
  ASSUME NEW f \in Seq(Rows), NEW batch \in Seq(Entries), batch # <<>>,
         NEW n \in 1..(EntryCount + 1), IsRowsOf(f \o batch, LeadsBelow(n))
  PROVE  LET e == batch[Len(batch)] IN
         e \in Entries /\ e < n /\ LeadsBelow(e + 1) = LeadsBelow(n)
<1> DEFINE e == batch[Len(batch)] rows == f \o batch
<1>0. /\ Len(f) \in Nat /\ Len(batch) \in Nat /\ Len(batch) # 0
      /\ batch \in Seq(Rows)
  BY LenProperties, EmptySeq, SeqMonotonic DEF Rows
<1>1. /\ rows \in Seq(Rows) /\ Len(rows) = Len(f) + Len(batch)
      /\ rows[Len(rows)] = e
  <2>1. /\ rows \in Seq(Rows) /\ Len(rows) = Len(f) + Len(batch)
        /\ \A i \in 1 .. Len(f) + Len(batch) : rows[i] =
                     IF i <= Len(f) THEN f[i] ELSE batch[i - Len(f)]
    BY <1>0, ConcatProperties
  <2>2. /\ Len(f) + Len(batch) \in 1 .. Len(f) + Len(batch)
        /\ ~(Len(f) + Len(batch) <= Len(f))
        /\ Len(f) + Len(batch) - Len(f) = Len(batch)
    BY <1>0
  <2> QED
    BY <2>1, <2>2
<1>2. DOMAIN rows = 1..Len(rows) /\ Len(rows) \in 1..Len(rows)
  BY <1>0, <1>1, LenProperties
<1>3. e \in LeadsBelow(n)
  BY <1>1, <1>2 DEF IsRowsOf
<1>4. e \in Entries /\ e < n /\ e \in Nat /\ n \in Nat
  BY <1>3, DenseBuildAssumption DEF LeadsBelow, Entries
<1>5. ASSUME NEW d \in LeadsBelow(n)
      PROVE  d < e + 1
  <2>1. PICK i \in 1..Len(rows) : rows[i] = d
    BY <1>2 DEF IsRowsOf
  <2>2. d \in Nat
    BY DEF LeadsBelow, Entries
  <2>3. CASE i = Len(rows)
    BY <1>1, <1>4, <2>1, <2>3
  <2>4. CASE i < Len(rows)
    <3>1. rows[i] < rows[Len(rows)]
      BY <1>2, <2>4 DEF IsRowsOf
    <3> QED
      BY <1>1, <1>4, <2>1, <2>2, <3>1
  <2> QED
    BY <1>0, <1>1, <2>3, <2>4
<1>6. LeadsBelow(e + 1) \subseteq LeadsBelow(n)
  BY <1>4 DEF LeadsBelow, Entries
<1>7. LeadsBelow(n) \subseteq LeadsBelow(e + 1)
  BY <1>5 DEF LeadsBelow
<1> QED
  BY <1>4, <1>6, <1>7
\* A run starts from the rows its checkpoint vouches for.
LEMMA StartData ==
  ASSUME TypeOK, TypeOK', TruthInv, StartBuild
  PROVE  TruthInv' /\ RunInv'
<1>1. Truth' = Truth /\ Truth \in Checkpoints
  BY TruthType DEF Truth, StartBuild
<1> DEFINE c == Truth.count
<1>2. c \in Nat /\ Truth.vectors = c /\ Truth.ids = c /\ Truth.paths = c
      /\ c <= Len(vectors) /\ c <= Len(ids) /\ c <= Len(paths)
  BY <1>1 DEF TruthInv, Checkpoints
<1>3. /\ vectors' = SubSeq(vectors, 1, c) /\ ids' = SubSeq(ids, 1, c)
      /\ paths' = SubSeq(paths, 1, c)
  BY <1>2 DEF StartBuild, Truncate
<1>4. vectors' = paths' /\ ids' = paths'
  BY <1>3 DEF TruthInv
<1>5. Len(paths') = c /\ SubSeq(paths', 1, c) = paths'
  <2>1. paths \in Seq(Rows)
    BY DEF TypeOK, Rows
  <2>2. Len(SubSeq(paths, 1, c)) = c /\ SubSeq(SubSeq(paths, 1, c), 1, c) = SubSeq(paths, 1, c)
    BY <1>2, <2>1, CutFile
  <2> QED
    BY <1>3, <2>2
<1>6. IsRowsOf(paths', LeadsBelow(Truth.next))
  BY <1>3 DEF TruthInv
<1>7. TruthInv'
  <2>1. IsRowsOf(SubSeq(paths', 1, Truth'.count), LeadsBelow(Truth'.next))
    BY <1>1, <1>5, <1>6
  <2>2. IsRowsOf(SubSeq(paths, 1, Truth.count), LeadsBelow(Truth.next))'
    BY <2>1 DEF IsRowsOf, LeadsBelow
  <2> QED
    BY <1>1, <1>2, <1>4, <1>5, <2>2 DEF TruthInv
<1>8. RunInv'
  <2>1. pc' = "walk" /\ pending' = <<>> /\ at' = Truth.next /\ count' = c
    BY DEF StartBuild, EntryAfter
  <2>2. paths' \o pending' = paths'
    BY <2>1, ConcatEmptySeq DEF TypeOK
  <2>3. IsRowsOf(paths' \o pending', LeadsBelow(at'))
    BY <1>6, <2>1, <2>2
  <2>4. IsRowsOf(paths \o pending, LeadsBelow(at))'
    BY <2>3 DEF IsRowsOf, LeadsBelow
  <2> QED
    BY <1>4, <1>5, <2>1, <2>4 DEF RunInv, FilesInv, Flushing
<1> QED
  BY <1>7, <1>8

\* A visited entry's lead passage is pending.
LEMMA VisitData ==
  ASSUME TypeOK, TypeOK', RunInv, Visit
  PROVE  RunInv'
<1>1. /\ pc = "walk" /\ at \in Entries /\ at' = at + 1 /\ at \in Nat
      /\ paths' = paths /\ ids' = ids /\ vectors' = vectors /\ count' = count
      /\ pc' \in {"walk", "embed"} /\ batching' = batching /\ next' = next
  BY DenseBuildAssumption DEF Visit, TypeOK, Entries, files, arguments
<1>2. IsRowsOf(paths \o pending, LeadsBelow(at))
  BY <1>1 DEF RunInv
<1>3. paths \in Seq(Rows) /\ pending \in Seq(Rows)
  BY SeqMonotonic DEF TypeOK, Rows
<1>4. IsRowsOf(paths' \o pending', LeadsBelow(at'))
  <2>1. CASE Kind[at] = "lead"
    <3>1. pending' = Append(pending, at) /\ at \in Rows
      BY <1>1, <2>1 DEF Visit, Rows
    <3>2. paths \o pending' = Append(paths \o pending, at)
      <4>1. Append(pending, at) = pending \o <<at>>
        BY <1>3, <3>1, AppendIsConcat
      <4>2. <<at>> \in Seq(Rows)
        BY <3>1
      <4>3. (paths \o pending) \o <<at>> = paths \o (pending \o <<at>>)
        BY <1>3, <4>2, ConcatAssociative
      <4>4. paths \o pending \in Seq(Rows)
        BY <1>3, ConcatProperties
      <4>5. Append(paths \o pending, at) = (paths \o pending) \o <<at>>
        BY <3>1, <4>4, AppendIsConcat
      <4> QED
        BY <3>1, <4>1, <4>3, <4>5
    <3>3. paths \o pending \in Seq(Rows)
      BY <1>3, ConcatProperties
    <3> QED
      BY <1>1, <1>2, <2>1, <3>2, <3>3, LeadAppended
  <2>2. CASE Kind[at] # "lead"
    <3>1. pending' = pending
      BY <2>2 DEF Visit
    <3>2. LeadsBelow(at + 1) = LeadsBelow(at)
      BY <1>1, <2>2 DEF LeadsBelow, Entries
    <3> QED
      BY <1>1, <1>2, <3>1, <3>2
  <2> QED
    BY <2>1, <2>2
<1>5. IsRowsOf(paths \o pending, LeadsBelow(at))'
  BY <1>4 DEF IsRowsOf, LeadsBelow
<1>6. pc' = "embed" => pending' # <<>>
  <2>1. pc' = "embed" => Len(pending') >= batching[1] /\ batching[1] \in Nat \ {0}
    BY DEF Visit, TypeOK
  <2>2. Len(<<>>) = 0
    BY EmptySeq
  <2> QED
    BY <2>1, <2>2
<1>7. FilesInv /\ count = Len(paths)
  BY <1>1 DEF RunInv
<1>8. FilesInv'
  BY <1>1, <1>7 DEF FilesInv
<1> QED
  BY <1>1, <1>5, <1>6, <1>7, <1>8 DEF RunInv, Flushing

\* The end of the walk leaves the rows as they are.
LEMMA EndWalkData ==
  ASSUME TypeOK, TypeOK', RunInv, EndWalk
  PROVE  RunInv'
<1>1. /\ pc = "walk" /\ next' = at /\ at' = at /\ pending' = pending
      /\ paths' = paths /\ ids' = ids /\ vectors' = vectors /\ count' = count
      /\ pc' = IF pending = <<>> THEN "checkpoint" ELSE "embed"
  BY DEF EndWalk, files
<1>2. IsRowsOf(paths \o pending, LeadsBelow(at))'
  BY <1>1 DEF RunInv, IsRowsOf, LeadsBelow
<1>3. (LeadsBelow(next) = LeadsBelow(at))'
  BY <1>1 DEF LeadsBelow
<1>4. FilesInv'
  BY <1>1 DEF RunInv, FilesInv
<1> QED
  BY <1>1, <1>2, <1>3, <1>4 DEF RunInv, Flushing

\* A batch is written, file by file.
LEMMA FlushData ==
  ASSUME TypeOK, TypeOK', RunInv, AppendVectors \/ AppendIds
  PROVE  RunInv'
<1>1. /\ pc \in {"embed", "ids"} /\ pc' \in {"ids", "paths"}
      /\ at' = at /\ next' = next /\ pending' = pending /\ paths' = paths /\ count' = count
  BY DEF AppendVectors, AppendIds, locals
<1>2. IsRowsOf(paths \o pending, LeadsBelow(at))'
  BY <1>1 DEF RunInv, IsRowsOf, LeadsBelow
<1>3. FilesInv'
  <2>1. FilesInv
    BY <1>1 DEF RunInv
  <2>2. CASE AppendVectors
    BY <1>1, <2>1, <2>2 DEF FilesInv, AppendVectors
  <2>3. CASE AppendIds
    BY <1>1, <2>1, <2>3 DEF FilesInv, AppendIds
  <2> QED
    BY <2>2, <2>3
<1> QED
  BY <1>1, <1>2, <1>3 DEF RunInv, Flushing

\* With its last file a batch is done, and the entry to resume from is after it.
LEMMA PathsData ==
  ASSUME TypeOK, TypeOK', RunInv, AppendPaths
  PROVE  RunInv'
<1>1. /\ pc = "paths" /\ at' = at /\ pending' = <<>> /\ pc' \in {"checkpoint", "walk"}
      /\ paths' = paths \o pending /\ ids' = ids /\ vectors' = vectors
      /\ count' = count + Len(pending) /\ next' = pending[Len(pending)] + 1
  BY DEF AppendPaths, NextAfter
<1>2. /\ FilesInv /\ count = Len(paths) /\ pending # <<>>
      /\ IsRowsOf(paths \o pending, LeadsBelow(at))
  BY <1>1 DEF RunInv, Flushing
<1>3. pending \in Seq(Rows) /\ paths \in Seq(Rows)
  BY SeqMonotonic DEF TypeOK, Rows
<1>4. paths' \o pending' = paths'
  BY <1>1, ConcatEmptySeq DEF TypeOK
<1>5. IsRowsOf(paths' \o pending', LeadsBelow(at'))
  BY <1>1, <1>2, <1>4
<1>6. IsRowsOf(paths \o pending, LeadsBelow(at))'
  BY <1>5 DEF IsRowsOf, LeadsBelow
<1>7. LeadsBelow(next') = LeadsBelow(at')
  <2>1. at \in 1..(EntryCount + 1)
    BY DEF TypeOK
  <2> QED
    BY <1>1, <1>2, <1>3, <2>1, LastIsLast DEF TypeOK
<1>8. (LeadsBelow(next) = LeadsBelow(at))'
  BY <1>7 DEF LeadsBelow
<1>9. count' = Len(paths')
  BY <1>1, <1>2, <1>3, ConcatProperties
<1>10. FilesInv'
  BY <1>1, <1>2 DEF FilesInv
<1> QED
  BY <1>1, <1>6, <1>8, <1>9, <1>10 DEF RunInv, Flushing

\* A checkpoint vouches for what is written.
LEMMA CheckpointData ==
  ASSUME TypeOK, TypeOK', RunInv, Checkpoint
  PROVE  TruthInv' /\ RunInv'
<1>1. /\ pc = "checkpoint" /\ pc' \in {"manifest", "walk"} /\ at' = at /\ next' = next
      /\ vectors' = vectors /\ ids' = ids /\ paths' = paths
      /\ pending' = pending /\ count' = count
  BY DEF Checkpoint, files
<1>2. /\ vectors = paths /\ ids = paths /\ count = Len(paths) /\ pending = <<>>
      /\ LeadsBelow(next) = LeadsBelow(at) /\ IsRowsOf(paths \o pending, LeadsBelow(at))
  BY <1>1 DEF RunInv, FilesInv
<1>3. paths \o pending = paths /\ SubSeq(paths, 1, Len(paths)) = paths /\ Len(paths) \in Nat
  BY <1>2, ConcatEmptySeq, SubSeqFull, LenProperties DEF TypeOK
<1>4. /\ Truth'.next = next /\ Truth'.count = count /\ Truth'.vectors = Len(vectors)
      /\ Truth'.ids = Len(ids) /\ Truth'.paths = Len(paths)
  <2>1. checkpoint' # None
    <3>1. checkpoint' \in Checkpoints
      BY <1>2, <1>3 DEF Checkpoint, Checkpoints, TypeOK
    <3> QED
      BY <3>1, DenseBuildAssumption
  <2>2. Truth' = checkpoint'
    BY <2>1 DEF Truth
  <2> QED
    BY <2>2 DEF Checkpoint
<1>5. TruthInv'
  <2>1. IsRowsOf(SubSeq(paths', 1, Truth'.count), LeadsBelow(Truth'.next))
    BY <1>1, <1>2, <1>3, <1>4
  <2>2. IsRowsOf(SubSeq(paths, 1, Truth.count), LeadsBelow(Truth.next))'
    BY <2>1 DEF IsRowsOf, LeadsBelow
  <2>3. /\ (Truth.vectors = Truth.count)' /\ (Truth.ids = Truth.count)'
        /\ (Truth.paths = Truth.count)'
        /\ (Truth.count <= Len(vectors))' /\ (Truth.count <= Len(ids))'
        /\ (Truth.count <= Len(paths))'
    BY <1>1, <1>2, <1>3, <1>4
  <2> QED
    BY <1>1, <1>2, <2>2, <2>3 DEF TruthInv
<1>6. RunInv'
  <2>1. IsRowsOf(paths \o pending, LeadsBelow(at))'
    BY <1>1, <1>2 DEF IsRowsOf, LeadsBelow
  <2> QED
    BY <1>1, <1>2, <2>1 DEF RunInv, FilesInv, Flushing
<1> QED
  BY <1>5, <1>6

\* All three together: the invariant of the files.
DataInv == TypeOK /\ TruthInv /\ RunInv

\* Every step keeps it.
LEMMA DataStep ==
  ASSUME DataInv, [Next]_vars
  PROVE  DataInv'
<1> USE DEF DataInv
<1>0. /\ vectors \in Seq(Rows) /\ ids \in Seq(Rows) /\ paths \in Seq(Rows)
      /\ pending \in Seq(Entries) /\ pending \in Seq(Rows)
  BY SeqMonotonic DEF TypeOK, Rows
<1>1. CASE StartBuild
  BY <1>1, StartTypes, StartData DEF TruthInv
<1>2. CASE Visit \/ EndWalk
  <2>1. TypeOK' /\ RunInv'
    BY <1>2, WalkTypes, VisitData, EndWalkData
  <2>2. checkpoint' = checkpoint /\ vectors' = vectors /\ ids' = ids /\ paths' = paths
    BY <1>2 DEF Visit, EndWalk, files
  <2> QED
    BY <1>0, <2>1, <2>2, SameExtends, TruthKept
<1>3. CASE AppendVectors \/ AppendIds \/ AppendPaths
  <2>1. pc = "paths" => pending # <<>>
    BY DEF RunInv, Flushing
  <2>2. TypeOK'
    BY <1>3, <2>1, FlushTypes
  <2>3. RunInv'
    BY <1>3, <2>2, FlushData, PathsData
  <2>4. /\ checkpoint' = checkpoint
        /\ vectors' \in {vectors, vectors \o pending}
        /\ ids' \in {ids, ids \o pending} /\ paths' \in {paths, paths \o pending}
    BY <1>3 DEF AppendVectors, AppendIds, AppendPaths
  <2>5. Extends(vectors, vectors') /\ Extends(ids, ids') /\ Extends(paths, paths')
    BY <1>0, <2>4, SameExtends, ConcatExtends
  <2> QED
    BY <2>2, <2>3, <2>4, <2>5, TruthKept
<1>4. CASE Checkpoint
  BY <1>4, EndTypes, CheckpointData
<1>5. CASE Finish
  <2>1. TypeOK' /\ pc' = "down"
    BY <1>5, EndTypes DEF Finish
  <2>2. checkpoint' = checkpoint /\ vectors' = vectors /\ ids' = ids /\ paths' = paths
    BY <1>5 DEF Finish, files
  <2>3. TruthInv'
    BY <1>0, <2>1, <2>2, SameExtends, TruthKept
  <2> QED
    BY <2>1, <2>3 DEF RunInv
<1>6. CASE Crash
  <2>1. TypeOK' /\ pc' = "down" /\ checkpoint' = checkpoint
    BY <1>6, EndTypes DEF Crash
  <2>2. Extends(vectors, vectors') /\ Extends(ids, ids') /\ Extends(paths, paths')
    BY <1>0, <1>6, PartialExtends, SameExtends DEF Crash
  <2>3. TruthInv'
    BY <2>1, <2>2, TruthKept
  <2> QED
    BY <2>1, <2>3 DEF RunInv
<1>7. CASE UNCHANGED vars
  <2>1. /\ TypeOK' /\ checkpoint' = checkpoint
        /\ vectors' = vectors /\ ids' = ids /\ paths' = paths
    BY <1>7 DEF TypeOK, vars, files, locals, arguments
  <2>2. TruthInv'
    BY <1>0, <2>1, SameExtends, TruthKept
  <2>3. RunInv'
    BY <1>7 DEF RunInv, FilesInv, Flushing, IsRowsOf, LeadsBelow, vars, files, locals, arguments
  <2> QED
    BY <2>1, <2>2, <2>3
<1> QED
  BY <1>1, <1>2, <1>3, <1>4, <1>5, <1>6, <1>7 DEF Next

\* Before the first run nothing is on disk, and nothing is vouched for.
LEMMA DataInit ==
  ASSUME Init
  PROVE  DataInv
<1>1. Truth = Fresh
  BY DEF Init, Truth
<1>2. TypeOK
  <2>1. <<>> \in Seq(Entries) /\ <<>> \in Seq(Entries \cup {Torn})
    BY EmptySeq
  <2>2. 1 \in 1..(EntryCount + 1)
    BY DenseBuildAssumption
  <2>3. <<1, 1>> \in (Nat \ {0}) \X (Nat \ {0})
    OBVIOUS
  <2> QED
    BY <2>1, <2>2, <2>3 DEF Init, TypeOK
<1>3. TruthInv
  <2>1. SubSeq(paths, 1, 0) = <<>> /\ DOMAIN <<>> = {} /\ Len(<<>>) = 0
    BY SubSeqEmpty, EmptySeq
  <2>2. LeadsBelow(1) = {}
    BY DEF LeadsBelow, Entries
  <2>3. IsRowsOf(SubSeq(paths, 1, 0), LeadsBelow(1))
    BY <2>1, <2>2 DEF IsRowsOf
  <2> QED
    BY <1>1, <2>1, <2>3 DEF TruthInv, Init, Fresh
<1> QED
  BY <1>2, <1>3 DEF DataInv, RunInv, Init

\* The files keep the invariant.
LEMMA DataHolds == Spec => []DataInv
  BY DataInit, DataStep, PTL DEF Spec

\* For any archive, batching and number of runs, the builder's state is of its type: the
\* files of rows (StartBuild, AppendVectors and the other steps of build_index), the
\* checkpoint, and where the walk is.
THEOREM TypeCorrect == Spec => []TypeOK
<1>1. DataInv => TypeOK
  BY DEF DataInv
<1> QED
  BY <1>1, DataHolds, PTL

\* For any archive, batching and number of runs, killed at any write, what checkpoint.json
\* vouches for is in all three files, and is what precedes the entry to resume from.
THEOREM CheckpointIsTruthHolds == Spec => []CheckpointIsTruth
<1>1. ASSUME DataInv PROVE CheckpointIsTruth
  <2>1. SUFFICES ASSUME checkpoint # None
                 PROVE  CheckpointIsTruth
    BY DEF CheckpointIsTruth
  <2>2. Truth = checkpoint
    BY <2>1 DEF Truth
  <2>3. LeadsBelow(checkpoint.next) = {e \in Entries : Kind[e] = "lead" /\ e < checkpoint.next}
    BY DEF LeadsBelow
  <2> QED
    BY <1>1, <2>2, <2>3 DEF DataInv, TruthInv, CheckpointIsTruth
<1> QED
  BY <1>1, DataHolds, PTL

-----------------------------------------------------------------------------
(* The limit *)

\* p is the number of articles before entry n, of which a run with limit l takes no
\* more than l.
Exact(n, p, l) == p = Cardinality(ArticlesBelow(n)) /\ p <= l

\* Nothing is left to embed from entry n on.  (p may be off: articles without a lead
\* passage that follow the last one with it are visited by every run.)
Spent(n, p, l) ==
    /\ LeadsBelow(n) = Leads(l)
    /\ p >= l \/ \A e \in Entries : Kind[e] = "lead" => e < n

Progress(n, p, l) == Exact(n, p, l) \/ Spent(n, p, l)

\* Where the walk is and where the next one resumes, in articles.
LimitInv ==
    /\ runs = 0 => checkpoint = None /\ manifest = None /\ pc = "down"
    /\ Progress(Truth.next, Truth.processed, limit)
    /\ pc # "down" =>
          /\ Progress(at, processed, limit)
          /\ last => Spent(at, processed, limit)
          /\ pc = "walk" => ~last /\ Len(pending) < batching[1]
          /\ Flushing /\ ~last => at = pending[Len(pending)] + 1
          /\ pc = "checkpoint" /\ ~last => next = at
    /\ pc = "manifest" =>
          /\ last /\ checkpoint # None /\ Truth.count = count
          /\ Spent(Truth.next, Truth.processed, limit)

\* Once there is a manifest, the three files are what it counts, and no run finds
\* anything to add.
FinishedInv ==
    manifest # None =>
        /\ vectors = paths /\ ids = paths /\ Len(paths) = manifest
        /\ Truth.count = manifest /\ Spent(Truth.next, Truth.processed, limit)
        /\ pc # "down" => pending = <<>> /\ Spent(at, processed, limit)

\* Articles can be counted, entry by entry.
LEMMA CountArticles ==
  ASSUME NEW n \in 1..(EntryCount + 1)
  PROVE  /\ IsFiniteSet(ArticlesBelow(n)) /\ Cardinality(ArticlesBelow(n)) \in Nat
         /\ n \in Entries =>
               Cardinality(ArticlesBelow(n + 1)) =
                   IF n \in Articles THEN Cardinality(ArticlesBelow(n)) + 1
                   ELSE Cardinality(ArticlesBelow(n))
<1>1. IsFiniteSet(Entries)
  BY FS_Interval, DenseBuildAssumption DEF Entries
<1>2. ArticlesBelow(n) \in SUBSET Entries
  BY DEF ArticlesBelow, Articles
<1>3. IsFiniteSet(ArticlesBelow(n)) /\ Cardinality(ArticlesBelow(n)) \in Nat
  BY <1>1, <1>2, FS_Subset, FS_CardinalityType
<1>4. CASE n \in Articles
  <2>1. ArticlesBelow(n + 1) = ArticlesBelow(n) \cup {n} /\ n \notin ArticlesBelow(n)
    BY <1>4, DenseBuildAssumption DEF ArticlesBelow, Articles, Entries
  <2> QED
    BY <1>3, <1>4, <2>1, FS_AddElement
<1>5. CASE n \notin Articles
  <2>1. ArticlesBelow(n + 1) = ArticlesBelow(n)
    BY <1>5, DenseBuildAssumption DEF ArticlesBelow, Articles, Entries
  <2> QED
    BY <1>3, <1>5, <2>1
<1> QED
  BY <1>3, <1>4, <1>5

\* More entries have at least as many articles.
LEMMA CountGrows ==
  ASSUME NEW m \in 1..(EntryCount + 1), NEW n \in 1..(EntryCount + 1), m <= n
  PROVE  Cardinality(ArticlesBelow(m)) <= Cardinality(ArticlesBelow(n))
<1>1. ArticlesBelow(m) \in SUBSET ArticlesBelow(n)
  BY DenseBuildAssumption DEF ArticlesBelow, Articles, Entries
<1> QED
  BY <1>1, CountArticles, FS_Subset

\* A lead passage is within a limit when its article, counted, is.
LEMMA LeadWithin ==
  ASSUME NEW e \in Entries, Kind[e] = "lead", NEW l \in Nat
  PROVE  e \in Leads(l) <=> Cardinality(ArticlesBelow(e + 1)) <= l
<1>1. {a \in Articles : a <= e} = ArticlesBelow(e + 1)
  BY DenseBuildAssumption DEF ArticlesBelow, Articles, Entries
<1> QED
  BY <1>1 DEF Leads

\* When the walk ends, the lead passages within the limit are behind it.
LEMMA WalkEnds ==
  ASSUME NEW n \in 1..(EntryCount + 1), NEW p, NEW l \in Nat, Exact(n, p, l),
         n <= EntryCount => Kind[n] # "skip" /\ p >= l
  PROVE  Spent(n, p, l)
<1> DEFINE c(m) == Cardinality(ArticlesBelow(m))
<1>1. c(n) \in Nat /\ p = c(n) /\ p <= l
  BY CountArticles DEF Exact
<1> HIDE DEF c
<1>2. ASSUME NEW e \in Entries, Kind[e] = "lead"
      PROVE  /\ e \in Leads(l) <=> c(e + 1) <= l
             /\ c(e) \in Nat /\ c(e + 1) = c(e) + 1
             /\ e \in Nat /\ e \in 1..(EntryCount + 1) /\ e + 1 \in 1..(EntryCount + 1)
  <2>1. e \in Nat /\ e \in 1..(EntryCount + 1) /\ e + 1 \in 1..(EntryCount + 1)
    BY DenseBuildAssumption DEF Entries
  <2>2. e \in Articles
    BY <1>2 DEF Articles
  <2> QED
    BY <1>2, <2>1, <2>2, LeadWithin, CountArticles DEF c
<1>3. ASSUME NEW e \in Entries, Kind[e] = "lead", e < n
      PROVE  e \in Leads(l)
  <2>1. e + 1 <= n
    BY <1>2, <1>3
  <2>2. c(e + 1) <= c(n)
    BY <1>2, <1>3, <2>1, CountGrows DEF c
  <2> QED
    BY <1>1, <1>2, <1>3, <2>2
<1>4. ASSUME NEW e \in Entries, Kind[e] = "lead", ~(e < n)
      PROVE  e \notin Leads(l) /\ p >= l
  <2>1. n <= EntryCount /\ n <= e
    BY <1>2, <1>4, DenseBuildAssumption DEF Entries
  <2>2. c(n) <= c(e)
    BY <1>2, <1>4, <2>1, CountGrows DEF c
  <2>3. p >= l
    BY <2>1
  <2> QED
    BY <1>1, <1>2, <1>4, <2>2, <2>3
<1>5. LeadsBelow(n) = Leads(l)
  <2>1. \A e \in Entries : e \in LeadsBelow(n) <=> Kind[e] = "lead" /\ e < n
    BY DEF LeadsBelow
  <2>2. \A e \in Entries : e \in Leads(l) => Kind[e] = "lead"
    BY DEF Leads
  <2>3. LeadsBelow(n) \subseteq Entries /\ Leads(l) \subseteq Entries
    BY DEF LeadsBelow, Leads
  <2> QED
    BY <1>3, <1>4, <2>1, <2>2, <2>3
<1> QED
  BY <1>4, <1>5 DEF Spent

\* A visited article counts, and a spent walk meets no lead passage.
LEMMA VisitProgress ==
  ASSUME NEW n \in Entries, NEW p \in Nat, NEW l \in Nat, NEW q,
         Kind[n] # "skip" => p < l,
         q = IF Kind[n] = "skip" THEN p ELSE p + 1
  PROVE  /\ Exact(n, p, l) => Exact(n + 1, q, l)
         /\ Spent(n, p, l) => Kind[n] # "lead" /\ Spent(n + 1, q, l)
<1>1. n \in 1..(EntryCount + 1) /\ n \in Nat
  BY DenseBuildAssumption DEF Entries
<1>2. ASSUME Exact(n, p, l) PROVE Exact(n + 1, q, l)
  <2>1. n \in Articles <=> Kind[n] # "skip"
    BY DEF Articles
  <2> QED
    BY <1>1, <1>2, <2>1, CountArticles DEF Exact
<1>3. ASSUME Spent(n, p, l) PROVE Kind[n] # "lead" /\ Spent(n + 1, q, l)
  <2>1. Kind[n] # "lead"
    <3>1. CASE p >= l
      BY <3>1
    <3>2. CASE \A e \in Entries : Kind[e] = "lead" => e < n
      BY <1>1, <3>2
    <3> QED
      BY <1>3, <3>1, <3>2 DEF Spent
  <2>2. LeadsBelow(n + 1) = LeadsBelow(n)
    BY <1>1, <2>1 DEF LeadsBelow, Entries
  <2>3. q >= l \/ \A e \in Entries : Kind[e] = "lead" => e < n + 1
    <3>1. CASE p >= l
      BY <3>1
    <3>2. CASE \A e \in Entries : Kind[e] = "lead" => e < n
      BY <1>1, <3>2 DEF Entries
    <3> QED
      BY <1>3, <3>1, <3>2 DEF Spent
  <2> QED
    BY <1>3, <2>1, <2>2, <2>3 DEF Spent
<1> QED
  BY <1>2, <1>3

\* It does not matter where in a stretch without lead passages a walk is spent.
LEMMA SpentSame ==
  ASSUME NEW m, NEW n, NEW p, NEW l, Spent(n, p, l), LeadsBelow(m) = LeadsBelow(n)
  PROVE  Spent(m, p, l)
<1>1. CASE p >= l
  BY <1>1 DEF Spent
<1>2. CASE \A e \in Entries : Kind[e] = "lead" => e < n
  <2>1. ASSUME NEW e \in Entries, Kind[e] = "lead"
        PROVE  e < m
    <3>1. e \in LeadsBelow(n)
      BY <1>2, <2>1 DEF LeadsBelow
    <3> QED
      BY <3>1 DEF LeadsBelow
  <2> QED
    BY <2>1 DEF Spent
<1> QED
  BY <1>1, <1>2 DEF Spent

\* A run starts where its checkpoint says, and with the limit of the runs before it.
LEMMA StartLimit ==
  ASSUME SameLimit, DataInv, DataInv', LimitInv, FinishedInv, StartBuild
  PROVE  LimitInv' /\ FinishedInv'
<1>1. Truth' = Truth /\ Truth \in Checkpoints /\ manifest' = manifest
      /\ checkpoint' = checkpoint
  BY TruthType DEF Truth, StartBuild, DataInv
<1>2. /\ pc' = "walk" /\ last' = FALSE /\ pending' = <<>>
      /\ at' = Truth.next /\ processed' = Truth.processed /\ runs' = runs + 1
      /\ runs \in Nat /\ limit' \in Nat
  BY DEF StartBuild, EntryAfter, DataInv, TypeOK
<1>3. Progress(Truth.next, Truth.processed, limit')
  <2>1. CASE runs = 0
    <3>1. Truth.next = 1 /\ Truth.processed = 0
      BY <2>1 DEF LimitInv, Truth, Fresh
    <3>2. ArticlesBelow(1) = {}
      BY DEF ArticlesBelow, Articles, Entries
    <3>3. Cardinality(ArticlesBelow(1)) = 0
      BY <3>2, FS_EmptySet
    <3> QED
      BY <1>2, <3>1, <3>3 DEF Progress, Exact
  <2>2. CASE runs > 0
    BY <2>2 DEF StartBuild, LimitInv
  <2> QED
    BY <1>2, <2>1, <2>2
<1>4. Len(pending') < batching'[1]
  <2>1. Len(<<>>) = 0
    BY EmptySeq
  <2>2. batching'[1] \in Nat \ {0}
    BY DEF DataInv, TypeOK
  <2> QED
    BY <1>2, <2>1, <2>2
<1>5. LimitInv'
  BY <1>1, <1>2, <1>3, <1>4 DEF LimitInv, Flushing
<1>6. FinishedInv'
  <2>1. SUFFICES ASSUME manifest # None
                 PROVE  FinishedInv'
    BY <1>1 DEF FinishedInv
  <2>2. runs > 0 /\ limit' = limit
    BY <1>2, <2>1 DEF StartBuild, LimitInv
  <2>3. /\ vectors = paths /\ ids = paths /\ Len(paths) = manifest
        /\ Truth.count = manifest /\ Spent(Truth.next, Truth.processed, limit)
    BY <2>1 DEF FinishedInv
  <2>4. /\ vectors' = SubSeq(vectors, 1, Truth.count)
        /\ ids' = SubSeq(ids, 1, Truth.count)
        /\ paths' = SubSeq(paths, 1, Truth.count)
    BY DEF StartBuild, Truncate, DataInv, TruthInv
  <2>5. SubSeq(paths, 1, Len(paths)) = paths
    BY SubSeqFull DEF DataInv, TypeOK
  <2>6. vectors' = vectors /\ ids' = ids /\ paths' = paths
    BY <2>3, <2>4, <2>5
  <2> QED
    BY <1>1, <1>2, <2>2, <2>3, <2>6 DEF FinishedInv
<1> QED
  BY <1>5, <1>6

\* Visiting an entry.
LEMMA VisitLimit ==
  ASSUME DataInv, DataInv', LimitInv, FinishedInv, Visit
  PROVE  LimitInv' /\ FinishedInv'
<1>1. /\ pc = "walk" /\ at \in Entries /\ at' = at + 1 /\ limit' = limit /\ last' = last
      /\ Kind[at] # "skip" => processed < limit
      /\ processed' = IF Kind[at] = "skip" THEN processed ELSE processed + 1
      /\ processed \in Nat /\ limit \in Nat /\ runs' = runs
      /\ paths' = paths /\ ids' = ids /\ vectors' = vectors
      /\ manifest' = manifest /\ checkpoint' = checkpoint /\ batching' = batching
      /\ pc' = IF Len(pending') >= batching[1] THEN "embed" ELSE "walk"
  BY DenseBuildAssumption DEF Visit, DataInv, TypeOK, Entries, files, arguments
<1>2. Truth' = Truth
  BY <1>1 DEF Truth
<1>3. /\ Exact(at, processed, limit) => Exact(at', processed', limit)
      /\ Spent(at, processed, limit) => Kind[at] # "lead" /\ Spent(at', processed', limit)
  BY <1>1, VisitProgress
<1>4. Progress(at', processed', limit) /\ last' = FALSE
  BY <1>1, <1>3 DEF LimitInv, Progress
<1>5. Len(pending) \in Nat /\ batching[1] \in Nat /\ Len(pending') \in Nat
      /\ pending \in Seq(Entries)
  BY LenProperties DEF DataInv, TypeOK
<1>6. pc' = "embed" => at' = pending'[Len(pending')] + 1
  <2>1. CASE Kind[at] = "lead"
    <3>1. pending' = Append(pending, at)
      BY <2>1 DEF Visit
    <3>2. pending'[Len(pending')] = at
      BY <1>1, <1>5, <3>1, AppendProperties
    <3> QED
      BY <1>1, <3>2
  <2>2. CASE Kind[at] # "lead"
    <3>1. pending' = pending /\ Len(pending) < batching[1]
      BY <1>1, <2>2 DEF Visit, LimitInv
    <3> QED
      BY <1>1, <1>5, <3>1
  <2> QED
    BY <2>1, <2>2
<1>7. pc' = "walk" => Len(pending') < batching'[1]
  BY <1>1, <1>5
<1>8. LimitInv'
  BY <1>1, <1>2, <1>4, <1>6, <1>7 DEF LimitInv, Flushing
<1>9. FinishedInv'
  <2>1. SUFFICES ASSUME manifest # None
                 PROVE  FinishedInv'
    BY <1>1 DEF FinishedInv
  <2>2. pending = <<>> /\ Spent(at, processed, limit)
    BY <1>1, <2>1 DEF FinishedInv
  <2>3. Kind[at] # "lead" /\ Spent(at', processed', limit)
    BY <1>3, <2>2
  <2>4. pending' = <<>>
    BY <2>2, <2>3 DEF Visit
  <2> QED
    BY <1>1, <1>2, <2>1, <2>3, <2>4 DEF FinishedInv
<1> QED
  BY <1>8, <1>9

\* The end of the walk.
LEMMA EndWalkLimit ==
  ASSUME DataInv, LimitInv, FinishedInv, EndWalk
  PROVE  LimitInv' /\ FinishedInv'
<1>1. /\ pc = "walk" /\ at' = at /\ limit' = limit /\ last' = TRUE
      /\ pending' = pending /\ processed' = processed /\ runs' = runs
      /\ paths' = paths /\ ids' = ids /\ vectors' = vectors
      /\ manifest' = manifest /\ checkpoint' = checkpoint
      /\ pc' \in {"checkpoint", "embed"}
      /\ at <= EntryCount => Kind[at] # "skip" /\ processed >= limit
      /\ at \in 1..(EntryCount + 1) /\ limit \in Nat
  BY DEF EndWalk, DataInv, TypeOK, files, arguments
<1>2. Truth' = Truth
  BY <1>1 DEF Truth
<1>3. Spent(at, processed, limit)
  BY <1>1, WalkEnds DEF LimitInv, Progress
<1> QED
  BY <1>1, <1>2, <1>3 DEF LimitInv, FinishedInv, Flushing, Progress

\* Writing a batch: a finished index has none.
LEMMA FlushLimit ==
  ASSUME DataInv, DataInv', LimitInv, FinishedInv, AppendVectors \/ AppendIds \/ AppendPaths
  PROVE  LimitInv' /\ FinishedInv'
<1>1. /\ pc \in {"embed", "ids", "paths"} /\ pending # <<>> /\ manifest' = manifest
      /\ checkpoint' = checkpoint /\ limit' = limit /\ at' = at /\ last' = last
      /\ processed' = processed /\ runs' = runs /\ batching' = batching
  BY DEF DataInv, RunInv, Flushing, AppendVectors, AppendIds, AppendPaths, locals, arguments
<1>2. Truth' = Truth /\ manifest = None
  BY <1>1 DEF Truth, FinishedInv
<1>3. FinishedInv'
  BY <1>1, <1>2 DEF FinishedInv
<1>4. CASE AppendVectors \/ AppendIds
  <2>1. pending' = pending /\ pc' \in {"ids", "paths"}
    BY <1>4 DEF AppendVectors, AppendIds, locals
  <2> QED
    BY <1>1, <1>2, <1>3, <2>1 DEF LimitInv, Flushing
<1>5. CASE AppendPaths
  <2>1. /\ pending' = <<>> /\ next' = pending[Len(pending)] + 1
        /\ pc' \in {"checkpoint", "walk"}
        /\ last => pc' = "checkpoint"
    BY <1>5 DEF AppendPaths, NextAfter
  <2>2. Len(pending') < batching'[1]
    <3>1. batching'[1] \in Nat \ {0}
      BY DEF DataInv, TypeOK
    <3>2. Len(<<>>) = 0
      BY EmptySeq
    <3> QED
      BY <2>1, <3>1, <3>2
  <2>3. ~last => next' = at'
    BY <1>1, <2>1 DEF LimitInv, Flushing
  <2>4. Progress(at', processed', limit') /\ (last' => Spent(at', processed', limit'))
    BY <1>1 DEF LimitInv
  <2>5. runs' # 0 /\ Progress(Truth'.next, Truth'.processed, limit')
    BY <1>1, <1>2 DEF LimitInv
  <2>6. LimitInv'
    BY <1>1, <2>1, <2>2, <2>3, <2>4, <2>5 DEF LimitInv, Flushing
  <2> QED
    BY <1>3, <2>6
<1> QED
  BY <1>4, <1>5

\* A checkpoint says where the walk is.
LEMMA CheckpointLimit ==
  ASSUME DataInv, DataInv', LimitInv, FinishedInv, Checkpoint
  PROVE  LimitInv' /\ FinishedInv'
<1>1. /\ pc = "checkpoint" /\ pc' = IF last THEN "manifest" ELSE "walk"
      /\ at' = at /\ next' = next /\ last' = last /\ limit' = limit /\ runs' = runs
      /\ vectors' = vectors /\ ids' = ids /\ paths' = paths /\ manifest' = manifest
      /\ pending' = pending /\ count' = count /\ processed' = processed
  BY DEF Checkpoint, files, arguments
<1>2. /\ vectors = paths /\ ids = paths /\ count = Len(paths) /\ pending = <<>>
      /\ LeadsBelow(next) = LeadsBelow(at)
  BY <1>1 DEF DataInv, RunInv, FilesInv
<1>3. /\ Truth'.next = next /\ Truth'.count = count /\ Truth'.processed = processed
      /\ checkpoint' # None
  <2>1. checkpoint' # None
    <3>1. Len(vectors) \in Nat /\ Len(ids) \in Nat /\ Len(paths) \in Nat
      BY LenProperties DEF DataInv, TypeOK
    <3>2. checkpoint' \in Checkpoints
      BY <3>1 DEF Checkpoint, Checkpoints, DataInv, TypeOK
    <3> QED
      BY <3>2, DenseBuildAssumption
  <2>2. Truth' = checkpoint'
    BY <2>1 DEF Truth
  <2> QED
    BY <2>1, <2>2 DEF Checkpoint
<1>4. last => Spent(next, processed, limit)
  BY <1>1, <1>2, SpentSame DEF LimitInv
<1>5. Progress(next, processed, limit) /\ Progress(at, processed, limit)
  BY <1>1, <1>4 DEF LimitInv, Progress
<1>6. Len(pending') < batching'[1]
  <2>1. batching'[1] \in Nat \ {0}
    BY DEF DataInv, TypeOK
  <2>2. Len(<<>>) = 0
    BY EmptySeq
  <2> QED
    BY <1>1, <1>2, <2>1, <2>2
<1>7. LimitInv'
  <2>1. runs # 0
    BY <1>1 DEF LimitInv
  <2> QED
    BY <1>1, <1>3, <1>4, <1>5, <1>6, <2>1 DEF LimitInv, Flushing
<1>8. FinishedInv'
  <2>1. SUFFICES ASSUME manifest # None
                 PROVE  FinishedInv'
    BY <1>1 DEF FinishedInv
  <2>2. Spent(at, processed, limit) /\ Len(paths) = manifest
    BY <1>1, <2>1 DEF FinishedInv
  <2>3. Spent(next, processed, limit)
    BY <1>2, <2>2, SpentSame
  <2> QED
    BY <1>1, <1>2, <1>3, <2>1, <2>2, <2>3 DEF FinishedInv
<1> QED
  BY <1>7, <1>8

\* The manifest is written when nothing is left, and a crash takes nothing from a
\* finished index.
LEMMA EndLimit ==
  ASSUME DataInv, LimitInv, FinishedInv, Finish \/ Crash
  PROVE  LimitInv' /\ FinishedInv'
<1>1. /\ pc # "down" /\ pc' = "down" /\ checkpoint' = checkpoint /\ limit' = limit
      /\ runs' = runs
  BY DEF Finish, Crash, arguments
<1>2. Truth' = Truth /\ runs # 0
  BY <1>1 DEF Truth, LimitInv
<1>3. LimitInv'
  BY <1>1, <1>2 DEF LimitInv
<1>4. CASE Finish
  <2>1. /\ pc = "manifest" /\ manifest' = count
        /\ vectors' = vectors /\ ids' = ids /\ paths' = paths
    BY <1>4 DEF Finish, files
  <2>2. vectors = paths /\ ids = paths /\ count = Len(paths)
    BY <2>1 DEF DataInv, RunInv, FilesInv
  <2>3. Truth.count = count /\ Spent(Truth.next, Truth.processed, limit)
    BY <2>1 DEF LimitInv
  <2> QED
    BY <1>1, <1>2, <1>3, <2>1, <2>2, <2>3 DEF FinishedInv
<1>5. CASE Crash
  <2>1. SUFFICES ASSUME manifest # None
                 PROVE  FinishedInv'
    BY <1>3, <1>5 DEF FinishedInv, Crash
  <2>2. pending = <<>>
    BY <1>1, <2>1 DEF FinishedInv
  <2>3. pc \notin {"embed", "ids", "paths"}
    BY <1>1, <2>2 DEF DataInv, RunInv, Flushing
  <2>4. vectors' = vectors /\ ids' = ids /\ paths' = paths /\ manifest' = manifest
    BY <1>5, <2>3 DEF Crash
  <2> QED
    BY <1>1, <1>2, <2>1, <2>4 DEF FinishedInv
<1> QED
  BY <1>4, <1>5

\* The invariant of builds with one limit.
BuildInv == DataInv /\ LimitInv /\ FinishedInv

\* Every step keeps it.
LEMMA BuildStep ==
  ASSUME SameLimit, BuildInv, [Next]_vars
  PROVE  BuildInv'
<1>1. DataInv'
  BY DataStep DEF BuildInv
<1>2. CASE UNCHANGED vars
  <2>1. Truth' = Truth
    BY <1>2 DEF Truth, vars
  <2> QED
    BY <1>1, <1>2, <2>1
       DEF BuildInv, LimitInv, FinishedInv, Flushing, vars, files, locals, arguments
<1> QED
  BY <1>1, <1>2, StartLimit, VisitLimit, EndWalkLimit, FlushLimit, CheckpointLimit, EndLimit
     DEF BuildInv, Next

\* It holds before the first run.
LEMMA BuildInit ==
  ASSUME Init
  PROVE  BuildInv
<1>1. Truth.next = 1 /\ Truth.processed = 0
  BY DEF Init, Truth, Fresh
<1>2. ArticlesBelow(1) = {}
  BY DEF ArticlesBelow, Articles, Entries
<1>3. Exact(1, 0, 0)
  BY <1>2, FS_EmptySet DEF Exact
<1> QED
  BY <1>1, <1>3, DataInit DEF BuildInv, LimitInv, FinishedInv, Init, Progress

\* Builds with one limit keep it.
LEMMA BuildHolds ==
  ASSUME SameLimit
  PROVE  Spec => []BuildInv
<1>1. BuildInv /\ [Next]_vars => BuildInv'
  BY BuildStep
<1> QED
  BY <1>1, BuildInit, PTL DEF Spec

\* For any archive, batching and number of runs with one limit, killed at any write, an
\* index that DenseIndex.open accepts has the rows an uninterrupted build writes.
THEOREM OpenedIsCompleteHolds ==
  ASSUME SameLimit
  PROVE  Spec => []OpenedIsComplete
<1>1. ASSUME BuildInv PROVE OpenedIsComplete
  <2>1. SUFFICES ASSUME manifest # None
                 PROVE  vectors = ids /\ paths = ids /\ IsRowsOf(ids, Leads(limit))
    BY DEF OpenedIsComplete, Openable
  <2>2. /\ vectors = paths /\ ids = paths
        /\ Truth.count = Len(paths) /\ LeadsBelow(Truth.next) = Leads(limit)
    BY <1>1, <2>1 DEF BuildInv, FinishedInv, Spent
  <2>3. SubSeq(paths, 1, Len(paths)) = paths
    BY <1>1, SubSeqFull DEF BuildInv, DataInv, TypeOK
  <2> QED
    BY <1>1, <2>2, <2>3 DEF BuildInv, DataInv, TruthInv
<1> QED
  BY <1>1, BuildHolds, PTL

\* For any archive, batching and number of runs with one limit, an index that opens
\* opens at every later moment, running the builder again included, with the same files.
THEOREM OpenedStaysHolds ==
  ASSUME SameLimit
  PROVE  Spec => OpenedStays
<1>1. ASSUME BuildInv, BuildInv', [Next]_vars
      PROVE  [Openable => Openable' /\ UNCHANGED files]_vars
  <2>1. SUFFICES ASSUME Next, Openable
                 PROVE  Openable' /\ UNCHANGED files
    BY <1>1
  <2>2. /\ manifest # None /\ vectors = paths /\ ids = paths /\ Len(paths) = manifest
        /\ Truth.count = manifest
    BY <1>1, <2>1 DEF Openable, BuildInv, FinishedInv
  <2>3. pc # "down" => pending = <<>>
    BY <1>1, <2>2 DEF BuildInv, FinishedInv
  <2>4. pc \notin {"embed", "ids", "paths"}
    BY <1>1, <2>3 DEF BuildInv, DataInv, RunInv, Flushing
  <2>5. vectors' = vectors /\ ids' = ids /\ paths' = paths
    <3>1. CASE StartBuild
      <4>1. /\ vectors' = SubSeq(vectors, 1, Truth.count)
            /\ ids' = SubSeq(ids, 1, Truth.count)
            /\ paths' = SubSeq(paths, 1, Truth.count)
        BY <1>1, <3>1 DEF StartBuild, Truncate, BuildInv, DataInv, TruthInv
      <4>2. SubSeq(paths, 1, Len(paths)) = paths
        BY <1>1, SubSeqFull DEF BuildInv, DataInv, TypeOK
      <4> QED
        BY <2>2, <4>1, <4>2
    <3>2. CASE Crash
      BY <2>4, <3>2 DEF Crash
    <3>3. CASE ~StartBuild /\ ~Crash
      BY <2>1, <2>4, <3>3
         DEF Next, Visit, EndWalk, AppendVectors, AppendIds, AppendPaths, Checkpoint, Finish,
             files
    <3> QED
      BY <3>1, <3>2, <3>3
  <2>6. manifest' # None
    <3>1. manifest' = manifest \/ manifest' = count
      BY <2>1 DEF Next, StartBuild, Visit, EndWalk, AppendVectors, AppendIds, AppendPaths,
                  Checkpoint, Finish, Crash
    <3>2. count # None
      BY <1>1, DenseBuildAssumption DEF BuildInv, DataInv, TypeOK
    <3> QED
      BY <2>2, <3>1, <3>2
  <2>7. Len(paths') = manifest'
    BY <1>1, <2>6 DEF BuildInv, FinishedInv
  <2>8. manifest' = manifest
    BY <2>2, <2>5, <2>7
  <2> QED
    BY <2>1, <2>5, <2>8 DEF Openable, files
<1>2. BuildInv /\ [Next]_vars => BuildInv'
  BY BuildStep
<1> QED
  BY <1>1, <1>2, BuildHolds, PTL DEF Spec, OpenedStays

=============================================================================
