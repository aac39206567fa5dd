------------------------------- MODULE ZimUpdate -------------------------------
(***************************************************************************)
(* The scripts that keep the ZIM library current: kiwix_update_zims.py     *)
(* (downloads the newest release of every series held and moves the old    *)
(* file to the archive directory, or with --retry-moves only retries       *)
(* moves) and kiwix_fetch_new.py (downloads series from a wanted list).    *)
(*                                                                         *)
(* One run is active at a time; it may die between any two file operations *)
(* and be started again.  A file is a series and a release; releases of a  *)
(* series are numbered in the order they appear.  Every complete file has  *)
(* Size chunks.  A run with --limit N is a run interrupted before its item *)
(* N + 1; --dry-run changes nothing.  Of a state file the model keeps what *)
(* a later run reads, so the fetcher's, which is never read, is left out.  *)
(***************************************************************************)
EXTENDS Naturals, Sequences, FiniteSets, SequencesExt

CONSTANTS
    Series,      \* archive series: <basename> without the date
    AtFirst,     \* series held when the system starts, at release 1
    Wanted,      \* series named in zim_wanted.txt
    MaxRelease,  \* bound: releases the catalog publishes of a series
    Month,       \* the month of each release
    Lettered,    \* releases that repeat a month: 2026-07a
    Listed,      \* the length the catalog lists for a file, 0 when it lists none
    Unhashed,    \* files whose meta4 sidecar has no sha-256
    Size,        \* bound: chunks of a file
    MaxFaults    \* bound: failures, interruptions and damaged chunks

Releases == 1..MaxRelease
Files == Series \X Releases
NoFile == <<>>

ASSUME ZimUpdateAssumption ==
    /\ IsFiniteSet(Series) /\ AtFirst \subseteq Series /\ Wanted \subseteq Series
    /\ MaxRelease \in Nat \ {0} /\ Size \in Nat \ {0} /\ MaxFaults \in Nat
    /\ Month \in [Releases -> Nat]
    /\ Lettered \subseteq Releases \ {1}
    /\ Listed \in [Files -> Nat]
    /\ Unhashed \subseteq Files

VARIABLES
    catalog,   \* the newest release the catalog lists, by series
    library,   \* the files in LOCAL_DIR: "none", "good" or "bad" content
    archive,   \* the files in ARCHIVE_DIR
    part,      \* the .part file of each file: chunks, and whether they are intact
    unchecked, \* files renamed into place without a hash to compare
    stored,    \* _update_state.json
    state,     \* the run's copy of it
    mode,      \* the run: "off", "update", "fetch" or "retry"
    pc,        \* what it does next
    locals,    \* files, or wanted series, still to plan
    todo,      \* items planned and not begun
    item,      \* the item in hand
    faults     \* failures so far

diskVars == <<library, archive, part, unchecked>>
stateVars == <<stored, state>>
planVars == <<locals, todo>>
vars == <<catalog, diskVars, stateVars, mode, pc, planVars, item, faults>>

NoPart == [chunks |-> 0, intact |-> TRUE]
NoEntry == [status |-> "none", old |-> NoFile, new |-> NoFile, move |-> "none"]
Blank == [s \in Series |-> NoEntry]
NoItem == [old |-> NoFile, new |-> NoFile, meta |-> "none", move |-> "missing"]

Item(old, new, meta) == [NoItem EXCEPT !.old = old, !.new = new, !.meta = meta]

Held(f) == library[f] # "none"

\* The name says <basename>_<YYYY-MM>.zim; a lettered release does not match.
Dated(f) == f[2] \notin Lettered

Init ==
    /\ catalog = [s \in Series |-> 1]
    /\ library = [f \in Files |-> IF f[1] \in AtFirst /\ f[2] = 1 THEN "good" ELSE "none"]
    /\ archive = {} /\ unchecked = {}
    /\ part = [f \in Files |-> NoPart]
    /\ stored = Blank /\ state = Blank
    /\ mode = "off" /\ pc = "off"
    /\ locals = <<>> /\ todo = <<>> /\ item = NoItem
    /\ faults = 0

Fault == faults < MaxFaults /\ faults' = faults + 1

-----------------------------------------------------------------------------
(* The state file *)

\* load_state: a file that cannot be read is taken for an empty one.
LoadState ==
    \/ state' = stored /\ UNCHANGED faults
    \/ state' = Blank /\ Fault

\* update_state and save_state: the entry's other fields are kept; the file is
\* replaced in one step.
UpdateState(s, entry) ==
    /\ state' = [state EXCEPT ![s] = entry]
    /\ stored' = state'

\* The updater records the outcome of its item.
Note(status) ==
    IF mode = "update"
      THEN UpdateState(item.new[1], [state[item.new[1]] EXCEPT !.status = status])
      ELSE UNCHANGED stateVars

-----------------------------------------------------------------------------
(* Planning *)

\* main, up to the plan: scan_local lists the dated files, oldest name first.
ScanLocal(only) ==
    /\ mode = "off"
    /\ mode' = "update" /\ pc' = "plan" /\ todo' = <<>>
    /\ LET found == {f \in only \X Releases : Held(f) /\ Dated(f)} IN
       \E order \in SetToSeqs(found) :
          /\ order # <<>>
          /\ \A i, j \in 1..Len(order) :
                i < j /\ order[i][1] = order[j][1] => order[i][2] < order[j][2]
          /\ locals' = order
    /\ UNCHANGED <<catalog, diskVars, stateVars, item, faults>>

\* Mutant: the release held is compared with the release listed, letter and all,
\* and the wrong way.
UpToDateNever(f, new) == FALSE

\* build_plan: a release of the same month is the one held.
UpToDate(f, new) == Month[f[2]] = Month[new[2]]

\* build_plan: the new file is there and has the length the catalog lists.
AlreadyThere(new) == Held(new) /\ Listed[new] = Size

\* resolve_basename: the newest release the catalog lists.
ResolveBasename(f) == <<f[1], catalog[f[1]]>>

\* build_plan, one file; what could not be resolved is left out.
BuildPlan ==
    /\ mode = "update" /\ pc = "plan" /\ locals # <<>>
    /\ locals' = Tail(locals)
    /\ LET f == Head(locals)
           new == ResolveBasename(f)
       IN \/ todo' = todo /\ Fault
          \/ /\ todo' = IF UpToDate(f, new) \/ AlreadyThere(new)
                          THEN todo
                          ELSE Append(todo, Item(f, new, "none"))
             /\ UNCHANGED faults
    /\ UNCHANGED <<catalog, diskVars, stateVars, mode, pc, item>>

\* kiwix_fetch_new.main, up to the plan: read_wanted and load_state.
ReadWanted ==
    /\ mode = "off" /\ Wanted # {}
    /\ mode' = "fetch" /\ pc' = "plan" /\ todo' = <<>>
    /\ locals' \in SetToSeqs({<<s>> : s \in Wanted})
    /\ UNCHANGED <<catalog, diskVars, stateVars, item, faults>>

\* What fetch_meta4_info learns of a file: its size, and its hash if published.
Sidecar(f, meta) ==
    \/ meta = (IF f \in Unhashed THEN "size" ELSE "sha") /\ UNCHANGED faults
    \/ meta = "none" /\ Fault

\* The length a finished download must have, 0 when nothing says.
ExpectedSize(new, meta) == IF meta = "none" THEN Listed[new] ELSE Size

\* resolve_by_name: of the entries of the series, the newest.
ResolveByName(s) == <<s, catalog[s]>>

\* resolve_all, one name: the sidecar is read at once.
ResolveAll ==
    /\ mode = "fetch" /\ pc = "plan" /\ locals # <<>>
    /\ locals' = Tail(locals)
    /\ LET new == ResolveByName(Head(locals)[1])
       IN \/ todo' = todo /\ Fault
          \/ \E meta \in {"none", "size", "sha"} :
                /\ Sidecar(new, meta)
                /\ todo' = IF Held(new) /\ ExpectedSize(new, meta) = Size
                             THEN todo
                             ELSE Append(todo, Item(NoFile, new, meta))
    /\ UNCHANGED <<catalog, diskVars, stateVars, mode, pc, item>>

\* The length an item is sorted by; unknown lengths come last.
SortLength(i) ==
    LET length == ExpectedSize(i.new, i.meta) IN
    IF length = 0 THEN Size + 2 ELSE length

\* Shortest first; the sort is stable, so there is one such order.
Sorted(items) ==
    LET shorter(i, j) ==
            \/ SortLength(items[i]) < SortLength(items[j])
            \/ SortLength(items[i]) = SortLength(items[j]) /\ i < j
        orders == {p \in SetToSeqs(1..Len(items)) :
                      \A i, j \in 1..Len(items) : i < j => shorter(p[i], p[j])}
    IN {[i \in 1..Len(items) |-> items[p[i]]] : p \in orders}

\* main, after the plan: the order of the downloads, and load_state.
PlanDone ==
    /\ mode \in {"update", "fetch"} /\ pc = "plan" /\ locals = <<>>
    /\ todo' \in Sorted(todo) /\ pc' = "next"
    /\ IF mode = "update" THEN LoadState ELSE UNCHANGED <<state, faults>>
    /\ UNCHANGED <<catalog, diskVars, stored, mode, locals, item>>

-----------------------------------------------------------------------------
(* process_download and process_item *)

\* The item is begun: the updater records it, with the file it replaces.  What an
\* earlier item of the series recorded of its move stays.
BeginItem ==
    /\ pc = "next" /\ mode \in {"update", "fetch"} /\ todo # <<>>
    /\ item' = Head(todo) /\ todo' = Tail(todo) /\ pc' = "space"
    /\ LET new == Head(todo).new IN
       IF mode = "update"
         THEN UpdateState(new[1], [status |-> "downloading", old |-> Head(todo).old,
                                   new |-> new, move |-> state[new[1]].move])
         ELSE UNCHANGED stateVars
    /\ UNCHANGED <<catalog, diskVars, mode, locals, faults>>

\* The item is over.
ItemEnds(status) ==
    /\ item' = NoItem /\ pc' = "next"
    /\ Note(status)
    /\ UNCHANGED <<catalog, mode, planVars>>

\* The free space is looked at once, before the download.
FreeSpace ==
    /\ pc = "space"
    /\ \/ pc' = "curl" /\ UNCHANGED <<catalog, stateVars, mode, planVars, item, faults>>
       \/ ItemEnds("skipped_no_space") /\ Fault
    /\ UNCHANGED diskVars

\* curl -C -: a chunk is added to what the part file holds, and may be damaged.
CurlChunk ==
    /\ pc = "curl" /\ part[item.new].chunks < Size
    /\ \E intact \in BOOLEAN :
          /\ part' = [part EXCEPT ![item.new] =
                        [chunks |-> @.chunks + 1, intact |-> @.intact /\ intact]]
          /\ IF intact THEN UNCHANGED faults ELSE Fault
    /\ UNCHANGED <<catalog, library, archive, unchecked, stateVars, mode, pc, planVars, item>>

\* curl succeeds when there is nothing left to fetch.
CurlDone ==
    /\ pc = "curl" /\ part[item.new].chunks = Size
    /\ pc' = "verify"
    /\ UNCHANGED <<catalog, diskVars, stateVars, mode, planVars, item, faults>>

\* Every attempt failed; the part file stays.
CurlFails ==
    /\ pc = "curl"
    /\ ItemEnds("error") /\ Fault
    /\ UNCHANGED diskVars

\* Mutant: a hash that differs is only logged.
SizeVerified(new, meta) == ExpectedSize(new, meta) \in {0, part[new].chunks}

\* Mutant: the length the catalog lists is taken for the size.
VerifiedByListing(new, meta) ==
    /\ Listed[new] \in {0, part[new].chunks}
    /\ meta = "sha" => part[new].intact

\* The part file has the size expected, and the hash, as far as they are known.
Verified(new, meta) ==
    /\ ExpectedSize(new, meta) \in {0, part[new].chunks}
    /\ meta = "sha" => part[new].intact

\* The updater reads the sidecar now, the fetcher has read it already or tries again.
Verify ==
    /\ pc = "verify"
    /\ \E meta \in {"none", "size", "sha"} :
          /\ IF item.meta = "none" THEN Sidecar(item.new, meta)
                                   ELSE meta = item.meta /\ UNCHANGED faults
          /\ IF Verified(item.new, meta)
               THEN /\ pc' = "rename" /\ item' = [item EXCEPT !.meta = meta]
                    /\ UNCHANGED <<catalog, stateVars, mode, planVars>>
               ELSE ItemEnds("error")
    /\ UNCHANGED diskVars

\* os.replace: the part file takes the place of the file.
Rename ==
    /\ pc = "rename"
    /\ LET f == item.new IN
       /\ library' = [library EXCEPT ![f] = IF part[f].intact THEN "good" ELSE "bad"]
       /\ part' = [part EXCEPT ![f] = NoPart]
       /\ unchecked' = IF item.meta = "sha" THEN unchecked \ {f} ELSE unchecked \cup {f}
    /\ pc' = IF item.old = NoFile THEN "record" ELSE "move"
    /\ UNCHANGED <<catalog, archive, stateVars, mode, planVars, item, faults>>

\* Mutant: the move is a deletion.
Unlinked(f, outcome) ==
    \/ outcome = "missing" /\ ~Held(f) /\ UNCHANGED <<library, archive>>
    \/ outcome = "move_deferred" /\ Held(f) /\ UNCHANGED <<library, archive>>
    \/ /\ outcome = "moved" /\ Held(f)
       /\ library' = [library EXCEPT ![f] = "none"]
       /\ archive' = archive

\* move_old_file: a file that is locked, or in the archive already, stays.
MoveOldFile(f, outcome) ==
    \/ outcome = "missing" /\ ~Held(f) /\ UNCHANGED <<library, archive>>
    \/ outcome = "move_deferred" /\ Held(f) /\ UNCHANGED <<library, archive>>
    \/ /\ outcome = "moved" /\ Held(f) /\ f \notin archive
       /\ library' = [library EXCEPT ![f] = "none"]
       /\ archive' = archive \cup {f}

\* The old file is moved away; what became of it is not on disk yet.
MoveOld ==
    /\ pc = "move"
    /\ \E outcome \in {"missing", "move_deferred", "moved"} :
          /\ MoveOldFile(item.old, outcome)
          /\ item' = [item EXCEPT !.move = outcome]
    /\ pc' = "record"
    /\ UNCHANGED <<catalog, part, unchecked, stateVars, mode, planVars, faults>>

\* The item is complete.
Record ==
    /\ pc = "record"
    /\ item' = NoItem /\ pc' = "next"
    /\ IF mode = "update"
         THEN LET s == item.new[1] IN
              UpdateState(s, [state[s] EXCEPT !.status = "complete", !.move = item.move])
         ELSE UNCHANGED stateVars
    /\ UNCHANGED <<catalog, diskVars, mode, planVars, faults>>

\* main: an exception ends the item, never the run.
ItemRaises ==
    /\ pc \in {"space", "curl", "verify", "rename", "move"}
    /\ ItemEnds("error") /\ Fault
    /\ UNCHANGED diskVars

-----------------------------------------------------------------------------
(* --retry-moves *)

RetryMoves ==
    /\ mode = "off"
    /\ mode' = "retry" /\ pc' = "moves"
    /\ locals' \in SetToSeqs({<<s>> : s \in Series})
    /\ LoadState
    /\ UNCHANGED <<catalog, diskVars, stored, todo, item>>

\* retry_deferred_moves, one entry: if its move was put off, the file it names as old.
RetryDeferredMove ==
    /\ pc = "moves" /\ locals # <<>>
    /\ locals' = Tail(locals)
    /\ LET s == Head(locals)[1] IN
       IF state[s].move = "move_deferred" /\ state[s].old # NoFile
         THEN \E outcome \in {"missing", "move_deferred", "moved"} :
                 /\ MoveOldFile(state[s].old, outcome)
                 /\ state' = [state EXCEPT ![s].move = outcome]
                 /\ pc' = "save"
         ELSE UNCHANGED <<library, archive, state, pc>>
    /\ UNCHANGED <<catalog, part, unchecked, stored, mode, todo, item, faults>>

\* ... and save_state, once the file has been moved.
SaveMove ==
    /\ pc = "save" /\ pc' = "moves" /\ stored' = state
    /\ UNCHANGED <<catalog, diskVars, state, mode, planVars, item, faults>>

-----------------------------------------------------------------------------
(* The run and its surroundings *)

RunOver ==
    /\ mode' = "off" /\ pc' = "off" /\ state' = Blank
    /\ locals' = <<>> /\ todo' = <<>> /\ item' = NoItem
    /\ UNCHANGED <<catalog, diskVars, stored>>

\* The run has done its items, or retried its moves.
Finish ==
    /\ \/ pc = "next" /\ todo = <<>>
       \/ pc = "moves" /\ locals = <<>>
    /\ RunOver
    /\ UNCHANGED faults

\* Ctrl-C, --limit or a crash: what is on disk stays.
Interrupted ==
    /\ mode # "off"
    /\ RunOver
    /\ Fault

\* Kiwix publishes the next release of a series.
Publish(s) ==
    /\ catalog[s] < MaxRelease
    /\ catalog' = [catalog EXCEPT ![s] = @ + 1]
    /\ UNCHANGED <<diskVars, stateVars, mode, pc, planVars, item, faults>>

\* process_download: the updater's item, from the download to the old file's move.
ProcessDownload ==
    /\ mode = "update"
    /\ BeginItem \/ FreeSpace \/ CurlChunk \/ CurlDone \/ CurlFails \/ Verify \/ Rename
       \/ MoveOld \/ Record

\* process_item: the fetcher's, which replaces no file.
ProcessItem ==
    /\ mode = "fetch"
    /\ BeginItem \/ FreeSpace \/ CurlChunk \/ CurlDone \/ CurlFails \/ Verify \/ Rename
       \/ Record

\* What a run does, a step after another.
Progress ==
    \/ BuildPlan \/ ResolveAll \/ PlanDone
    \/ ProcessDownload \/ ProcessItem \/ ItemRaises
    \/ RetryDeferredMove \/ SaveMove
    \/ Finish

Next ==
    \/ \E only \in SUBSET Series : ScanLocal(only)
    \/ ReadWanted \/ RetryMoves
    \/ Progress
    \/ Interrupted
    \/ \E s \in Series : Publish(s)

\* The updater is run again and again, over the whole library.
Fairness ==
    /\ SF_vars(ScanLocal(Series))
    /\ WF_vars(Progress)

Spec == Init /\ [][Next]_vars /\ Fairness

-----------------------------------------------------------------------------
(* Properties *)

Entry == [status : {"none", "downloading", "skipped_no_space", "error", "complete"},
          old : Files \cup {NoFile}, new : Files \cup {NoFile},
          move : {"none", "missing", "move_deferred", "moved"}]

Items == [old : Files \cup {NoFile}, new : Files, meta : {"none", "size", "sha"},
          move : {"missing", "move_deferred", "moved"}]

\* The shape of every variable: an item is in hand exactly between the plan and the
\* next item, and a run is of one kind from its start to its end.
TypeOK ==
    /\ catalog \in [Series -> Releases]
    /\ library \in [Files -> {"none", "good", "bad"}]
    /\ archive \subseteq Files /\ unchecked \subseteq Files
    /\ part \in [Files -> [chunks : 0..Size, intact : BOOLEAN]]
    /\ stored \in [Series -> Entry] /\ state \in [Series -> Entry]
    /\ mode \in {"off", "update", "fetch", "retry"}
    /\ pc \in {"off", "plan", "next", "space", "curl", "verify", "rename", "move",
               "record", "moves", "save"}
    /\ locals \in Seq(IF mode = "update" THEN Files ELSE {<<s>> : s \in Series})
    /\ todo \in Seq(Items)
    /\ item \in IF pc \in {"off", "plan", "next", "moves", "save"} THEN {NoItem} ELSE Items
    /\ pc = "move" => item.old # NoFile
    /\ mode = "off" <=> pc = "off"
    /\ mode = "retry" <=> pc \in {"moves", "save"}
    /\ faults \in 0..MaxFaults

Shelved(s) == \E r \in Releases : Held(<<s, r>>)

\* The library never loses its last release of a series, wherever a run stops, but in one
\* way: --retry-moves reads the entry of an update that has begun and not completed, whose
\* old file is the release in use and whose put-off move is that of an update before it.
LastReleaseStays ==
    [][\A s \in Series : Shelved(s) /\ ~Shelved(s)' =>
          mode = "retry" /\ state[s].status # "complete"]_vars

\* A damaged file gets into the library only where no hash was there to compare.
HashedFilesGood == \A f \in Files : library[f] = "bad" => f \in unchecked

\* "Never delete anything": a file leaves the library only for the archive, and the
\* archive keeps it.
NothingDeleted ==
    [][\A f \in Files : Held(f) \/ f \in archive => Held(f)' \/ f \in archive']_vars

\* The library has the newest release of a series, by its month.
Current(s) == \E r \in Releases : Held(<<s, r>>) /\ Month[r] = Month[catalog[s]]

\* The part file of the newest release is complete and damaged: curl finds nothing
\* to fetch, the hash never matches, and no run deletes it.
Stuck(s) ==
    LET f == <<s, catalog[s]>> IN
    part[f].chunks = Size /\ ~part[f].intact /\ f \notin Unhashed

Tracked(s) == \E r \in Releases : Held(<<s, r>>) /\ Dated(<<s, r>>)

\* Run often enough, the updater brings every series it sees up to date, but for a
\* damaged part file.
Converges == \A s \in Series : <>[](Tracked(s) => Current(s) \/ Stuck(s))

\* The script's outline, step 4: a file is moved away once the download of a newer one
\* has been verified and renamed.
OldLeavesAfterNew ==
    [][\A f \in Files : Held(f) /\ ~Held(f)' =>
          \E g \in Files : g[1] = f[1] /\ g[2] > f[2] /\ Held(g)']_vars

=============================================================================
