---------------------------- MODULE ZimUpdateProofs ----------------------------
(***************************************************************************)
(* What the updater keeps for any library, any catalog and any number of   *)
(* faults: the shape of its state, that it deletes nothing, and that only  *)
(* what its hash has been compared with gets into the library.             *)
(***************************************************************************)
EXTENDS ZimUpdate, FiniteSetTheorems, SequenceTheorems, TLAPS

Busy == {"space", "curl", "verify", "rename", "move", "record"}

-----------------------------------------------------------------------------
(* Lists *)

\* A function on 1..n is a sequence.
LEMMA FcnIsSeq ==
  ASSUME NEW S, NEW n \in Nat, NEW f \in [1..n -> S]
  PROVE  f \in Seq(S)
  BY SeqDef, Zenon

\* A sequence over a set is one over a larger set.
LEMMA SeqGrows ==
  ASSUME NEW S, NEW T, S \subseteq T, NEW s \in Seq(S)
  PROVE  s \in Seq(T)
<1>1. Len(s) \in Nat /\ s \in [1..Len(s) -> S]
  BY LenProperties, ElementOfSeq
<1>2. s \in [1..Len(s) -> T]
  BY <1>1
<1> QED
  BY <1>1, <1>2, FcnIsSeq

\* An enumeration of a finite set is a sequence over it.
LEMMA SetToSeqsType ==
  ASSUME NEW S, IsFiniteSet(S), NEW order \in SetToSeqs(S)
  PROVE  order \in Seq(S)
<1>1. Cardinality(S) \in Nat
  BY FS_CardinalityType
<1>2. order \in [1..Cardinality(S) -> S]
  BY DEF SetToSeqs
<1> QED
  BY <1>1, <1>2, FcnIsSeq

\* The tail of a sequence that is not empty is one over the same set, and its head is
\* in the set.
LEMMA TailType ==
  ASSUME NEW S, NEW s \in Seq(S), s # <<>>
  PROVE  Head(s) \in S /\ Tail(s) \in Seq(S)
  BY HeadTailProperties

\* The files of a set of series can be listed.
LEMMA FilesFinite ==
  ASSUME NEW only \in SUBSET Series
  PROVE  IsFiniteSet(only \X Releases)
<1>1. IsFiniteSet(only)
  BY FS_Subset, ZimUpdateAssumption
<1>2. IsFiniteSet(Releases)
  BY FS_Interval, ZimUpdateAssumption DEF Releases
<1> QED
  BY <1>1, <1>2, FS_Product

\* So can their names, one to a list.
LEMMA NamesFinite ==
  ASSUME NEW S \in SUBSET Series
  PROVE  IsFiniteSet({<<s>> : s \in S})
<1>1. IsFiniteSet(S)
  BY FS_Subset, ZimUpdateAssumption
<1> DEFINE name == [s \in S |-> <<s>>]
<1>2. name \in Surjection(S, {<<s>> : s \in S})
  BY DEF Surjection
<1> QED
  BY <1>1, <1>2, FS_Surjection

\* Sorting the plan keeps its items.
LEMMA SortedType ==
  ASSUME NEW S, NEW items \in Seq(S), NEW order \in Sorted(items)
  PROVE  order \in Seq(S)
<1>1. PICK p \in SetToSeqs(1..Len(items)) : order = [i \in 1..Len(items) |-> items[p[i]]]
  BY DEF Sorted
<1>2. Len(items) \in Nat /\ \A i \in 1..Len(items) : items[i] \in S
  BY LenProperties, ElementOfSeq
<1>3. Cardinality(1..Len(items)) = Len(items)
  BY <1>2, FS_Interval
<1>4. p \in [1..Len(items) -> 1..Len(items)]
  BY <1>1, <1>3 DEF SetToSeqs
<1>5. order \in [1..Len(items) -> S]
  BY <1>1, <1>2, <1>4
<1> QED
  BY <1>2, <1>5, FcnIsSeq

-----------------------------------------------------------------------------
(* The shape of the state *)

StateTypes == stored \in [Series -> Entry] /\ state \in [Series -> Entry]
DiskTypes ==
    /\ library \in [Files -> {"none", "good", "bad"}]
    /\ archive \subseteq Files /\ unchecked \subseteq Files
    /\ part \in [Files -> [chunks : 0..Size, intact : BOOLEAN]]

\* No entry is one, and so is an entry with another status or outcome of its move.
LEMMA EntryType ==
  /\ Blank \in [Series -> Entry]
  /\ \A e \in Entry : /\ \A st \in {"skipped_no_space", "error", "complete"} :
                            [e EXCEPT !.status = st] \in Entry
                       /\ \A m \in {"missing", "move_deferred", "moved"} :
                            /\ [e EXCEPT !.move = m] \in Entry
                            /\ [e EXCEPT !.status = "complete", !.move = m] \in Entry
  BY DEF Blank, NoEntry, Entry

\* A fault is counted up to its bound.
LEMMA FaultType ==
  ASSUME faults \in 0..MaxFaults, Fault \/ UNCHANGED faults
  PROVE  faults' \in 0..MaxFaults
  BY ZimUpdateAssumption DEF Fault

\* load_state reads what was stored, or nothing.
LEMMA LoadStateType ==
  ASSUME TypeOK, LoadState
  PROVE  state' \in [Series -> Entry] /\ faults' \in 0..MaxFaults
  BY EntryType, FaultType DEF TypeOK, LoadState

\* save_state stores the entries the run has.
LEMMA UpdateStateType ==
  ASSUME TypeOK, NEW s \in Series, NEW entry \in Entry, UpdateState(s, entry)
  PROVE  StateTypes'
  BY DEF TypeOK, UpdateState, StateTypes

\* An item ends with the outcome recorded.
LEMMA ItemEndsType ==
  ASSUME TypeOK, pc \in Busy, NEW st \in {"skipped_no_space", "error", "complete"},
         ItemEnds(st), UNCHANGED diskVars, Fault \/ UNCHANGED faults
  PROVE  TypeOK'
<1>1. item \in Items
  BY DEF TypeOK, Busy
<1>2. item.new[1] \in Series
  BY <1>1 DEF Items, Files
<1>3. StateTypes'
  <2>1. CASE mode = "update"
    <3>1. [state[item.new[1]] EXCEPT !.status = st] \in Entry
      BY <1>2, EntryType DEF TypeOK
    <3> QED
      BY <2>1, <3>1, <1>2, UpdateStateType DEF ItemEnds, Note
  <2>2. CASE mode # "update"
    BY <2>2 DEF ItemEnds, Note, stateVars, TypeOK, StateTypes
  <2> QED
    BY <2>1, <2>2
<1>4. faults' \in 0..MaxFaults
  BY FaultType DEF TypeOK
<1> QED
  BY <1>3, <1>4 DEF TypeOK, Busy, ItemEnds, planVars, diskVars, StateTypes

\* Planning lists files, or names from the wanted list, and plans items for them.
LEMMA PlanningKeepsType ==
  ASSUME TypeOK,
         \/ \E only \in SUBSET Series : ScanLocal(only)
         \/ ReadWanted \/ RetryMoves \/ BuildPlan \/ ResolveAll \/ PlanDone
  PROVE  TypeOK'
<1>1. ASSUME NEW only \in SUBSET Series, ScanLocal(only) PROVE TypeOK'
  <2> DEFINE found == {f \in only \X Releases : Held(f) /\ Dated(f)}
  <2>1. found \in SUBSET Files
    BY DEF Files
  <2>2. IsFiniteSet(found)
    BY FilesFinite, FS_Subset
  <2>3. PICK order \in SetToSeqs(found) : locals' = order
    BY <1>1 DEF ScanLocal
  <2>4. order \in Seq(found)
    BY <2>2, <2>3, SetToSeqsType
  <2>5. locals' \in Seq(Files)
    BY <2>1, <2>3, <2>4, SeqGrows
  <2> QED
    BY <1>1, <2>5, EmptySeq DEF ScanLocal, TypeOK, diskVars, stateVars
<1>2. CASE ReadWanted
  <2>1. Wanted \in SUBSET Series
    BY ZimUpdateAssumption
  <2>2. locals' \in Seq({<<s>> : s \in Wanted})
    BY <1>2, <2>1, NamesFinite, SetToSeqsType DEF ReadWanted
  <2>3. {<<s>> : s \in Wanted} \subseteq {<<s>> : s \in Series}
    BY <2>1
  <2>4. locals' \in Seq({<<s>> : s \in Series})
    BY <2>2, <2>3, SeqGrows
  <2> QED
    BY <1>2, <2>4, EmptySeq DEF ReadWanted, TypeOK, diskVars, stateVars
<1>3. CASE RetryMoves
  <2>1. locals' \in Seq({<<s>> : s \in Series})
    BY <1>3, NamesFinite, SetToSeqsType DEF RetryMoves
  <2> QED
    BY <1>3, <2>1, LoadStateType DEF RetryMoves, TypeOK, diskVars
<1>4. CASE BuildPlan
  <2>1. locals \in Seq(Files)
    BY <1>4 DEF BuildPlan, TypeOK
  <2>2. Head(locals) \in Files /\ Tail(locals) \in Seq(Files)
    BY <1>4, <2>1, TailType DEF BuildPlan
  <2>3. ResolveBasename(Head(locals)) \in Files
    BY <2>2 DEF ResolveBasename, Files, TypeOK
  <2>4. Item(Head(locals), ResolveBasename(Head(locals)), "none") \in Items
    BY <2>2, <2>3 DEF Item, NoItem, Items
  <2>5. todo' \in Seq(Items)
    <3> DEFINE new == Item(Head(locals), ResolveBasename(Head(locals)), "none")
    <3>1. todo' = todo \/ todo' = Append(todo, new)
      BY <1>4 DEF BuildPlan
    <3>2. todo \in Seq(Items)
      BY DEF TypeOK
    <3>3. Append(todo, new) \in Seq(Items)
      BY <2>4, <3>2, AppendProperties
    <3> QED
      BY <3>1, <3>2, <3>3
  <2>6. faults' \in 0..MaxFaults
    BY <1>4, FaultType DEF BuildPlan, TypeOK
  <2> QED
    BY <1>4, <2>2, <2>5, <2>6 DEF BuildPlan, TypeOK, diskVars, stateVars
<1>5. CASE ResolveAll
  <2>1. locals \in Seq({<<s>> : s \in Series})
    BY <1>5 DEF ResolveAll, TypeOK
  <2>2. Head(locals) \in {<<s>> : s \in Series} /\ Tail(locals) \in Seq({<<s>> : s \in Series})
    BY <1>5, <2>1, TailType DEF ResolveAll
  <2>3. ResolveByName(Head(locals)[1]) \in Files
    BY <2>2 DEF ResolveByName, Files, TypeOK
  <2>4. \A meta \in {"none", "size", "sha"} :
           Item(NoFile, ResolveByName(Head(locals)[1]), meta) \in Items
    BY <2>3 DEF Item, NoItem, Items
  <2>5. todo' \in Seq(Items)
    <3>1. PICK meta \in {"none", "size", "sha"} :
            \/ todo' = todo
            \/ todo' = Append(todo, Item(NoFile, ResolveByName(Head(locals)[1]), meta))
      BY <1>5 DEF ResolveAll
    <3> DEFINE new == Item(NoFile, ResolveByName(Head(locals)[1]), meta)
    <3>2. todo \in Seq(Items)
      BY DEF TypeOK
    <3>3. Append(todo, new) \in Seq(Items)
      BY <2>4, <3>2, AppendProperties
    <3> QED
      BY <3>1, <3>2, <3>3
  <2>6. faults' \in 0..MaxFaults
    BY <1>5, FaultType DEF ResolveAll, Sidecar, TypeOK
  <2> QED
    BY <1>5, <2>2, <2>5, <2>6 DEF ResolveAll, TypeOK, diskVars, stateVars
<1>6. CASE PlanDone
  <2>1. todo' \in Seq(Items)
    BY <1>6, SortedType DEF PlanDone, TypeOK
  <2>2. state' \in [Series -> Entry] /\ faults' \in 0..MaxFaults
    BY <1>6, LoadStateType DEF PlanDone, TypeOK
  <2> QED
    BY <1>6, <2>1, <2>2 DEF PlanDone, TypeOK, diskVars
<1> QED
  BY <1>1, <1>2, <1>3, <1>4, <1>5, <1>6

\* The steps of process_download and process_item.
LEMMA ItemKeepsType ==
  ASSUME TypeOK, ProcessDownload \/ ProcessItem \/ ItemRaises
  PROVE  TypeOK'
<1>1. CASE BeginItem
  <2>1. Head(todo) \in Items /\ Tail(todo) \in Seq(Items)
    BY <1>1, TailType DEF BeginItem, TypeOK
  <2>2. Head(todo).new[1] \in Series
    BY <2>1 DEF Items, Files
  <2>3. [status |-> "downloading", old |-> Head(todo).old, new |-> Head(todo).new,
         move |-> state[Head(todo).new[1]].move] \in Entry
    BY <2>1, <2>2 DEF Items, Entry, TypeOK
  <2>4. StateTypes'
    <3>1. CASE mode = "update"
      BY <1>1, <3>1, <2>2, <2>3, UpdateStateType DEF BeginItem
    <3>2. CASE mode # "update"
      BY <1>1, <3>2 DEF BeginItem, stateVars, TypeOK, StateTypes
    <3> QED
      BY <3>1, <3>2
  <2> QED
    BY <1>1, <2>1, <2>4 DEF BeginItem, TypeOK, diskVars, StateTypes
<1>2. CASE FreeSpace
  <2>1. CASE pc' = "curl" /\ UNCHANGED <<catalog, stateVars, mode, planVars, item, faults>>
    BY <1>2, <2>1 DEF FreeSpace, TypeOK, diskVars, stateVars, planVars
  <2>2. CASE ItemEnds("skipped_no_space") /\ Fault
    BY <1>2, <2>2, ItemEndsType DEF FreeSpace, Busy
  <2> QED
    BY <1>2, <2>1, <2>2 DEF FreeSpace
<1>3. CASE CurlChunk
  <2>1. item \in Items
    BY <1>3 DEF CurlChunk, TypeOK
  <2>2. part[item.new] \in [chunks : 0..Size, intact : BOOLEAN]
    BY <2>1 DEF Items, TypeOK
  <2>3. PICK intact \in BOOLEAN :
           part' = [part EXCEPT ![item.new] =
                        [chunks |-> @.chunks + 1, intact |-> @.intact /\ intact]]
    BY <1>3 DEF CurlChunk
  <2>4. part[item.new].chunks + 1 \in 0..Size
    BY <1>3, <2>2, ZimUpdateAssumption DEF CurlChunk
  <2>5. (part[item.new].intact /\ intact) \in BOOLEAN
    OBVIOUS
  <2>6. part' \in [Files -> [chunks : 0..Size, intact : BOOLEAN]]
    BY <2>3, <2>4, <2>5 DEF TypeOK
  <2>7. faults' \in 0..MaxFaults
    BY <1>3, FaultType DEF CurlChunk, TypeOK
  <2> QED
    BY <1>3, <2>6, <2>7 DEF CurlChunk, TypeOK, stateVars, planVars
<1>4. CASE CurlDone
  BY <1>4 DEF CurlDone, TypeOK, diskVars, stateVars, planVars
<1>5. CASE CurlFails
  BY <1>5, ItemEndsType DEF CurlFails, Busy
<1>6. CASE Verify
  <2>1. PICK meta \in {"none", "size", "sha"} :
          /\ IF item.meta = "none" THEN Sidecar(item.new, meta)
                                   ELSE meta = item.meta /\ UNCHANGED faults
          /\ IF Verified(item.new, meta)
               THEN /\ pc' = "rename" /\ item' = [item EXCEPT !.meta = meta]
                    /\ UNCHANGED <<catalog, stateVars, mode, planVars>>
               ELSE ItemEnds("error")
    BY <1>6 DEF Verify
  <2>2. Fault \/ UNCHANGED faults
    BY <2>1 DEF Sidecar
  <2>3. CASE Verified(item.new, meta)
    <3>1. item \in Items
      BY <1>6 DEF Verify, TypeOK
    <3>2. item' \in Items
      BY <2>1, <2>3, <3>1 DEF Items
    <3>3. faults' \in 0..MaxFaults
      BY <2>2, FaultType DEF TypeOK
    <3> QED
      BY <1>6, <2>1, <2>3, <3>2, <3>3 DEF Verify, TypeOK, diskVars, stateVars, planVars
  <2>4. CASE ~Verified(item.new, meta)
    BY <1>6, <2>1, <2>2, <2>4, ItemEndsType DEF Verify, Busy
  <2> QED
    BY <2>3, <2>4
<1>7. CASE Rename
  <2>1. item \in Items
    BY <1>7 DEF Rename, TypeOK
  <2>2. item.new \in Files
    BY <2>1 DEF Items
  <2>3. NoPart \in [chunks : 0..Size, intact : BOOLEAN]
    BY ZimUpdateAssumption DEF NoPart
  <2>4. DiskTypes'
    BY <1>7, <2>2, <2>3 DEF Rename, TypeOK, DiskTypes
  <2>5. pc' \in {"record", "move"}
    BY <1>7 DEF Rename
  <2> QED
    BY <1>7, <2>1, <2>4, <2>5 DEF Rename, TypeOK, DiskTypes, stateVars, planVars
<1>8. CASE MoveOld
  <2>1. item \in Items
    BY <1>8 DEF MoveOld, TypeOK
  <2>2. PICK outcome \in {"missing", "move_deferred", "moved"} :
          MoveOldFile(item.old, outcome) /\ item' = [item EXCEPT !.move = outcome]
    BY <1>8 DEF MoveOld
  <2>3. item' \in Items
    BY <2>1, <2>2 DEF Items
  <2>4. item.old \in Files
    BY <1>8, <2>1 DEF MoveOld, TypeOK, Items
  <2>5. library' \in [Files -> {"none", "good", "bad"}] /\ archive' \subseteq Files
    BY <2>2, <2>4 DEF MoveOldFile, TypeOK
  <2> QED
    BY <1>8, <2>3, <2>5 DEF MoveOld, TypeOK, stateVars, planVars
<1>9. CASE Record
  <2>1. item \in Items
    BY <1>9 DEF Record, TypeOK
  <2>2. item.new[1] \in Series /\ item.move \in {"missing", "move_deferred", "moved"}
    BY <2>1 DEF Items, Files
  <2>3. [state[item.new[1]] EXCEPT !.status = "complete", !.move = item.move] \in Entry
    BY <2>2, EntryType DEF TypeOK
  <2>4. StateTypes'
    <3>1. CASE mode = "update"
      BY <1>9, <3>1, <2>2, <2>3, UpdateStateType DEF Record
    <3>2. CASE mode # "update"
      BY <1>9, <3>2 DEF Record, stateVars, TypeOK, StateTypes
    <3> QED
      BY <3>1, <3>2
  <2> QED
    BY <1>9, <2>4 DEF Record, TypeOK, diskVars, planVars, StateTypes
<1>10. CASE ItemRaises
  BY <1>10, ItemEndsType DEF ItemRaises, Busy
<1> QED
  BY <1>1, <1>2, <1>3, <1>4, <1>5, <1>6, <1>7, <1>8, <1>9, <1>10
     DEF ProcessDownload, ProcessItem

\* The end of a run, its retried moves, and the catalog.
LEMMA RunKeepsType ==
  ASSUME TypeOK,
         \/ RetryDeferredMove \/ SaveMove
         \/ Finish \/ Interrupted \/ \E s \in Series : Publish(s)
  PROVE  TypeOK'
<1>1. CASE RetryDeferredMove
  <2>1. mode # "update"
    BY <1>1 DEF RetryDeferredMove, TypeOK
  <2>2. Head(locals) \in {<<s>> : s \in Series} /\ Tail(locals) \in Seq({<<s>> : s \in Series})
    BY <1>1, <2>1, TailType DEF RetryDeferredMove, TypeOK
  <2>3. PICK s \in Series : s = Head(locals)[1]
    BY <2>2
  <2>4. CASE state[s].move = "move_deferred" /\ state[s].old # NoFile
    <3>1. PICK outcome \in {"missing", "move_deferred", "moved"} :
            /\ MoveOldFile(state[s].old, outcome)
            /\ state' = [state EXCEPT ![s].move = outcome]
            /\ pc' = "save"
      BY <1>1, <2>3, <2>4 DEF RetryDeferredMove
    <3>2. state[s] \in Entry
      BY DEF TypeOK
    <3>3. state[s].old \in Files
      BY <2>4, <3>2 DEF Entry
    <3>4. library' \in [Files -> {"none", "good", "bad"}] /\ archive' \subseteq Files
      BY <3>1, <3>3 DEF MoveOldFile, TypeOK
    <3>5. [state[s] EXCEPT !.move = outcome] \in Entry
      BY <3>2, EntryType
    <3>6. state' \in [Series -> Entry]
      BY <3>1, <3>5 DEF TypeOK
    <3> QED
      BY <1>1, <2>1, <2>2, <3>1, <3>4, <3>6 DEF RetryDeferredMove, TypeOK
  <2>5. CASE ~(state[s].move = "move_deferred" /\ state[s].old # NoFile)
    BY <1>1, <2>1, <2>2, <2>3, <2>5 DEF RetryDeferredMove, TypeOK, stateVars
  <2> QED
    BY <2>4, <2>5
<1>2. ASSUME RunOver, Fault \/ UNCHANGED faults PROVE TypeOK'
  <2>1. faults' \in 0..MaxFaults
    BY <1>2, FaultType DEF TypeOK
  <2>2. <<>> \in Seq(Items) /\ <<>> \in Seq({<<s>> : s \in Series})
    BY EmptySeq
  <2> QED
    BY <1>2, <2>1, <2>2, EntryType DEF RunOver, TypeOK, diskVars
<1>3. CASE Finish \/ Interrupted
  BY <1>2, <1>3 DEF Finish, Interrupted
<1>4. ASSUME NEW s \in Series, Publish(s) PROVE TypeOK'
  <2>1. catalog' \in [Series -> Releases]
    BY <1>4, ZimUpdateAssumption DEF Publish, TypeOK, Releases
  <2> QED
    BY <1>4, <2>1 DEF Publish, TypeOK, diskVars, stateVars, planVars
<1>5. CASE SaveMove
  BY <1>5 DEF SaveMove, TypeOK, diskVars, planVars
<1> QED
  BY <1>1, <1>3, <1>4, <1>5

\* Every step keeps the shape of the state.
LEMMA NextKeepsType ==
  ASSUME TypeOK, [Next]_vars
  PROVE  TypeOK'
<1>1. CASE Next
  BY <1>1, PlanningKeepsType, ItemKeepsType, RunKeepsType DEF Next, Progress
<1>2. CASE UNCHANGED vars
  BY <1>2 DEF vars, TypeOK, diskVars, stateVars, planVars
<1> QED
  BY <1>1, <1>2

\* At the start the library has the series it is said to have, and there is no run.
LEMMA InitHasType ==
  ASSUME Init
  PROVE  TypeOK
<1>1. 1 \in Releases /\ NoPart \in [chunks : 0..Size, intact : BOOLEAN] /\ 0 \in 0..MaxFaults
  BY ZimUpdateAssumption DEF Releases, NoPart
<1>2. <<>> \in Seq(Items) /\ <<>> \in Seq({<<s>> : s \in Series})
  BY EmptySeq
<1> QED
  BY <1>1, <1>2, EntryType DEF Init, TypeOK

\* Every variable has its shape, whatever the library, the catalog and the faults.
THEOREM TypeCorrect == Spec => []TypeOK
<1>1. Init => TypeOK
  BY InitHasType
<1>2. TypeOK /\ [Next]_vars => TypeOK'
  BY NextKeepsType
<1> QED
  BY <1>1, <1>2, PTL DEF Spec

-----------------------------------------------------------------------------
(* Nothing is deleted *)

\* A move takes a file to the archive, or leaves it where it is.
LEMMA MoveDeletesNothing ==
  ASSUME TypeOK, NEW g, NEW outcome, MoveOldFile(g, outcome), NEW f \in Files,
         Held(f) \/ f \in archive
  PROVE  Held(f)' \/ f \in archive'
  BY DEF TypeOK, MoveOldFile, Held

\* A step leaves every file in the library or in the archive that was in either.
LEMMA StepDeletesNothing ==
  ASSUME TypeOK, [Next]_vars, NEW f \in Files, Held(f) \/ f \in archive
  PROVE  Held(f)' \/ f \in archive'
<1>1. CASE Rename
  BY <1>1 DEF Rename, TypeOK, Held
<1>2. CASE MoveOld
  BY <1>2, MoveDeletesNothing DEF MoveOld
<1>3. CASE RetryDeferredMove
  <2>1. (UNCHANGED <<library, archive>>) \/ \E g, outcome : MoveOldFile(g, outcome)
    BY <1>3 DEF RetryDeferredMove
  <2> QED
    BY <2>1, MoveDeletesNothing DEF Held
<1>4. ASSUME UNCHANGED <<library, archive>> PROVE Held(f)' \/ f \in archive'
  BY <1>4 DEF Held
<1>5. CASE \/ \E only \in SUBSET Series : ScanLocal(only)
           \/ ReadWanted \/ RetryMoves \/ BuildPlan \/ ResolveAll \/ PlanDone
  BY <1>4, <1>5 DEF ScanLocal, ReadWanted, RetryMoves, BuildPlan, ResolveAll, PlanDone, diskVars
<1>6. CASE BeginItem \/ FreeSpace \/ CurlChunk \/ CurlDone \/ CurlFails \/ Verify
           \/ Record \/ ItemRaises
  BY <1>4, <1>6 DEF BeginItem, FreeSpace, CurlChunk, CurlDone, CurlFails, Verify, Record,
                    ItemRaises, diskVars
<1>7. CASE SaveMove \/ Finish \/ Interrupted \/ \E s \in Series : Publish(s)
  BY <1>4, <1>7 DEF SaveMove, Finish, Interrupted, RunOver, Publish, diskVars
<1>8. CASE UNCHANGED vars
  BY <1>4, <1>8 DEF vars, diskVars
<1> QED
  BY <1>1, <1>2, <1>3, <1>5, <1>6, <1>7, <1>8
     DEF Next, Progress, ProcessDownload, ProcessItem

\* "Never delete anything": for any library and any faults, a file leaves the library
\* only for the archive, and the archive keeps it.
THEOREM NothingDeletedHolds == Spec => NothingDeleted
<1>1. TypeOK /\ [Next]_vars =>
        [\A f \in Files : Held(f) \/ f \in archive => Held(f)' \/ f \in archive']_vars
  BY StepDeletesNothing
<1> QED
  BY <1>1, TypeCorrect, PTL DEF Spec, NothingDeleted

-----------------------------------------------------------------------------
(* What a hash was compared with *)

\* Between the comparison and the renaming nothing touches the part file.
ComparedIsIntact == pc = "rename" /\ item.meta = "sha" => part[item.new].intact

HashInv == HashedFilesGood /\ ComparedIsIntact

\* A step that renames nothing leaves the library without more damaged files.
LEMMA OtherStepsKeepHashed ==
  ASSUME TypeOK, HashedFilesGood, UNCHANGED unchecked,
         (UNCHANGED library) \/ \E g, outcome : MoveOldFile(g, outcome)
  PROVE  HashedFilesGood'
<1> SUFFICES ASSUME NEW f \in Files, library'[f] = "bad" PROVE f \in unchecked
  BY DEF HashedFilesGood
<1>1. library[f] = "bad"
  BY DEF MoveOldFile, TypeOK
<1> QED
  BY <1>1 DEF HashedFilesGood

\* A comparison is renamed or given up; every other step is at another place.
LEMMA StepKeepsHashInv ==
  ASSUME TypeOK, HashInv, [Next]_vars
  PROVE  HashInv'
<1>1. CASE Rename
  <2>1. ComparedIsIntact'
    BY <1>1 DEF Rename, ComparedIsIntact
  <2>2. HashedFilesGood'
    <3> SUFFICES ASSUME NEW f \in Files, library'[f] = "bad" PROVE f \in unchecked'
      BY DEF HashedFilesGood
    <3>1. CASE f = item.new
      <4>1. ~part[item.new].intact
        BY <1>1, <3>1 DEF Rename, TypeOK
      <4>2. item.meta # "sha"
        BY <1>1, <4>1 DEF Rename, HashInv, ComparedIsIntact
      <4> QED
        BY <1>1, <3>1, <4>2 DEF Rename
    <3>2. CASE f # item.new
      <4>1. library[f] = "bad"
        BY <1>1, <3>2 DEF Rename, TypeOK
      <4> QED
        BY <1>1, <3>2, <4>1 DEF Rename, HashInv, HashedFilesGood
    <3> QED
      BY <3>1, <3>2
  <2> QED
    BY <2>1, <2>2 DEF HashInv
<1>2. CASE Verify
  <2>1. HashedFilesGood'
    BY <1>2, OtherStepsKeepHashed DEF Verify, diskVars, HashInv
  <2>2. item \in Items
    BY <1>2 DEF Verify, TypeOK
  <2>3. ASSUME pc' = "rename", item'.meta = "sha" PROVE part'[item'.new].intact
    <3>1. PICK meta : Verified(item.new, meta) /\ item' = [item EXCEPT !.meta = meta]
      BY <1>2, <2>3 DEF Verify, ItemEnds
    <3>2. item'.meta = meta /\ item'.new = item.new
      BY <2>2, <3>1 DEF Items
    <3> QED
      BY <1>2, <2>3, <3>1, <3>2 DEF Verify, Verified, diskVars
  <2> QED
    BY <2>1, <2>3 DEF HashInv, ComparedIsIntact
<1>3. ASSUME UNCHANGED unchecked, pc' # "rename" \/ UNCHANGED <<pc, item, part>>,
             (UNCHANGED library) \/ \E g, outcome : MoveOldFile(g, outcome)
      PROVE  HashInv'
  <2>1. HashedFilesGood'
    BY <1>3, OtherStepsKeepHashed DEF HashInv
  <2> QED
    BY <1>3, <2>1 DEF HashInv, ComparedIsIntact
<1>4. CASE \/ \E only \in SUBSET Series : ScanLocal(only)
           \/ ReadWanted \/ RetryMoves \/ BuildPlan \/ ResolveAll \/ PlanDone
  BY <1>3, <1>4 DEF ScanLocal, ReadWanted, RetryMoves, BuildPlan, ResolveAll, PlanDone, diskVars
<1>5. CASE BeginItem \/ FreeSpace \/ CurlChunk \/ CurlDone \/ CurlFails \/ Record \/ ItemRaises
  BY <1>3, <1>5 DEF BeginItem, FreeSpace, CurlChunk, CurlDone, CurlFails, Record, ItemRaises,
                    ItemEnds, diskVars
<1>6. CASE MoveOld
  BY <1>3, <1>6 DEF MoveOld
<1>7. CASE RetryDeferredMove
  BY <1>3, <1>7 DEF RetryDeferredMove
<1>8. CASE SaveMove \/ Finish \/ Interrupted \/ \E s \in Series : Publish(s)
  BY <1>3, <1>8 DEF SaveMove, Finish, Interrupted, RunOver, Publish, diskVars
<1>9. CASE UNCHANGED vars
  BY <1>3, <1>9 DEF vars, diskVars
<1> QED
  BY <1>1, <1>2, <1>4, <1>5, <1>6, <1>7, <1>8, <1>9
     DEF Next, Progress, ProcessDownload, ProcessItem

\* For any library, catalog and faults, a damaged file gets into the library only where
\* no hash was there to compare (process_download, process_item).
THEOREM HashedFilesGoodHolds == Spec => []HashedFilesGood
<1>1. Init => HashInv
  BY DEF Init, HashInv, HashedFilesGood, ComparedIsIntact
<1>2. TypeOK /\ HashInv /\ [Next]_vars => HashInv'
  BY StepKeepsHashInv
<1>3. HashInv => HashedFilesGood
  BY DEF HashInv
<1> QED
  BY <1>1, <1>2, <1>3, TypeCorrect, PTL DEF Spec

-----------------------------------------------------------------------------
(* The last release of a series *)

\* The file an item of the updater replaces is another release of its series.
Replaces(i) ==
    /\ mode = "update" => i.old # NoFile
    /\ i.old # NoFile => i.old[1] = i.new[1] /\ i.old # i.new
Planned == {i \in Items : Replaces(i)}

\* An entry names an old file of its series; if it is complete and its move was put off,
\* the new file is another one, and in the library.
Sound(s, entry) ==
    /\ entry.old # NoFile => entry.old[1] = s
    /\ entry.status = "complete" /\ entry.move = "move_deferred" =>
          entry.new \in {s} \X Releases /\ Held(entry.new) /\ entry.old # entry.new

\* While the updater has an item in hand the file and its copy agree, and say so.
EntryInHand ==
    pc \in Busy /\ mode = "update" =>
       LET entry == state[item.new[1]] IN
       /\ stored = state
       /\ entry.status = "downloading" /\ entry.old = item.old /\ entry.new = item.new

\* What the moves rely on: the plan, the entries, and the new file being in place.
ReleaseInv ==
    /\ todo \in Seq(Planned)
    /\ pc \in Busy => item \in Planned
    /\ EntryInHand
    /\ pc \in {"move", "record"} => Held(item.new)
    /\ pc = "moves" => state \in {stored, Blank}
    /\ \A s \in Series : Sound(s, stored[s]) /\ Sound(s, state[s])

\* No entry is sound.
LEMMA BlankSound ==
  ASSUME NEW s \in Series
  PROVE  Sound(s, Blank[s])'
  BY DEF Blank, NoEntry, Sound

\* An entry stays sound while its new file stays.
LEMMA SoundStays ==
  ASSUME NEW s, NEW entry, Sound(s, entry),
         \A f \in {s} \X Releases : Held(f) => Held(f)' \/ f = entry.old
  PROVE  Sound(s, entry)'
  BY DEF Sound

\* A move that did not happen leaves the library, one that did takes one file.
LEMMA MoveTakesOne ==
  ASSUME TypeOK, NEW g, NEW outcome, MoveOldFile(g, outcome), NEW f \in Files, Held(f)
  PROVE  /\ Held(f)' \/ f = g
         /\ outcome # "moved" => Held(f)'
  BY DEF MoveOldFile, Held, TypeOK

\* Planning adds items that replace another release.
LEMMA PlanningKeepsRelease ==
  ASSUME TypeOK, ReleaseInv,
         \/ \E only \in SUBSET Series : ScanLocal(only)
         \/ ReadWanted \/ RetryMoves \/ BuildPlan \/ ResolveAll \/ PlanDone
  PROVE  ReleaseInv'
<1>0. UNCHANGED library
  BY DEF ScanLocal, ReadWanted, RetryMoves, BuildPlan, ResolveAll, PlanDone, diskVars
<1>1. ASSUME NEW s \in Series, NEW entry, Sound(s, entry) PROVE Sound(s, entry)'
  BY <1>0, <1>1 DEF Sound, Held
<1>2. CASE (\E only \in SUBSET Series : ScanLocal(only)) \/ ReadWanted
  <2>1. todo' \in Seq(Planned)'
    BY <1>2, EmptySeq DEF ScanLocal, ReadWanted
  <2> QED
    BY <1>1, <1>2, <2>1 DEF ScanLocal, ReadWanted, ReleaseInv, EntryInHand, Busy, stateVars
<1>3. CASE RetryMoves
  <2>1. UNCHANGED Planned
    BY <1>3 DEF RetryMoves, Planned, Replaces
  <2>2. \A s \in Series : Sound(s, state[s])'
    BY <1>1, <1>3, BlankSound DEF RetryMoves, LoadState, ReleaseInv
  <2> QED
    BY <1>1, <1>3, <2>1, <2>2
       DEF RetryMoves, LoadState, ReleaseInv, EntryInHand, Busy
<1>4. CASE BuildPlan
  <2> DEFINE f == Head(locals)
             new == ResolveBasename(f)
  <2>1. f \in Files /\ new \in Files /\ new[1] = f[1]
    BY <1>4, TailType DEF BuildPlan, TypeOK, ResolveBasename, Files
  <2>2. UNCHANGED Planned
    BY <1>4 DEF BuildPlan, Planned, Replaces
  <2>3. todo' = todo \/ (~UpToDate(f, new) /\ todo' = Append(todo, Item(f, new, "none")))
    BY <1>4 DEF BuildPlan
  <2>4. ASSUME ~UpToDate(f, new) PROVE Item(f, new, "none") \in Planned
    <3>1. f # new
      BY <2>4 DEF UpToDate
    <3>2. f # NoFile
      BY <2>1 DEF Files, NoFile
    <3> QED
      BY <2>1, <3>1, <3>2 DEF Planned, Replaces, Item, NoItem, Items
  <2>5. todo' \in Seq(Planned)
    BY <2>3, <2>4, AppendProperties DEF ReleaseInv
  <2> QED
    BY <1>1, <1>4, <2>2, <2>5 DEF BuildPlan, ReleaseInv, EntryInHand, Busy, stateVars
<1>5. CASE ResolveAll
  <2> DEFINE new == ResolveByName(Head(locals)[1])
  <2>1. new \in Files
    BY <1>5, TailType DEF ResolveAll, TypeOK, ResolveByName, Files
  <2>2. UNCHANGED Planned
    BY <1>5 DEF ResolveAll, Planned, Replaces
  <2>3. todo' = todo \/ \E meta \in {"none", "size", "sha"} :
                          todo' = Append(todo, Item(NoFile, new, meta))
    BY <1>5 DEF ResolveAll
  <2>4. \A meta \in {"none", "size", "sha"} : Item(NoFile, new, meta) \in Planned
    BY <1>5, <2>1 DEF ResolveAll, Planned, Replaces, Item, NoItem, Items
  <2>5. todo' \in Seq(Planned)
    BY <2>3, <2>4, AppendProperties DEF ReleaseInv
  <2> QED
    BY <1>1, <1>5, <2>2, <2>5 DEF ResolveAll, ReleaseInv, EntryInHand, Busy, stateVars
<1>6. CASE PlanDone
  <2>1. UNCHANGED Planned
    BY <1>6 DEF PlanDone, Planned, Replaces
  <2>2. todo' \in Seq(Planned)
    BY <1>6, SortedType DEF PlanDone, ReleaseInv
  <2>3. \A s \in Series : Sound(s, state[s])'
    BY <1>1, <1>6, BlankSound DEF PlanDone, LoadState, ReleaseInv
  <2> QED
    BY <1>1, <1>6, <2>1, <2>2, <2>3 DEF PlanDone, ReleaseInv, EntryInHand, Busy
<1> QED
  BY <1>2, <1>3, <1>4, <1>5, <1>6

\* An item that ends without its file leaves an entry that is not complete.
LEMMA ItemEndsRelease ==
  ASSUME TypeOK, ReleaseInv, pc \in Busy, NEW st \in {"skipped_no_space", "error"},
         ItemEnds(st), UNCHANGED diskVars
  PROVE  ReleaseInv'
<1>1. UNCHANGED <<library, Planned, todo>> /\ pc' = "next"
  BY DEF ItemEnds, planVars, diskVars, Planned, Replaces
<1>2. ASSUME NEW s \in Series, NEW entry, Sound(s, entry) PROVE Sound(s, entry)'
  BY <1>1, <1>2 DEF Sound, Held
<1>3. \A s \in Series : Sound(s, stored[s])' /\ Sound(s, state[s])'
  <2>1. CASE mode = "update"
    <3>1. stored' = state' /\ state' = [state EXCEPT ![item.new[1]] =
                                            [state[item.new[1]] EXCEPT !.status = st]]
      BY <2>1 DEF ItemEnds, Note, UpdateState
    <3> SUFFICES ASSUME NEW s \in Series PROVE Sound(s, state[s])'
      BY <3>1
    <3>2. state[s] \in Entry /\ Sound(s, state[s])
      BY DEF TypeOK, ReleaseInv
    <3>3. CASE s = item.new[1]
      <4>1. state'[s] = [state[s] EXCEPT !.status = st]
        BY <3>1, <3>3 DEF TypeOK
      <4>2. state'[s].status = st /\ state'[s].old = state[s].old
        BY <3>2, <4>1 DEF Entry
      <4> QED
        BY <3>2, <4>2 DEF Sound
    <3>4. CASE s # item.new[1]
      <4>1. state'[s] = state[s]
        BY <3>1, <3>4 DEF TypeOK
      <4> QED
        BY <1>2, <3>2, <4>1
    <3> QED
      BY <3>3, <3>4
  <2>2. CASE mode # "update"
    BY <1>2, <2>2 DEF ItemEnds, Note, stateVars, ReleaseInv
  <2> QED
    BY <2>1, <2>2
<1> QED
  BY <1>1, <1>3 DEF ReleaseInv, EntryInHand, Busy

\* The steps of an item: the new file is there before the old one is moved.
LEMMA ItemKeepsRelease ==
  ASSUME TypeOK, ReleaseInv, ProcessDownload \/ ProcessItem \/ ItemRaises
  PROVE  ReleaseInv'
<1>0. UNCHANGED <<mode, Planned>>
  BY DEF ProcessDownload, ProcessItem, BeginItem, FreeSpace, CurlChunk, CurlDone, CurlFails,
         Verify, Rename, MoveOld, Record, ItemRaises, ItemEnds, Planned, Replaces
<1>1. CASE BeginItem
  <2>1. Head(todo) \in Planned /\ Tail(todo) \in Seq(Planned)
    BY <1>1, TailType DEF BeginItem, ReleaseInv
  <2>0. PICK h \in Planned, t \in Series : h = Head(todo) /\ t = h.new[1]
    BY <2>1 DEF Planned, Items, Files
  <2>2. PICK move : h = Head(todo) /\ t = h.new[1] /\ move = state[t].move
    BY <2>0
  <2> DEFINE entry == [status |-> "downloading", old |-> h.old, new |-> h.new, move |-> move]
  <2>3. UNCHANGED library
    BY <1>1 DEF BeginItem, diskVars
  <2>4. ASSUME NEW s \in Series, NEW e, Sound(s, e) PROVE Sound(s, e)'
    BY <2>3, <2>4 DEF Sound, Held
  <2>5. CASE mode = "update"
    <3>1. stored' = state' /\ state' = [state EXCEPT ![t] = entry]
      BY <1>1, <2>2, <2>5 DEF BeginItem, UpdateState
    <3>2. state'[t] = entry
      BY <2>2, <3>1 DEF TypeOK
    <3>3. Sound(t, entry)'
      BY <2>2 DEF Sound, Planned, Replaces
    <3>4. \A s \in Series : Sound(s, state[s])'
      <4> TAKE s \in Series
      <4>1. CASE s = t
        BY <3>2, <3>3, <4>1
      <4>2. CASE s # t
        <5>1. state'[s] = state[s]
          BY <3>1, <4>2 DEF TypeOK
        <5> QED
          BY <2>4, <5>1 DEF ReleaseInv
      <4> QED
        BY <4>1, <4>2
    <3> QED
      BY <1>0, <1>1, <2>1, <2>2, <3>1, <3>2, <3>4 DEF BeginItem, ReleaseInv, EntryInHand
  <2>6. CASE mode # "update"
    BY <1>0, <1>1, <2>1, <2>4, <2>6 DEF BeginItem, ReleaseInv, EntryInHand, stateVars
  <2> QED
    BY <2>5, <2>6
\* Steps that leave the library, the entries and, but for its sidecar, the item.
<1>2. ASSUME UNCHANGED <<library, stateVars, todo>>, pc \in Busy,
             pc' \in Busy \ {"move", "record"},
             item' = item \/ \E meta \in {"none", "size", "sha"} : item' = [item EXCEPT !.meta = meta]
      PROVE  ReleaseInv'
  <2>1. item \in Planned /\ item \in Items
    BY <1>2 DEF ReleaseInv, Planned
  <2>2. item' \in Items /\ item'.old = item.old /\ item'.new = item.new
    BY <1>2, <2>1 DEF Items
  <2>3. item' \in Planned
    BY <2>1, <2>2 DEF Planned, Replaces
  <2>4. ASSUME NEW s \in Series, NEW e, Sound(s, e) PROVE Sound(s, e)'
    BY <1>2, <2>4 DEF Sound, Held
  <2>5. EntryInHand'
    BY <1>0, <1>2, <2>2 DEF ReleaseInv, EntryInHand, stateVars
  <2> QED
    BY <1>0, <1>2, <2>3, <2>4, <2>5 DEF ReleaseInv, stateVars, Busy
<1>3. CASE FreeSpace
  <2>1. CASE pc' = "curl" /\ UNCHANGED <<catalog, stateVars, mode, planVars, item, faults>>
    BY <1>2, <1>3, <2>1 DEF FreeSpace, Busy, planVars, diskVars
  <2>2. CASE ItemEnds("skipped_no_space")
    BY <1>3, <2>2, ItemEndsRelease DEF FreeSpace, Busy
  <2> QED
    BY <1>3, <2>1, <2>2 DEF FreeSpace
<1>4. CASE CurlChunk
  BY <1>2, <1>4 DEF CurlChunk, Busy, planVars
<1>5. CASE CurlDone
  BY <1>2, <1>5 DEF CurlDone, Busy, planVars, diskVars
<1>6. CASE CurlFails
  BY <1>6, ItemEndsRelease DEF CurlFails, Busy
<1>7. CASE Verify
  <2>1. PICK meta \in {"none", "size", "sha"} :
          IF Verified(item.new, meta)
            THEN /\ pc' = "rename" /\ item' = [item EXCEPT !.meta = meta]
                 /\ UNCHANGED <<catalog, stateVars, mode, planVars>>
            ELSE ItemEnds("error")
    BY <1>7 DEF Verify
  <2>2. CASE Verified(item.new, meta)
    BY <1>2, <1>7, <2>1, <2>2 DEF Verify, Busy, planVars, diskVars
  <2>3. CASE ~Verified(item.new, meta)
    BY <1>7, <2>1, <2>3, ItemEndsRelease DEF Verify, Busy
  <2> QED
    BY <2>2, <2>3
<1>8. CASE Rename
  <2>1. item \in Planned /\ item.new \in Files
    BY <1>8 DEF Rename, Busy, ReleaseInv, Planned, Items
  <2>2. Held(item.new)' /\ \A f \in Files : Held(f) => Held(f)'
    BY <1>8, <2>1 DEF Rename, TypeOK, Held
  <2>3. ASSUME NEW s \in Series, NEW e, Sound(s, e) PROVE Sound(s, e)'
    BY <2>2, <2>3 DEF Sound, Files
  <2>4. EntryInHand'
    BY <1>0, <1>8 DEF Rename, Busy, ReleaseInv, EntryInHand, stateVars
  <2> QED
    BY <1>0, <1>8, <2>1, <2>2, <2>3, <2>4 DEF Rename, ReleaseInv, stateVars, planVars, Held
<1>9. CASE MoveOld /\ mode = "update"
  <2>1. /\ item \in Planned /\ item \in Items /\ item.new \in Files /\ item.old \in Files
        /\ item.old[1] = item.new[1] /\ item.old # item.new /\ Held(item.new)
    BY <1>9 DEF MoveOld, Busy, ReleaseInv, Planned, Replaces, Items
  <2>2. PICK outcome \in {"missing", "move_deferred", "moved"} :
          MoveOldFile(item.old, outcome) /\ item' = [item EXCEPT !.move = outcome]
    BY <1>9 DEF MoveOld
  <2>3. item' \in Items /\ item'.old = item.old /\ item'.new = item.new
    BY <2>1, <2>2 DEF Items
  <2>4. item' \in Planned
    BY <2>1, <2>3 DEF Planned, Replaces
  <2>5. Held(item.new)'
    <3>1. PICK f \in Files : f = item.new
      BY <2>1
    <3>2. Held(f)'
      BY <2>1, <2>2, <3>1, MoveTakesOne
    <3> QED
      BY <2>3, <3>1, <3>2 DEF Held
  <2>6. stored = state /\ state[item.new[1]].status = "downloading"
    BY <1>9 DEF MoveOld, Busy, ReleaseInv, EntryInHand
  <2>7. ASSUME NEW s \in Series PROVE Sound(s, state[s])'
    <3>1. CASE s = item.new[1]
      BY <1>9, <2>6, <3>1 DEF MoveOld, stateVars, ReleaseInv, Sound
    <3>2. CASE s # item.new[1]
      <4>1. \A f \in {s} \X Releases : Held(f) => Held(f)'
        BY <2>1, <2>2, <3>2, MoveTakesOne DEF Files
      <4> QED
        BY <1>9, <4>1, SoundStays DEF MoveOld, stateVars, ReleaseInv
    <3> QED
      BY <3>1, <3>2
  <2>8. EntryInHand'
    BY <1>0, <1>9, <2>3 DEF MoveOld, Busy, ReleaseInv, EntryInHand, stateVars
  <2> QED
    BY <1>0, <1>9, <2>4, <2>5, <2>6, <2>7, <2>8 DEF MoveOld, ReleaseInv, stateVars, planVars, Held
<1>10. CASE Record
  <2>1. item \in Items /\ item \in Planned /\ item.new \in Files /\ Held(item.new)
    BY <1>10 DEF Record, Busy, ReleaseInv, Planned, Items
  <2>2. UNCHANGED library
    BY <1>10 DEF Record, diskVars
  <2>3. ASSUME NEW s \in Series, NEW e, Sound(s, e) PROVE Sound(s, e)'
    BY <2>2, <2>3 DEF Sound, Held
  <2>4. \A s \in Series : Sound(s, stored[s])' /\ Sound(s, state[s])'
    <3>1. CASE mode = "update"
      <4>a. PICK t \in Series, new \in Files : t = item.new[1] /\ new = item.new
        BY <2>1 DEF Files
      <4>0. PICK old : t = item.new[1] /\ new = item.new /\ old = item.old
        BY <4>a
      <4>1. state[t] \in Entry /\ new \in {t} \X Releases
        BY <2>1, <4>0 DEF Files, TypeOK
      <4>2. stored' = state' /\ state' = [state EXCEPT ![t] =
                     [state[t] EXCEPT !.status = "complete", !.move = item.move]]
        BY <1>10, <3>1, <4>0 DEF Record, UpdateState
      <4>3. state[t].old = old /\ state[t].new = new
        BY <1>10, <3>1, <4>0 DEF Record, Busy, ReleaseInv, EntryInHand
      <4>4. state'[t].old = old /\ state'[t].new = new
        BY <4>1, <4>2, <4>3 DEF TypeOK, Entry
      <4>5. old # NoFile /\ old[1] = t /\ old # new
        BY <2>1, <3>1, <4>0 DEF Planned, Replaces
      <4>6. Sound(t, state[t])'
        BY <2>1, <2>2, <4>0, <4>1, <4>4, <4>5 DEF Sound, Held
      <4> SUFFICES ASSUME NEW s \in Series PROVE Sound(s, state[s])'
        BY <4>2
      <4>7. CASE s # t
        <5>1. state'[s] = state[s]
          BY <4>2, <4>7 DEF TypeOK
        <5> QED
          BY <2>3, <5>1 DEF ReleaseInv
      <4> QED
        BY <4>6, <4>7
    <3>2. CASE mode # "update"
      BY <1>10, <2>3, <3>2 DEF Record, stateVars, ReleaseInv
    <3> QED
      BY <3>1, <3>2
  <2> QED
    BY <1>0, <1>10, <2>4 DEF Record, ReleaseInv, EntryInHand, Busy, planVars
<1>11. CASE ItemRaises
  BY <1>11, ItemEndsRelease DEF ItemRaises, Busy
<1> QED
  BY <1>1, <1>3, <1>4, <1>5, <1>6, <1>7, <1>8, <1>9, <1>10, <1>11
     DEF ProcessDownload, ProcessItem

\* A put-off move takes the old file of its entry, and no other.
LEMMA RetryTakesOld ==
  ASSUME TypeOK, ReleaseInv, RetryDeferredMove
  PROVE  \/ UNCHANGED <<library, state, pc>>
         \/ \E s \in Series, outcome \in {"missing", "move_deferred", "moved"} :
              /\ MoveOldFile(state[s].old, outcome)
              /\ state' = [state EXCEPT ![s].move = outcome] /\ pc' = "save"
              /\ state = stored /\ state[s].move = "move_deferred"
              /\ state[s].old \in {s} \X Releases
<1>1. mode = "retry" /\ mode # "update"
  BY DEF RetryDeferredMove, TypeOK
<1>2. PICK s \in Series : s = Head(locals)[1]
  BY <1>1, TailType DEF RetryDeferredMove, TypeOK
<1>3. CASE state[s].move = "move_deferred" /\ state[s].old # NoFile
  <2>1. PICK outcome \in {"missing", "move_deferred", "moved"} :
          /\ MoveOldFile(state[s].old, outcome)
          /\ state' = [state EXCEPT ![s].move = outcome] /\ pc' = "save"
    BY <1>2, <1>3 DEF RetryDeferredMove
  <2>2. state # Blank
    BY <1>3 DEF Blank, NoEntry
  <2>3. state = stored
    BY <2>2 DEF RetryDeferredMove, ReleaseInv
  <2>4. state[s] \in Entry /\ state[s].old[1] = s
    BY <1>3 DEF TypeOK, ReleaseInv, Sound
  <2>5. state[s].old \in {s} \X Releases
    BY <1>3, <2>4 DEF Entry, Files
  <2> QED
    BY <1>3, <2>1, <2>3, <2>5
<1>4. CASE ~(state[s].move = "move_deferred" /\ state[s].old # NoFile)
  BY <1>2, <1>4 DEF RetryDeferredMove
<1> QED
  BY <1>3, <1>4

\* The end of a run, its retried moves, and the catalog.
LEMMA RunKeepsRelease ==
  ASSUME TypeOK, ReleaseInv,
         \/ RetryDeferredMove \/ SaveMove
         \/ Finish \/ Interrupted \/ \E s \in Series : Publish(s)
  PROVE  ReleaseInv'
<1>1. CASE RetryDeferredMove
  <2>1. UNCHANGED <<mode, todo, stored, Planned>> /\ pc = "moves"
    BY <1>1 DEF RetryDeferredMove, Planned, Replaces
  <2>2. CASE UNCHANGED <<library, state, pc>>
    <3>1. ASSUME NEW s \in Series, NEW e, Sound(s, e) PROVE Sound(s, e)'
      BY <2>2, <3>1 DEF Sound, Held
    <3> QED
      BY <2>1, <2>2, <3>1 DEF ReleaseInv, EntryInHand, Busy
  <2>3. ASSUME NEW t \in Series, NEW outcome \in {"missing", "move_deferred", "moved"},
               MoveOldFile(state[t].old, outcome),
               state' = [state EXCEPT ![t].move = outcome], pc' = "save",
               state = stored, state[t].move = "move_deferred",
               state[t].old \in {t} \X Releases
        PROVE  ReleaseInv'
    <3>1. ASSUME NEW s \in Series PROVE Sound(s, stored[s])'
      <4>1. PICK e : e = state[s]
        OBVIOUS
      <4>2. PICK g : g = state[t].old /\ g \in {t} \X Releases
        BY <2>3
      <4>3. \A f \in {s} \X Releases : Held(f) => Held(f)' \/ f = e.old
        <5> TAKE f \in {s} \X Releases
        <5>1. Held(f) => Held(f)' \/ f = g
          BY <2>3, <4>2, MoveTakesOne DEF Files
        <5>2. f = g => s = t
          BY <4>2
        <5> QED
          BY <4>1, <4>2, <5>1, <5>2
      <4>4. Sound(s, e)
        BY <4>1 DEF ReleaseInv
      <4>5. Sound(s, e)'
        BY <4>3, <4>4, SoundStays
      <4> QED
        BY <2>1, <2>3, <4>1, <4>5
    <3>2. ASSUME NEW s \in Series PROVE Sound(s, state[s])'
      <4>1. CASE s # t
        <5>1. state'[s] = stored'[s]
          BY <2>1, <2>3, <4>1 DEF TypeOK
        <5> QED
          BY <3>1, <5>1
      <4>2. CASE s = t
        <5>1. state[t] \in Entry
          BY DEF TypeOK
        <5>2. /\ state'[t].status = stored'[t].status /\ state'[t].old = stored'[t].old
              /\ state'[t].new = stored'[t].new /\ state'[t].move = outcome
              /\ stored'[t] = state[t]
          BY <2>1, <2>3, <5>1 DEF TypeOK, Entry
        <5>3. CASE outcome = "move_deferred"
          <6>1. UNCHANGED library
            BY <2>3, <5>3 DEF MoveOldFile
          <6>2. Sound(t, state[t])
            BY DEF ReleaseInv
          <6>3. state[t].status = "complete" =>
                   state[t].new \in {t} \X Releases /\ Held(state[t].new)' /\ state[t].old # state[t].new
            BY <2>3, <3>1, <4>2, <5>2 DEF Sound
          <6> QED
            BY <3>1, <4>2, <5>2, <6>3 DEF Sound
        <5>4. CASE outcome # "move_deferred"
          BY <3>1, <4>2, <5>2, <5>4 DEF Sound
        <5> QED
          BY <5>3, <5>4
      <4> QED
        BY <4>1, <4>2
    <3> QED
      BY <2>1, <2>3, <3>1, <3>2 DEF ReleaseInv, EntryInHand, Busy
  <2> QED
    BY <1>1, <2>2, <2>3, RetryTakesOld
<1>2. ASSUME UNCHANGED <<library, stored>> PROVE \A s \in Series : Sound(s, stored[s])'
  BY <1>2 DEF Sound, Held, ReleaseInv
<1>3. CASE SaveMove
  <2>1. UNCHANGED <<library, state, todo, mode, Planned>>
    BY <1>3 DEF SaveMove, planVars, diskVars, Planned, Replaces
  <2>2. \A s \in Series : Sound(s, state[s])'
    BY <2>1 DEF Sound, Held, ReleaseInv
  <2> QED
    BY <1>3, <2>1, <2>2 DEF SaveMove, ReleaseInv, EntryInHand, Busy
<1>4. CASE Finish \/ Interrupted
  <2>1. RunOver
    BY <1>4 DEF Finish, Interrupted
  <2>2. todo' \in Seq(Planned)'
    BY <2>1, EmptySeq DEF RunOver
  <2> QED
    BY <1>2, <2>1, <2>2, BlankSound DEF RunOver, ReleaseInv, EntryInHand, Busy, diskVars
<1>5. CASE \E s \in Series : Publish(s)
  <2>1. UNCHANGED <<library, stateVars, todo, mode, pc, item, Planned>>
    BY <1>5 DEF Publish, planVars, diskVars, Planned, Replaces
  <2>2. \A s \in Series : Sound(s, state[s])'
    BY <2>1 DEF Sound, Held, ReleaseInv, stateVars
  <2> QED
    BY <1>2, <2>1, <2>2 DEF ReleaseInv, EntryInHand, stateVars, Held
<1> QED
  BY <1>1, <1>3, <1>4, <1>5

\* Every step keeps what the moves rely on.
LEMMA NextKeepsRelease ==
  ASSUME TypeOK, ReleaseInv, [Next]_vars
  PROVE  ReleaseInv'
<1>1. CASE Next
  BY <1>1, PlanningKeepsRelease, ItemKeepsRelease, RunKeepsRelease DEF Next, Progress
<1>2. CASE UNCHANGED vars
  <2>1. UNCHANGED <<library, stored, state, todo, mode, pc, item, Planned>>
    BY <1>2 DEF vars, diskVars, stateVars, planVars, Planned, Replaces
  <2>2. \A s \in Series : Sound(s, stored[s])' /\ Sound(s, state[s])'
    BY <2>1 DEF Sound, Held, ReleaseInv
  <2> QED
    BY <2>1, <2>2 DEF ReleaseInv, EntryInHand, Held
<1> QED
  BY <1>1, <1>2

\* A step that takes the last release of a series retries the move of an entry that is
\* not complete.
LEMMA StepKeepsLast ==
  ASSUME TypeOK, ReleaseInv, Next, NEW s \in Series, Shelved(s), ~Shelved(s)'
  PROVE  mode = "retry" /\ state[s].status # "complete"
<1>1. PICK r \in Releases : Held(<<s, r>>) /\ ~Held(<<s, r>>)'
  BY DEF Shelved
<1> DEFINE f == <<s, r>>
<1>2. f \in Files
  BY DEF Files
<1>3. CASE RetryDeferredMove
  <2>0. PICK t \in Series : \E outcome :
          /\ MoveOldFile(state[t].old, outcome)
          /\ state[t].move = "move_deferred" /\ state[t].old \in {t} \X Releases
    BY <1>1, <1>3, RetryTakesOld DEF Held
  <2>1. PICK outcome :
          /\ MoveOldFile(state[t].old, outcome)
          /\ state[t].move = "move_deferred" /\ state[t].old \in {t} \X Releases
    BY <2>0
  <2>2. f = state[t].old
    BY <1>1, <1>2, <2>1, MoveTakesOne
  <2>3. s = t
    BY <2>1, <2>2
  <2>4. state[s].status # "complete"
    <3> SUFFICES ASSUME state[s].status = "complete" PROVE FALSE
      OBVIOUS
    <3>1. PICK g \in {s} \X Releases : g = state[s].new /\ Held(g) /\ state[s].old # g
      BY <2>1, <2>3 DEF ReleaseInv, Sound
    <3>2. Held(g)'
      BY <2>1, <2>3, <3>1, MoveTakesOne DEF Files
    <3> QED
      BY <3>1, <3>2 DEF Shelved
  <2> QED
    BY <1>3, <2>4 DEF RetryDeferredMove, TypeOK
<1>4. CASE MoveOld /\ mode = "update"
  <2>1. /\ item.new \in Files /\ item.old[1] = item.new[1] /\ item.old # item.new
        /\ Held(item.new)
    BY <1>4 DEF MoveOld, Busy, ReleaseInv, Planned, Replaces, Items
  <2>2. PICK outcome : MoveOldFile(item.old, outcome)
    BY <1>4 DEF MoveOld
  <2>3. f = item.old
    BY <1>1, <1>2, <2>2, MoveTakesOne
  <2>4. PICK g \in {s} \X Releases : g = item.new
    BY <2>1, <2>3 DEF Files
  <2>5. Held(g)'
    BY <2>1, <2>2, <2>4, MoveTakesOne
  <2> QED
    BY <2>4, <2>5 DEF Shelved
<1>5. CASE Rename
  BY <1>1, <1>2, <1>5 DEF Rename, TypeOK, Held
<1>6. CASE UNCHANGED library
  BY <1>1, <1>6 DEF Held
<1>7. CASE \/ \E only \in SUBSET Series : ScanLocal(only)
           \/ ReadWanted \/ RetryMoves \/ BuildPlan \/ ResolveAll \/ PlanDone
  BY <1>6, <1>7 DEF ScanLocal, ReadWanted, RetryMoves, BuildPlan, ResolveAll, PlanDone, diskVars
<1>8. CASE BeginItem \/ FreeSpace \/ CurlChunk \/ CurlDone \/ CurlFails \/ Verify
           \/ Record \/ ItemRaises
  BY <1>6, <1>8 DEF BeginItem, FreeSpace, CurlChunk, CurlDone, CurlFails, Verify, Record,
                    ItemRaises, diskVars
<1>9. CASE SaveMove \/ Finish \/ Interrupted \/ \E t \in Series : Publish(t)
  BY <1>6, <1>9 DEF SaveMove, Finish, Interrupted, RunOver, Publish, diskVars
<1> QED
  BY <1>3, <1>4, <1>5, <1>7, <1>8, <1>9 DEF Next, Progress, ProcessDownload, ProcessItem

\* For any library, catalog and faults, the last release of a series leaves the library
\* only when --retry-moves reads the entry of an update that has begun and not completed
\* (process_download, retry_deferred_moves).
THEOREM LastReleaseStaysHolds == Spec => LastReleaseStays
<1>1. Init => ReleaseInv
  <2> SUFFICES ASSUME Init PROVE ReleaseInv
    OBVIOUS
  <2>1. \A s \in Series : Sound(s, Blank[s])
    BY DEF Blank, NoEntry, Sound
  <2> QED
    BY <2>1, EmptySeq DEF Init, ReleaseInv, EntryInHand, Busy
<1>2. TypeOK /\ ReleaseInv /\ [Next]_vars => ReleaseInv'
  BY NextKeepsRelease
<1>3. Spec => []ReleaseInv
  BY <1>1, <1>2, TypeCorrect, PTL DEF Spec
<1>4. TypeOK /\ ReleaseInv /\ [Next]_vars =>
        [\A s \in Series : Shelved(s) /\ ~Shelved(s)' =>
           mode = "retry" /\ state[s].status # "complete"]_vars
  BY StepKeepsLast
<1> QED
  BY <1>3, <1>4, TypeCorrect, PTL DEF Spec, LastReleaseStays

=============================================================================
