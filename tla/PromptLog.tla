------------------------------ MODULE PromptLog ------------------------------
(***************************************************************************)
(* The chronological prompt log of one lesson (tutor/app/prompt.py) and    *)
(* its rebuild from the stored message list (tutor/app/lesson_state.py).   *)
(*                                                                         *)
(* Pure operators: a log is a value, every method of PromptLog is an       *)
(* operator from a log to the log it leaves behind.  The turn loop that    *)
(* calls them is TutorTurn.                                                *)
(*                                                                         *)
(* Abstraction.  The nested list of turns is kept flat: a turn is a user   *)
(* message and what follows it up to the next one.  A passage is a model   *)
(* value, its label [S#] the number #, its text either the full text or    *)
(* the one-line pointer; any other text is its weight in tokens.  The      *)
(* order inside one packet, and among protected passages, is dropped once  *)
(* trimming has used it.  The optional seed exchange is left out: it is    *)
(* off by default and nothing edits it once appended.                      *)
(***************************************************************************)
EXTENDS Naturals, FiniteSets, Sequences, SequencesExt, FiniteSetsExt

CONSTANTS
    Passages,         \* passage ids of the library
    MaxPacket,        \* passages in one evidence packet, at most
    MaxCalls,         \* tool calls in one assistant message, at most
    OperatingCeiling, \* budget.system + budget.history
    NewestBudget,     \* budget.newest
    FullWeight,       \* tokens of a passage's full text
    PointerWeight     \* tokens of the one-line pointer to it

ASSUME PromptLogAssumption ==
    /\ IsFiniteSet(Passages)
    /\ MaxPacket \in Nat \ {0}
    /\ MaxCalls \in Nat \ {0}
    /\ {OperatingCeiling, NewestBudget, FullWeight, PointerWeight} \subseteq Nat
    /\ 0 < PointerWeight /\ PointerWeight <= FullWeight

Labels == 1..MaxPacket
CallIds == 1..MaxCalls

\* The tool_call_id of a message that carries none.
NoId == 0

-----------------------------------------------------------------------------
(* Passages as a packet shows them.  Every packet numbers its own passages *)
(* from S1 (_relabel_sequential; a research response does the same).       *)

Shown == [id : Passages, label : Labels, full : BOOLEAN]

\* The packets retrieval returns: ranked, without repetition, capped.
Packets == {ids \in BoundedSeq(Passages, MaxPacket) : IsInjective(ids)}

Labelled(ids) == {[id |-> ids[i], label |-> i, full |-> TRUE] : i \in DOMAIN ids}

IdsOf(ps) == {p.id : p \in ps}
LabelsOf(ps) == {p.label : p \in ps}
FullIdsOf(ps) == {p.id : p \in {q \in ps : q.full}}

\* render_evidence_with_reuse: a held passage becomes a pointer, or, with reuse
\* off, is dropped from the packet.
Display(ps, held, reuse) ==
    IF reuse THEN {[p EXCEPT !.full = p.id \notin held] : p \in ps}
             ELSE {p \in ps : p.id \notin held}

-----------------------------------------------------------------------------
(* Messages *)

ToolKinds == {"result", "evidence", "stub"}
Kinds == {"system", "user", "answer", "calls"} \cup ToolKinds

Messages ==
    [kind : Kinds, weight : Nat, ids : SUBSET CallIds, id : CallIds \cup {NoId},
     pasted : SUBSET Passages, shown : SUBSET Shown, cites : SUBSET Labels]

Message(kind) ==
    [kind |-> kind, weight |-> 1, ids |-> {}, id |-> NoId,
     pasted |-> {}, shown |-> {}, cites |-> {}]

UserMsg(w) == [Message("user") EXCEPT !.weight = w]
AnswerMsg(cites) == [Message("answer") EXCEPT !.cites = cites]
CallsMsg(ids) == [Message("calls") EXCEPT !.ids = ids]
EvidenceMsg(ps) == [Message("evidence") EXCEPT !.weight = 0, !.shown = ps]

\* A tool result for call id; pasted is the set of passages whose full text its
\* content string carries (the forced research round writes them there).
ResultMsg(id, pasted) == [Message("result") EXCEPT !.id = id, !.pasted = pasted]

ShownWeight(ps) ==
    FullWeight * Cardinality({p \in ps : p.full})
    + PointerWeight * Cardinality({p \in ps : ~p.full})

MessageWeight(m) ==
    m.weight + FullWeight * Cardinality(m.pasted) + ShownWeight(m.shown)

-----------------------------------------------------------------------------
(* The log *)

Logs == [system : BOOLEAN, protected : SUBSET Shown, entries : Seq(Messages),
         seen : SUBSET Passages]

EmptyLog == [system |-> FALSE, protected |-> {}, entries |-> <<>>, seen |-> {}]

\* append_system: once, first; ValueError otherwise, which the loop ignores.
AppendSystem(log) ==
    IF log.entries = <<>> THEN [log EXCEPT !.system = TRUE] ELSE log

\* append_user, append_assistant, append_assistant_tool_calls, append_tool_result.
AppendMsg(log, m) == [log EXCEPT !.entries = Append(@, m)]

MarkHeld(log, ids) == [log EXCEPT !.seen = @ \cup ids]

\* Where the turns start.
Starts(es) == {i \in DOMAIN es : es[i].kind = "user"}
IsLastStart(es, s) == s \in Starts(es) /\ \A r \in Starts(es) : r <= s

\* append_evidence raises PromptOverflow when the student's text and the rendered
\* packet together exceed budget.newest.
Overflows(log, ps, reuse) ==
    \E s \in Starts(log.entries) :
        /\ IsLastStart(log.entries, s)
        /\ log.entries[s].weight + ShownWeight(Display(ps, log.seen, reuse)) > NewestBudget

\* Mutant: the packet is appended, its passages are not recorded as held.
AppendEvidenceUnmarked(log, ps, reuse) ==
    AppendMsg(log, EvidenceMsg(Display(ps, log.seen, reuse)))

AppendEvidence(log, ps, reuse) ==
    MarkHeld(AppendMsg(log, EvidenceMsg(Display(ps, log.seen, reuse))), IdsOf(ps))

\* _trim_and_append_evidence: the lowest ranked passages go until the packet fits.
\* Not even the empty packet fits: PromptOverflow, and nothing is appended.
Trimmed(log, ids, reuse) ==
    {n \in 0..Len(ids) :
        /\ ~Overflows(log, Labelled(SubSeq(ids, 1, n)), reuse)
        /\ \A m \in (n + 1)..Len(ids) : Overflows(log, Labelled(SubSeq(ids, 1, m)), reuse)}

-----------------------------------------------------------------------------
(* Rendering and rebuilding *)

\* render: the message list the model is sent and the lesson store keeps.
Render(log) ==
    (IF log.system THEN <<Message("system")>> ELSE <<>>)
    \o [i \in 1..Cardinality(log.protected) |-> EvidenceMsg({SetToSeq(log.protected)[i]})]
    \o log.entries

\* Mutant: everything before the first user message is skipped.
RebuildWithoutProtected(ms) ==
    LET before == {n \in DOMAIN ms : \A i \in 1..n : ms[i].kind # "user"}
    IN  [system    |-> ms # <<>> /\ ms[1].kind = "system",
         protected |-> {},
         entries   |-> SubSeq(ms, Cardinality(before) + 1, Len(ms)),
         seen      |-> UNION {IdsOf(ms[i].shown) : i \in DOMAIN ms}]

\* _rebuild_prompt_log: the evidence messages before the first user message are
\* the protected passages; the held ids are those any evidence message shows.
Rebuild(ms) ==
    LET first == IF ms # <<>> /\ ms[1].kind = "system" THEN 2 ELSE 1
        leads == {n \in first..Len(ms) : \A i \in first..n : ms[i].kind = "evidence"}
    IN  [system    |-> first = 2,
         protected |-> UNION {ms[i].shown : i \in leads},
         entries   |-> SubSeq(ms, first + Cardinality(leads), Len(ms)),
         seen      |-> UNION {IdsOf(ms[i].shown) : i \in DOMAIN ms}]

-----------------------------------------------------------------------------
(* Validation and repair *)

\* The unbroken run of tool messages after position i.
Answers(es, i) ==
    {j \in (i + 1)..Len(es) : \A k \in (i + 1)..j : es[k].kind \in ToolKinds}

Named(es, i) == {es[j].id : j \in {k \in Answers(es, i) : es[k].id # NoId}}
Unnamed(es, i) == {j \in Answers(es, i) : es[j].id = NoId}

\* validate, at one assistant tool-calls message: its results name no other call,
\* and with the unnamed evidence packets they are as many as the calls.
AnsweredAt(es, i) ==
    /\ Named(es, i) \subseteq es[i].ids
    /\ Cardinality(Named(es, i)) + Cardinality(Unnamed(es, i)) = Cardinality(es[i].ids)

IsValid(log) ==
    \A i \in DOMAIN log.entries :
        log.entries[i].kind = "calls" => AnsweredAt(log.entries, i)

\* repair: the last tool-calls message of the newest turn, and only that one, gets
\* a result for each call without one, as far as no evidence packet covers it.
LastCalls(es) ==
    {i \in DOMAIN es : es[i].kind = "calls"
                       /\ \A j \in (i + 1)..Len(es) : es[j].kind \notin {"calls", "user"}}

Missing(es, i) ==
    LET after   == {j \in (i + 1)..Len(es) : es[j].kind \in ToolKinds}
        missing == es[i].ids \ {es[j].id : j \in after}
        covered == Cardinality({j \in after : es[j].id = NoId})
    IN  {c \in missing : Cardinality({d \in missing : d < c}) >= covered}

Fill(es, ids) == es \o [k \in 1..Cardinality(ids) |-> ResultMsg(SetToSeq(ids)[k], {})]

\* Mutant: the dangling message is cut off instead of being answered.
RepairByCutting(log) ==
    IF IsValid(log) THEN log
    ELSE [log EXCEPT !.entries =
            SubSeq(@, 1, Len(@) - Cardinality({i \in DOMAIN @ :
                                \E c \in LastCalls(@) : c <= i}))]

Repair(log) ==
    IF IsValid(log) THEN log
    ELSE [log EXCEPT !.entries =
            Fill(@, UNION {Missing(@, i) : i \in LastCalls(@)})]

-----------------------------------------------------------------------------
(* Eviction *)

CitedLabels(es) == UNION {es[i].cites : i \in DOMAIN es}
ShownIn(es) == UNION {es[i].shown : i \in DOMAIN es}

\* tokens_used, against the ceiling less the fixed system text.
Tokens(protected, es) ==
    ShownWeight(protected) + MapThenSumSet(LAMBDA i : MessageWeight(es[i]), DOMAIN es)

\* Mutant: the wrong field of the budget.
OverNewest(protected, es) == Tokens(protected, es) > NewestBudget

OverCeiling(protected, es) == Tokens(protected, es) > OperatingCeiling

\* Evidence with a passage no answer cites.
Droppable(es) ==
    {i \in DOMAIN es : ~(LabelsOf(es[i].shown) \subseteq CitedLabels(es))}

\* An evidence message without its uncited passages; a stub when none is left.
CitedOnly(m, needed) ==
    LET cited == {p \in m.shown : p.label \in needed}
    IN  IF cited = {} THEN Message("stub") ELSE [m EXCEPT !.shown = cited]

DropAt(es, positions) ==
    [i \in DOMAIN es |-> IF i \in positions THEN CitedOnly(es[i], CitedLabels(es))
                                            ELSE es[i]]

\* Stage 1 visits the evidence oldest first and drops while the log is too long.
Dropped(protected, es) ==
    {i \in Droppable(es) :
        OverCeiling(protected, DropAt(es, {j \in Droppable(es) : j < i}))}

\* Stage 2 pops the oldest turns while the log is too long and another turn is
\* left: what stays is from the first start that is short enough, or the last.
\* Mutant: one turn is popped, not as many as it takes.
KeptAfterOnePop(protected, es) ==
    {i \in DOMAIN es : \E s \in Starts(es) :
        /\ s <= i
        /\ IsLastStart(es, s) \/ \E r \in Starts(es) : r < s}

Kept(protected, es) ==
    {i \in DOMAIN es : \E s \in Starts(es) :
        /\ s <= i
        /\ IsLastStart(es, s) \/ ~OverCeiling(protected, SubSeq(es, s, Len(es)))}

KeepCount(protected, es) ==
    IF OverCeiling(protected, es) /\ Starts(es) # {}
    THEN Cardinality(Kept(protected, es)) ELSE Len(es)

\* Mutant: nothing is put back.
ReprefillNothing(removed, needed, have) == {}

\* Passages of removed turns that a surviving answer cites by a label nothing
\* that survives shows; per label the oldest.
Reprefill(removed, needed, have) ==
    UNION {{p \in removed[i].shown :
               /\ p.label \in needed \ have
               /\ \A j \in 1..(i - 1) : p.label \notin LabelsOf(removed[j].shown)} :
           i \in DOMAIN removed}

\* The held ids are recomputed from what is left.
SeenAfter(seen, protected, kept) == IdsOf(protected \cup ShownIn(kept))

Evict(log) ==
    LET stage1    == DropAt(log.entries, Dropped(log.protected, log.entries))
        cut       == Len(stage1) - KeepCount(log.protected, stage1)
        kept      == SubSeq(stage1, cut + 1, Len(stage1))
        protected == log.protected
                     \cup Reprefill(SubSeq(stage1, 1, cut), CitedLabels(kept),
                                    LabelsOf(log.protected \cup ShownIn(kept)))
    IN  IF ~OverCeiling(log.protected, log.entries) \/ kept = log.entries THEN log
        ELSE [log EXCEPT !.entries = kept, !.protected = protected,
                         !.seen = SeenAfter(@, protected, kept)]

=============================================================================
