------------------------------ MODULE TutorTurn ------------------------------
(***************************************************************************)
(* The turns of one lesson: run_turn (tutor/app/agent_loop.py) over its    *)
(* PromptLog, the persistence after each turn (tutor/app/compose.py) and   *)
(* the resume after a restart (tutor/app/lesson_state.py).                 *)
(*                                                                         *)
(* One action is one stretch of the turn thread between two calls that     *)
(* wait on the model or on retrieval.  The student's Stop, and a crash of  *)
(* the process, may fall between any two of them.  What the model answers, *)
(* what retrieval finds and how the topic gate classifies a message are    *)
(* nondeterministic.                                                       *)
(***************************************************************************)
EXTENDS PromptLog

CONSTANTS
    Settings,     \* the [app] settings a process may run with
    UserWeights,  \* tokens of a student's message
    ResearchCap,  \* RESEARCH_CAP
    CalcCap,      \* CALC_CAP
    MaxQueries,   \* queries of one forced research call, at most
    SubjectChanges, \* whether the student changes the session's subject in mid-lesson
    MaxTurns,     \* bound: turns started
    MaxRounds     \* bound: rounds of voluntary tool calls in one turn

VARIABLES
    log,       \* session.log
    settings,  \* AppConfig of this process
    saved,     \* lessons.prompt_log_json
    pc,        \* where the turn thread is; "idle" between turns, "down" when dead
    cancel,    \* the turn's cancel event
    pending,   \* session.pending_clarify: offers made, and if a description is asked
    research,  \* research_calls
    gates,     \* searches of _clarify_gate in this turn, which research_calls leaves out
    tried,     \* guesses the pre-search has tried for a word it does not know
    calc,      \* calc_calls
    todo,      \* tool calls of the newest message not yet dispatched
    level,     \* level_before, until the forced round has used it
    backfill,  \* packet of the host's own pre-search
    rounds,    \* voluntary rounds of this turn
    turns      \* turns started

locals == <<research, gates, tried, calc, todo, level, backfill, rounds>>
vars == <<log, settings, saved, pc, cancel, pending, locals, turns>>

SettingsType ==
    [modelWrites : BOOLEAN, maySkip : BOOLEAN, onFollowup : BOOLEAN,
     onWeak : BOOLEAN, reuse : BOOLEAN, clarify : BOOLEAN]

ASSUME TutorTurnAssumption ==
    /\ Settings \subseteq SettingsType
    /\ UserWeights \subseteq Nat
    /\ {ResearchCap, CalcCap, MaxQueries, MaxTurns, MaxRounds} \subseteq Nat
    /\ SubjectChanges \in BOOLEAN

\* RESEARCH_CAP = 2 is below what the forced rounds may reach, one query each.
ASSUME ResearchCapAssumption == ResearchCap <= 1 + 2 * MaxQueries

Levels == {"skipped", "empty", "weak", "strong"}
Weak == {"weak", "empty"}
Running ==
    {"resolve", "presearch", "forced", "rewrite", "loop", "stream", "dispatch", "return"}

\* _CLARIFY_NOTE_BUILDERS: the ways of asking the model what an unknown word means.
Notes == 2

\* The guesses offered to the student for one word, at most (round_n < 2).
MaxOffers == 2

NoClarify == [round |-> 0, described |-> FALSE]

-----------------------------------------------------------------------------

\* A lesson stored by a version that could die between a tool-calls message and
\* its results: what LessonStore.resume repairs.
DanglingList ==
    <<Message("system"), UserMsg(1), CallsMsg(CallIds), ResultMsg(1, {})>>

FreshLocals ==
    /\ research = 0 /\ gates = 0 /\ tried = 0 /\ calc = 0 /\ rounds = 0
    /\ todo = <<>> /\ backfill = <<>> /\ level = "skipped"

\* The turn is over: its locals and its cancel event go with it.
ClearLocals ==
    /\ cancel' = FALSE
    /\ research' = 0 /\ gates' = 0 /\ tried' = 0 /\ calc' = 0 /\ rounds' = 0
    /\ todo' = <<>> /\ backfill' = <<>> /\ level' = "skipped"

Init ==
    /\ log = EmptyLog
    /\ settings \in Settings
    /\ \/ saved = <<>> /\ pc = "idle"
       \/ saved = DanglingList /\ pc = "down"
    /\ cancel = FALSE
    /\ pending = NoClarify
    /\ turns = 0
    /\ FreshLocals

-----------------------------------------------------------------------------
(* The start of a turn *)

\* turn_runner with a fresh cancel event.
Begin(next) ==
    /\ pc = "idle" /\ turns < MaxTurns
    /\ turns' = turns + 1
    /\ cancel' = FALSE
    /\ pc' = next
    /\ UNCHANGED <<settings, saved, locals>>

\* A control button: no pre-search, straight to the model.  A clarify question that
\* is open stays open.
ActionTurn ==
    /\ Begin("loop")
    /\ log' = AppendMsg(AppendSystem(log), UserMsg(1))
    /\ UNCHANGED pending

\* The student's text and a reply the host writes by itself.
Exchange(l, w) == AppendMsg(AppendMsg(l, UserMsg(w)), AnswerMsg({}))

\* _clarify_gate: research() for the name the model guessed; a guess that cannot be
\* read, or is the one refused already, is not searched.
MaySearchName == gates' \in {gates, gates + 1}

\* "No" to the first offer: the student is asked to describe the word.
DescribeTurn ==
    /\ Begin("return")
    /\ pending.round \in 1..(MaxOffers - 1) /\ ~pending.described
    /\ pending' = [pending EXCEPT !.described = TRUE]
    /\ \E w \in UserWeights : log' = Exchange(log, w)

\* Neither yes nor no: the model guesses again, from the student's reply.
ReplyTurn ==
    /\ Begin("resolve")
    /\ pending.round \in 1..(MaxOffers - 1)
    /\ UNCHANGED <<log, pending>>

\* A new name that is a library title is offered; a reply of some length gets the old
\* offer once more.
OfferAgain ==
    /\ pc = "resolve"
    /\ \/ gates' = gates + 1 /\ pending' = [round |-> pending.round + 1, described |-> FALSE]
       \/ MaySearchName /\ pending' = [pending EXCEPT !.round = @ + 1]
    /\ \E w \in UserWeights : log' = Exchange(log, w)
    /\ pc' = "return"
    /\ UNCHANGED <<settings, saved, cancel, research, tried, calc, todo, level, backfill,
                   rounds, turns>>

\* The text an ordinary turn runs on: the student's, or what the clarify question that
\* it settles ("yes", given up, a short reply) was about.
BeginText(next) ==
    /\ \/ Begin(next)
       \/ /\ pc = "resolve" /\ pc' = next
          /\ MaySearchName
          /\ UNCHANGED <<settings, saved, cancel, research, tried, calc, todo, level,
                         backfill, rounds, turns>>
    /\ pending' = NoClarify

\* The topic gate declines.
HostReply ==
    /\ BeginText("return")
    /\ \E w \in UserWeights : log' = Exchange(AppendSystem(log), w)

\* The topic gate finds no content words: a synthetic no-search call is logged.
ChatTurn ==
    /\ BeginText("loop")
    /\ \E w \in UserWeights :
          log' = AppendMsg(AppendMsg(AppendMsg(AppendSystem(log), UserMsg(w)),
                                     CallsMsg({1})), ResultMsg(1, {}))

\* Any other text: the host searches first, with the student's own words.
QuestionTurn ==
    /\ BeginText("presearch")
    /\ log' = AppendSystem(log)

-----------------------------------------------------------------------------
(* The host's pre-search; and how any call to retrieval or the model can fail *)

\* assess_evidence: no passages is "empty".
LevelOf(ids) == IF ids = {} THEN {"empty"} ELSE {"weak", "strong"}

\* An exception outside the dispatch of tool calls: research() raises, or the model
\* server's stream is malformed.  turn_runner reports an error, nothing is persisted,
\* and what the turn has logged so far stays in the session.
TurnRaises ==
    /\ pc \in {"resolve", "presearch", "forced", "rewrite", "stream"}
    /\ pc' = "idle"
    /\ ClearLocals
    /\ UNCHANGED <<log, settings, saved, pending, turns>>

\* _try_clarify_trigger, after a pre-search that is not strong and has an unknown word:
\* the model's guess is no library title.
GuessFails ==
    /\ pc = "presearch" /\ settings.clarify /\ tried < Notes
    /\ tried' = tried + 1
    /\ MaySearchName
    /\ research' = 1
    /\ UNCHANGED <<log, settings, saved, pc, cancel, pending, calc, todo, level, backfill,
                   rounds, turns>>

\* It is one: the turn becomes the question "did you mean ...?".
PresearchAsks ==
    /\ pc = "presearch" /\ settings.clarify /\ tried < Notes
    /\ \E w \in UserWeights : log' = Exchange(log, w)
    /\ gates' = gates + 1
    /\ pending' = [round |-> 1, described |-> FALSE]
    /\ pc' = "return"
    /\ research' = 1
    /\ UNCHANGED <<settings, saved, cancel, tried, calc, todo, level, backfill, rounds,
                   turns>>

\* The pre-search goes on as a search: no unknown word was tried, or every guess at it
\* failed, which makes its evidence not strong.
Searched(next) ==
    /\ pc = "presearch" /\ tried \in {0, Notes}
    /\ pc' = next
    /\ research' = 1 /\ tried' = 0
    /\ UNCHANGED <<settings, saved, cancel, pending, gates, calc, todo, rounds, turns>>

MayBeStrong == tried = 0

\* The model writes the search on every turn, or on follow-ups only.
ModelSearches == settings.modelWrites \/ (settings.onFollowup /\ Starts(log.entries) # {})

\* The model gets to write a search of its own; the packet is kept as backfill.
PresearchThenForced ==
    /\ Searched("forced")
    /\ ModelSearches
    /\ \E ids \in Packets, w \in UserWeights :
          /\ backfill' = ids
          /\ level' \in LevelOf(Range(ids)) \ (IF MayBeStrong THEN {} ELSE {"strong"})
          /\ log' = AppendMsg(log, UserMsg(w))

\* Weak evidence: the packet is not shown, the model must rewrite the query.
PresearchThenRewrite ==
    /\ Searched("rewrite")
    /\ ~ModelSearches /\ settings.onWeak
    /\ \E w \in UserWeights : log' = AppendMsg(log, UserMsg(w))
    /\ UNCHANGED <<level, backfill>>

\* The packet is shown as it is.  A message too long even for the empty packet
\* raises PromptOverflow: the turn fails, unpersisted, after append_user.
PresearchThenShow ==
    /\ ~ModelSearches
    /\ \E ids \in Packets, w \in UserWeights :
          LET asked == AppendMsg(log, UserMsg(w))
              fits  == Trimmed(asked, ids, settings.reuse)
          IN  /\ settings.onWeak => MayBeStrong /\ ids # <<>>
              /\ \/ /\ Searched("loop")
                    /\ \E n \in fits :
                          log' = AppendEvidence(asked, Labelled(SubSeq(ids, 1, n)),
                                                settings.reuse)
                    /\ UNCHANGED <<level, backfill>>
                 \/ /\ pc = "presearch" /\ tried \in {0, Notes}
                    /\ fits = {}
                    /\ log' = asked /\ pc' = "idle" /\ ClearLocals
                    /\ UNCHANGED <<settings, saved, pending, turns>>

-----------------------------------------------------------------------------
(* The forced research rounds.  They send the log without evicting first   *)
(* and do not look at the cancel event themselves.                         *)

\* _lead_with_backfill: the pre-search fills the slots the lead left free.
LeadWithBackfill(lead, back) ==
    Range(lead) \cup
    {back[i] : i \in {k \in DOMAIN back :
        Len(lead) + Cardinality({j \in 1..k : back[j] \notin Range(lead)}) <= MaxPacket}}

\* The round's tool call and its result, which pastes the passages ids in full.
CallAndResult(l, ids) == AppendMsg(AppendMsg(l, CallsMsg({1})), ResultMsg(1, ids))

\* Mutant: the second round may be followed by another one.
AfterAnyRound(lvl) == IF settings.onWeak /\ lvl \in Weak THEN "rewrite" ELSE "loop"

\* A weak result leaves the first round for the second when the setting says so.
AfterRound(lvl) ==
    IF pc = "forced" /\ settings.onWeak /\ lvl \in Weak THEN "rewrite" ELSE "loop"

\* Neither the level nor the pre-search's packet is read again.
EndRound(lvl) ==
    /\ pc' = AfterRound(lvl)
    /\ level' = "skipped" /\ backfill' = <<>>
    /\ UNCHANGED <<settings, saved, cancel, pending, gates, tried, calc, todo, rounds, turns>>

\* The model says that no search is needed.
RoundSkipped ==
    /\ pc = "forced" /\ settings.modelWrites /\ settings.maySkip
    /\ log' = CallAndResult(log, {})
    /\ EndRound("skipped")
    /\ UNCHANGED research

\* No usable call from the model: the first round falls back on the pre-search
\* (pasted without being recorded as held), the second finds nothing.
RoundUnusable ==
    \/ /\ pc = "forced"
       /\ log' = CallAndResult(log, IF level = "strong" THEN Range(backfill) ELSE {})
       /\ EndRound(level)
       /\ UNCHANGED research
    \/ /\ pc = "rewrite"
       /\ log' = CallAndResult(log, {})
       /\ EndRound("empty")
       /\ UNCHANGED research

\* Mutant: the merged packet is held whether or not it is pasted.
RoundSearchesHoldsAll ==
    /\ pc \in {"forced", "rewrite"}
    /\ \E ok \in 0..MaxQueries, lead \in Packets :
          LET merged == LeadWithBackfill(lead, IF pc = "forced" THEN backfill ELSE <<>>)
          IN  /\ ok = 0 => lead = <<>>
              /\ research' = research + ok
              /\ \E lvl \in LevelOf(merged) :
                    /\ log' = MarkHeld(CallAndResult(log, IF lvl = "strong" THEN merged \ log.seen
                                                         ELSE {}), merged)
                    /\ EndRound(lvl)

\* The model's queries are searched, each counted when it succeeds, and the merged
\* packet is pasted when it is strong: with reuse, only what is not held already.
RoundSearches ==
    /\ pc \in {"forced", "rewrite"}
    /\ \E ok \in 0..MaxQueries, lead \in Packets :
          LET merged == LeadWithBackfill(lead, IF pc = "forced" THEN backfill ELSE <<>>)
          IN  /\ ok = 0 => lead = <<>>
              /\ research' = research + ok
              /\ \E lvl \in LevelOf(merged) :
                    /\ log' = IF lvl # "strong" THEN CallAndResult(log, {})
                              ELSE IF settings.reuse
                              THEN MarkHeld(CallAndResult(log, merged \ log.seen), merged)
                              ELSE CallAndResult(log, merged)
                    /\ EndRound(lvl)

-----------------------------------------------------------------------------
(* The answer loop *)

LoopCancelled ==
    /\ pc = "loop" /\ cancel
    /\ pc' = "return"
    /\ UNCHANGED <<log, settings, saved, cancel, pending, locals, turns>>

\* Make room, then send the log to the model.
Request ==
    /\ pc = "loop" /\ ~cancel
    /\ log' = Evict(log)
    /\ pc' = "stream"
    /\ UNCHANGED <<settings, saved, cancel, pending, locals, turns>>

\* The stream fails, or is closed because the student pressed Stop.
StreamEnds ==
    /\ pc = "stream"
    /\ pc' = "return"
    /\ UNCHANGED <<log, settings, saved, cancel, pending, locals, turns>>

\* Mutant: the answer is logged and the loop goes on.
StreamAnswersAndLoops ==
    /\ pc = "stream"
    /\ \E cites \in SUBSET Labels : log' = AppendMsg(log, AnswerMsg(cites))
    /\ pc' = "loop"
    /\ UNCHANGED <<settings, saved, cancel, pending, locals, turns>>

\* Text without tool calls is the answer.
StreamAnswers ==
    /\ pc = "stream"
    /\ \E cites \in SUBSET Labels : log' = AppendMsg(log, AnswerMsg(cites))
    /\ pc' = "return"
    /\ UNCHANGED <<settings, saved, cancel, pending, locals, turns>>

StreamCalls ==
    /\ pc = "stream" /\ rounds < MaxRounds
    /\ rounds' = rounds + 1
    /\ \E n \in 1..MaxCalls :
          /\ log' = AppendMsg(log, CallsMsg(1..n))
          /\ todo' = [i \in 1..n |-> i]
    /\ pc' = "dispatch"
    /\ UNCHANGED <<settings, saved, cancel, pending, research, gates, tried, calc, level,
                   backfill, turns>>

\* log.validate() after the last call raises on a log that cannot be replayed.
AfterDispatch(rest, next) ==
    IF rest # <<>> THEN "dispatch" ELSE IF IsValid(log') THEN next ELSE "idle"

EndCall ==
    /\ todo' = Tail(todo)
    /\ pc' = AfterDispatch(todo', "loop")
    /\ UNCHANGED <<settings, saved, cancel, pending, gates, tried, level, backfill, rounds,
                   turns>>

\* Mutant: the calls left get no result.
DispatchAbandoned ==
    /\ pc = "dispatch" /\ todo # <<>> /\ cancel
    /\ log' = log
    /\ todo' = <<>>
    /\ pc' = AfterDispatch(<<>>, "return")
    /\ UNCHANGED <<settings, saved, cancel, pending, research, gates, tried, calc, level,
                   backfill, rounds, turns>>

\* The student pressed Stop: every call left gets a "turn cancelled" result.
DispatchCancelled ==
    /\ pc = "dispatch" /\ todo # <<>> /\ cancel
    /\ log' = [log EXCEPT !.entries = @ \o [i \in DOMAIN todo |-> ResultMsg(todo[i], {})]]
    /\ todo' = <<>>
    /\ pc' = AfterDispatch(<<>>, "return")
    /\ UNCHANGED <<settings, saved, cancel, pending, research, gates, tried, calc, level,
                   backfill, rounds, turns>>

\* A call that is refused (invalid, or its cap is reached) or raises: its result
\* is the error text.  A search that is too long for the turn has counted by then.
DispatchRefused ==
    /\ pc = "dispatch" /\ todo # <<>> /\ ~cancel
    /\ log' = AppendMsg(log, ResultMsg(Head(todo), {}))
    /\ \/ UNCHANGED research
       \/ /\ research < ResearchCap /\ research' = research + 1
          /\ \E ids \in Packets : Trimmed(log, ids, settings.reuse) = {}
    /\ UNCHANGED calc
    /\ EndCall

DispatchResearch ==
    /\ pc = "dispatch" /\ todo # <<>> /\ ~cancel
    /\ research < ResearchCap
    /\ research' = research + 1
    /\ \E ids \in Packets : \E n \in Trimmed(log, ids, settings.reuse) :
          log' = AppendEvidence(log, Labelled(SubSeq(ids, 1, n)), settings.reuse)
    /\ UNCHANGED calc
    /\ EndCall

DispatchCalc ==
    /\ pc = "dispatch" /\ todo # <<>> /\ ~cancel
    /\ calc < CalcCap
    /\ calc' = calc + 1
    /\ log' = AppendMsg(log, ResultMsg(Head(todo), {}))
    /\ UNCHANGED research
    /\ EndCall

\* _persist_turn: repair what a failed call left open, then store the rendered log.
\* The store refuses a session whose subject is not the lesson's any more, and the
\* refusal is swallowed.
Persist ==
    /\ pc = "return"
    /\ log' = Repair(log)
    /\ \/ saved' = Render(log')
       \/ SubjectChanges /\ UNCHANGED saved
    /\ pc' = "idle"
    /\ ClearLocals
    /\ UNCHANGED <<settings, pending, turns>>

-----------------------------------------------------------------------------
(* The student, the process *)

Stop ==
    /\ pc \in Running /\ ~cancel
    /\ cancel' = TRUE
    /\ UNCHANGED <<log, settings, saved, pc, pending, locals, turns>>

Crash ==
    /\ pc # "down"
    /\ pc' = "down"
    /\ log' = EmptyLog
    /\ pending' = NoClarify
    /\ ClearLocals
    /\ UNCHANGED <<settings, saved, turns>>

\* A restarted process resumes the lesson: rebuild, repair, store the repair.
Resume ==
    /\ pc = "down"
    /\ pc' = "idle"
    /\ log' = Repair(Rebuild(saved))
    /\ saved' = IF IsValid(Rebuild(saved)) THEN saved ELSE Render(log')
    /\ settings' \in Settings
    /\ UNCHANGED <<cancel, pending, locals, turns>>

StartTurn ==
    \/ ActionTurn \/ DescribeTurn \/ ReplyTurn \/ OfferAgain
    \/ HostReply \/ ChatTurn \/ QuestionTurn
Presearch ==
    \/ TurnRaises \/ GuessFails \/ PresearchAsks
    \/ PresearchThenForced \/ PresearchThenRewrite \/ PresearchThenShow
ForcedRound == RoundSkipped \/ RoundUnusable \/ RoundSearches
Answer == LoopCancelled \/ Request \/ StreamEnds \/ StreamAnswers \/ StreamCalls
Dispatch == DispatchCancelled \/ DispatchRefused \/ DispatchResearch \/ DispatchCalc

Next ==
    \/ StartTurn \/ Presearch \/ ForcedRound \/ Answer \/ Dispatch \/ Persist
    \/ Stop \/ Crash \/ Resume

Spec == Init /\ [][Next]_vars

-----------------------------------------------------------------------------
(* Properties *)

TypeOK ==
    /\ log \in Logs
    /\ settings \in Settings
    /\ saved \in Seq(Messages)
    /\ pc \in Running \cup {"idle", "down"}
    /\ cancel \in BOOLEAN
    /\ pending \in [round : 0..MaxOffers, described : BOOLEAN]
    /\ pc = "resolve" => pending.round < MaxOffers
    /\ research \in Nat /\ gates \in Nat /\ tried \in 0..Notes
    /\ calc \in Nat /\ rounds \in Nat /\ turns \in Nat
    /\ todo \in Seq(CallIds)
    /\ level \in Levels
    /\ backfill \in Seq(Passages)

\* Whenever the model is sent the log, and whenever a turn is over, every tool call
\* in it is followed by exactly its results: an endpoint that is sent anything else
\* answers 400 and the lesson is wedged (PromptLog.validate).
RequestsReplayable == pc # "dispatch" => IsValid(log)

\* The full text of a passage is shown by one evidence message, or as one protected
\* passage, at most: the point of pointers and of the held ids.
EvidenceTextOnce ==
    /\ \A i, j \in DOMAIN log.entries :
          i # j => FullIdsOf(log.entries[i].shown) \cap FullIdsOf(log.entries[j].shown) = {}
    /\ FullIdsOf(log.protected) \cap FullIdsOf(ShownIn(log.entries)) = {}

\* A held passage is still named by some message: the pointer that replaces its
\* text in a later packet refers to something in the prompt.
HeldIsNamed ==
    log.seen \subseteq IdsOf(log.protected \cup ShownIn(log.entries))
                       \cup UNION {log.entries[i].pasted : i \in DOMAIN log.entries}

\* The answer is the last message of its turn, whatever rounds came before it.
AnswerClosesTurn ==
    \A i \in DOMAIN log.entries :
        log.entries[i].kind = "answer" =>
            i = Len(log.entries) \/ log.entries[i + 1].kind = "user"

\* What a turn may cost.  It makes at most the host's own search, MaxQueries searches
\* in each of two forced rounds, whatever the model calls by itself, and the searches
\* of the clarify checks, which research_calls leaves out: one per way of asking about
\* an unknown word, and one when the same turn settles an earlier clarify question.
\* (A search that raises is counted by the clarify checks only.)
ResearchBounded == research + gates <= (1 + 2 * MaxQueries) + (Notes + 1)

\* An answer request longer than the operating ceiling is the newest turn alone, or
\* carries passages that were put back for an answer that cites them.
OversizedRequestExplained ==
    pc = "stream" /\ OverCeiling(log.protected, log.entries) =>
        log.protected # {} \/ Cardinality(Starts(log.entries)) = 1

\* While a process lives, what the model was sent is only ever extended, unless the
\* log had outgrown the operating ceiling (the byte-prefix property).
PrefixKept ==
    [][pc # "down" /\ pc' # "down" =>
          \/ IsPrefix(Render(log), Render(log'))
          \/ Tokens(log.protected, log.entries) > OperatingCeiling]_vars

\* No label that a surviving answer cites loses its passage to an eviction.
EvictKeepsCited ==
    [][pc = "loop" /\ pc' = "stream" =>
          CitedLabels(log'.entries) \cap LabelsOf(log.protected \cup ShownIn(log.entries))
             \subseteq LabelsOf(log'.protected \cup ShownIn(log'.entries))]_vars

\* Resuming a lesson reproduces the stored list message by message, then at most
\* adds the results a dangling tool-calls message lacks.
ResumeExtendsSaved ==
    [][pc = "down" /\ pc' = "idle" =>
          IsPrefix(saved, Render(log')) /\ saved' = Render(log') /\ IsValid(log')]_vars

=============================================================================
