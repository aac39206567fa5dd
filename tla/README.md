# TLA+ models of kiwix-ai-tutor

Kiwix AI Tutor is a local lesson assistant: a FastAPI process holds one *prompt log* per
lesson, asks a llama.cpp server for the tutor's answers, and grounds them in passages it
retrieves from offline ZIM archives. This directory holds TLA+ modules of the parts whose
correctness depends on order, history or failure, TLC configurations that check them on small
instances, and TLAPS proofs of what holds for every instance. Paths below are relative to the
repository root; `PROJECT.json` maps every definition to the lines it models.

## 1. The system

### Components

| Component | Source | State it keeps | Operations | What is hard about it | Correct when |
|---|---|---|---|---|---|
| Prompt log | `tutor/app/prompt.py` | turns of messages, protected passages, held passage ids | append (system, user, answer, tool calls, tool result, evidence), `render`, `validate`, `repair`, `evict` | a long history of appends, two-stage evictions and rebuilds decides what the model sees | every request can be replayed to the server; the prompt is only extended, except by an eviction; no text is shown twice; what an answer cites is still there |
| Turn loop | `tutor/app/agent_loop.py` | the log, per-turn counters | `run_turn`: routing, clarify questions, host pre-search, forced research rounds, voluntary tool calls, answer | cancellation, exceptions and caps at every point between two blocking calls | a turn ends with its answer; every tool call has its result whatever failed; searches are bounded |
| Lesson store | `tutor/app/lesson_state.py`, `retrieval/_sqlite_retry.py` | one SQLite connection: lessons, turns, the rendered log; a transaction and a lock | open with retries, `start_lesson`, `persist_turn`, `save_session`, `resume` | a transaction of three statements shared by all threads; a statement that raises; a crash at any of them | a kept turn stays, in its lesson, with the log that has it |
| Session registry, turn runner | `tutor/app/compose.py` | in-memory sessions, the id counter; the persist step | create, resume, `set_subject`, `turn_runner`, `_persist_turn` | sessions that share a lesson, ids that start again after a restart | the same, seen from the session |
| Routes | `tutor/app/routes.py` | `active_turns`: the cancel event of the running turn per session | `POST turn` (check-and-set, thread, streaming generator), `POST stop` | three actors per turn and a client that leaves at any time | one turn at a time per session; Stop reaches the student's turn; the session is freed |
| Dense sidecar builder | `tutor/retrieval/index/simplewiki_build.py`, `simplewiki_store.py`, `manifest.py` | three append-only files, `checkpoint.json`, `manifest.json` | `build_index`, resume | a crash between or inside any of the writes | the index that opens is the one an uninterrupted build writes |
| Dense index | `tutor/retrieval/hybrid/dense.py` | memory-mapped files | `open`, search | opens files that a builder may be rewriting | accepts only complete indexes |
| ZIM worker pool | `tutor/retrieval/zim/worker.py` | a child process and a pipe per archive, behind a lock | `request`, `interrupt`, `close` | deadlines against late replies, interrupts against the lock | a reply belongs to its own request |
| Research engine | `tutor/retrieval/research.py`, `hybrid/*` | workers, response cache, rarity cache, the request under way | `research`, `research_many`, `close` | a dozen batches of worker calls per archive, each of which may be late or fail in part; two deadlines; caches that outlive the request | what a response says of itself is true, whatever failed; time and size are bounded |
| Evidence assessment | `tutor/retrieval/assessment.py` | none | `assess_evidence` | the same words in unrelated articles, the same topic with another number | "strong" only with a passage that is about the question |
| Snapshots | `tutor/retrieval/snapshots.py` | SQLite table of shown passages | put, get | put while another response is built | shown text can be fetched again |
| Calculator tool | `tutor/tools/*` | a child process per evaluation, a reader thread, a deadline and a memory baseline | `evaluate` | the child hangs, dies, grows, or answers at the deadline | one result per call, no process left |
| Model server client | `tutor/app/llm_client.py` | one HTTP connection and the buffer behind it | `stream_chat` | silent, cut, cancelled and refused streams; fragments of tool calls | the outcome is reported as what it was |
| Repetition guard | `tutor/app/repetition_guard.py` | none | `find_repetition_loop` | runs, cycles and an unfinished tail, on a text that grows | no answer with a loop, no good answer cut |
| ZIM updater, fetcher | `scripts/kiwix_update_zims.py`, `kiwix_fetch_new.py` | `.part` files, `_update_state.json` and `_additions_state.json` (one per script), library and archive folders | scan, plan, download, verify, rename, move, retry moves | crash between any two file operations; files of the other script in the same folder | no archive lost; reruns converge |
| Text analysis | `clarify.py`, `followup.py`, `topic_gate.py`, `citations.py`, `morph.py` | none | pure functions | text processing | per-function tests |
| Browser client | `tutor/ui/app.js` | session id, busy controls, the controller of the request, the last events: one of each per window; a bubble per message | send, Retry, Stop, change of subject, frames | callbacks of several requests over shared variables; requests lost, refused, cut or aborted | a streaming turn can be stopped; an answer bears its own citations; each message ends in an answer or an error |

### How they interact

The student's message reaches `POST /turn`. The handler registers a fresh cancel event under a
lock, starts a *turn thread*, and returns a streaming response whose *generator* takes frames
from a queue the thread fills. The thread runs `run_turn` on the session's `PromptLog`:

    settle an open clarify question -> route the message
      -> host pre-search (-> ask a clarify question) -> up to two forced rounds (model writes the queries)
      -> loop { evict, send, stream } -> answer | tool calls -> dispatch each -> loop
      -> repair, persist (one SQLite transaction)

`POST /stop` sets the event of whichever turn is registered. The loop looks at it at its head,
while streaming, and between two tool calls. The store keeps `PromptLog.render()`'s list only;
a restart rebuilds the log from that list.

A search of several queries (`research_many`) runs a *query thread* per query. For each archive
they share a `ZimWorker`, whose child process answers one request at a time over a pipe; the
worker's lock is held from the sending of a request to its result. A query thread makes each
call from a *request thread* and gives up on it when it is late; `fetch_article_text`, the
source view, calls the same worker directly. `research` itself is one thread's work: for each
archive a fixed series of call sites (joint query, single terms, rarity, spelling, compounds,
entities, relaxation, variants, articles), each a batch of worker calls bounded by the time
left, after which the next one uses whatever came back; then one ranking, one packing and one
assessment over all archives. The builder of the dense index is a separate
process which shares only files with the server.

An answer is a stream: llama-server writes frames into a socket, `_consume_stream` selects on
the raw socket, reads lines through a buffered response, gathers tool call fragments by index
and yields events; the loop appends the text and asks the guard after every few characters; a
forced round consumes the same stream and keeps only the call. A calculation is a child process
that writes a ready line and a result line, which a reader thread of the parent puts in a queue.

`LessonStore` is one connection for all threads. A write holds the store's lock from the first
statement to the commit; when a statement raises, the lock is released and the transaction stays
open until the next commit or the next crash. The updater and the fetcher are scripts
that download into the library folder, which the server reads, and keep a state file each.

## 2. Modules

| Module | Models | Kind |
|---|---|---|
| `PromptLog` | `PromptLog` and `_rebuild_prompt_log` as operators from a log to a log | operators |
| `TutorTurn` (extends it) | `run_turn`, persist, crash, resume: one lesson's turns | state machine |
| `TurnGate` | the routes: registration, thread, generator, client, Stop | state machine, fairness |
| `ChatWindow` | a browser window: its session, its turns and their frames, Stop, Retry, against the route | state machine, fairness |
| `LlamaStream` | `stream_chat` and the server, the socket and the buffer it reads from | variables and actions, composed below |
| `Calculator` | `calc_tool.evaluate` and its child process | variables and actions, composed below |
| `RepetitionGuard` | `find_repetition_loop` | operators |
| `AnswerRound` (extends the three) | the requests of one turn: forced request, answer, dispatch of calculations, Stop | state machine, fairness |
| `LessonStore` | the SQLite connection and its transaction, the session registry, the routes of lessons | state machine |
| `EvidencePacking` | rank fusion, scoring, cutoff, packing, coverage | operators |
| `Assessment` | `assess_evidence` | operators |
| `ResearchQuery` (extends both) | `research` with its call sites, deadlines and caches | state machine, fairness |
| `WorkerService` | what a query may expect of a worker: the abstract request/reply service | state machine |
| `WorkerPool` (instantiates it) | `ZimWorker`, its process, and the threads of the research engine that share it | state machine, fairness |
| `DenseBuild` | the sidecar builder with crashes; what `DenseIndex.open` accepts | state machine |
| `ZimUpdate` | the updater and the fetcher with crashes | state machine, fairness |
| `MC...` | the instances TLC checks | constants |
| `TutorTurnProofs` (with the lemmas about `PromptLog`), `StopProofs` (about `TurnGate` and `ChatWindow`), `AnswerRoundProofs`, `LessonStoreProofs`, `ResearchQueryProofs`, `DenseBuildProofs`, `WorkerPoolProofs`, `ZimUpdateProofs` | the theorems of section 6 | proofs |

`TutorTurn` and `TurnGate` are two views of one turn. `TutorTurn` keeps the log and the calls
and has one turn thread; `TurnGate` keeps the actors around the thread and drops the log. They
meet in the cancel event: `TurnGate`'s thread looks at it exactly where `TutorTurn`'s does (head
of the loop, end of the stream, dispatch; not in the pre-search and the forced rounds).
`AnswerRound` is the third view: what `TutorTurn` takes as one step (`StreamAnswers`,
`StreamCalls`, `DispatchCalc`) is there the socket, the guard and the child process. And
`ResearchQuery`'s call sites are `WorkerPool`'s calls: `WorkerPool` shows that a call returns
once, with its own reply or as failed; `ResearchQuery` takes a batch as any subset of replies.
`ChatWindow` is the turn from outside: what of it reaches the student, over connections that
`TurnGate` only knows as there or gone.

### PromptLog

A log is the record `[system, protected, entries, seen]`. `_turns`, a list of lists, is kept
flat: a turn is a `user` message and what follows it. `append_user`, `append_assistant`,
`append_assistant_tool_calls` and `append_tool_result` all are `AppendMsg` of a message of their
kind; `append_evidence` is `AppendEvidence`, which replaces held passages by pointers (or drops
them when reuse is off), and `Trimmed` is the loop around it that drops the lowest ranked
passages until the packet fits, or raises. `Evict` follows the code's order: stage 1 replaces
uncited evidence oldest first, stage 2 pops whole turns, re-protection puts back what surviving
answers cite, and the held ids are recomputed from what is left.

A passage is a model value with a label and a flag, full text or pointer. The weights
`FullWeight`, `PointerWeight` stand for token counts; a message without passages weighs its
`weight`. Dropped from the data: the wording of every message, the order of passages inside a
packet once trimming has used it, and the order among protected passages (`Render` uses one
fixed order of them, the same for what is stored and what is sent). The optional seed exchange
is left out (off by default, never edited). Call ids are distinct and present; a message without
id is an evidence packet, as in the code.

### TutorTurn

`pc` says where the turn thread waits: `resolve`, `presearch`, `forced`, `rewrite`, `loop`,
`stream`, `dispatch`, `return`; `idle` between turns; `down` when the process is dead. One action is one
stretch between two waits, so that Stop and Crash fall between any two. Actions and code:

* `ActionTurn`, `HostReply`, `ChatTurn`, `QuestionTurn` are the routes a message can take in
  `_run_turn_inner`; `PresearchThenForced`, `...Rewrite`, `...Show` are the three continuations
  the settings select.
* `GuessFails` and `PresearchAsks` are `_try_clarify_trigger`: a guess at an unknown word that is no
  library title, and one that is and makes the turn a question ("did you mean ...?"). `pending` is
  `Session.pending_clarify`. The next turn is `_resolve_pending_clarify`: `DescribeTurn` (no, to the
  first offer), `ReplyTurn` then `OfferAgain` (another name, or the old offer once more), or
  `BeginText`, which settles the question and goes on as an ordinary turn. `_clarify_gate` searches
  a name with `research()` and counts it nowhere; the model counts these searches in `gates`, apart
  from `research`, which is the code's `research_calls`.
* `RoundSkipped`, `RoundUnusable`, `RoundSearches` are the ways out of
  `_run_forced_rewrite_round`. A forced round is one action: it reads the cancel event only as
  "no usable call", and `research_many` never raises.
* `LoopCancelled`, `Request`, `StreamEnds`, `StreamAnswers`, `StreamCalls` are the loop, and
  `DispatchCancelled`, `DispatchRefused`, `DispatchResearch`, `DispatchCalc` the dispatch.
* `TurnRaises` is an exception outside the dispatch: the runner reports an error and stores
  nothing, and the log keeps what was appended.
* `Persist` is `_persist_turn`; with `SubjectChanges` the store may refuse.
* `Crash`, `Resume` lose the memory and rebuild from `saved`, with possibly other settings.
  `Init` also allows a stored list that ends in an unanswered tool-calls message, the case
  repair-on-resume was written for.

What the model answers, what retrieval returns, how good the evidence is and how text is
classified are nondeterministic; so is which words were given up (`clarify_skip_words`).

### TurnGate

`active` is `active_turns[session_id]` of one session; sessions share nothing else. Each turn
request has a thread, a generator (`stream`), a queue (`frames`, `sentinel`) and a client
(`connected`). `CloseAtYield` and `DropUnstarted` are the two ways a generator ends when its
client has gone: suspended at a `yield` its `finally` runs, before its first step nothing runs.

### ChatWindow

`page` has the variables all handlers of `app.js` share, `sends` the calls of `sendTurn`, each
with what its closure keeps (the session it asked for, its bubble) and how far its turn has come
(`at`). JavaScript runs a handler up to its next `await`, so an action is a handler or what
follows an `await`: `Submit`, `Retry`, `SessionCreated` (with the rest of `sendTurn`, `Begin`),
`Respond`, `HandleFrame`, `ReadEnd`, `Breaks`, `ClickStop`, `StopAnswered`. `RunTurn` and `Report`
are the frames `turn_runner` sends, in their order; a status or tool frame changes no more than
the status line and is left out. A frame is heard when it is sent, and `Drops` may cut the
connection before any of them. `alone` remembers whether a call was open by itself all the time:
when it was not (two messages before there was a session, a Retry beside a turn), the end of one
frees the window for both, and their citations mix.

### DenseBuild

A row is an article's entry id, or `Torn` when a crash cut it. The three files are appended one
after the other; a crash may leave any prefix of the append under way (`Partial`). Truncation at
the start of a run is one action, being idempotent. Archive and embedding model stay the same
across runs (`build_index` refuses a checkpoint of another one).

### WorkerService and WorkerPool

`WorkerService` is the contract of `_call_worker_dispatch`: a client asks, and each call returns
once, with the reply to that very call or as failed; `ServiceFairness` says that it does return.
`WorkerPool` is the code, for one archive. A client is a query thread (with a request thread per
call: `thread`, `box`) or a direct client (`Direct`), which waits for its result without a
deadline of its own.

* `Send`, `SendFails`, `SendRefused`, `Receive`, `ReceiveFails`, `PollTimesOut` are
  `ZimWorker.request`. The lock is not a variable: it is held while a request of the worker is
  `polling` (`Free` says that none is). What runs under the lock without waiting for the process
  is one action. `Terminate` kills the process and closes the pipe.
* `Serve` and `Die` are the process. A message is the call it is about, so a reply read by the
  wrong request shows.
* `GetWorker` and `MakeWorker` are `_get_worker`, which nothing locks: two clients may make a
  worker each. A worker bears its maker's name.
* `Call`, `Take`, `GiveUp`, `Interrupt`, `JoinEnds` are `_call_worker_dispatch`; `JoinEnds` may
  leave the request thread behind, still wanting the lock.
* `BeginClose`, `CloseWorker`, `ClearPool` are `ResearchEngine.close`.

Deadlines have no length: a poll may time out whenever no reply is there, and a client may give
up whenever it has no result, in any order. This covers every relation between the deadlines
and the slack of 0.05 s. Dropped: the per-query memo (private to a thread), what replies say
(a batch's per-operation errors are a reply), and the other archives, which share nothing but
the loop in `close`.

The refinement takes a call as asked once it has a request thread (`Asked`); `replies` and
`failures` record what each client was given, and nothing reads them.

### LlamaStream, Calculator, RepetitionGuard and AnswerRound

`LlamaStream` has the server's frames (a unit of text, the two fragments of a tool call, the
finish reason, `[DONE]`), the socket `wire` and the response's buffer `held`. `Readable` is the
select on the raw socket, which does not know of the buffer: a frame the last read pulled in is
looked at when the socket is readable again. `Takes` is one frame of `_consume_stream`, `AtEnd`
the empty chunk or `OSError`, `FinalReason` the reason reported; a tool call is "cut" when its
second fragment did not come. A refused request and a connection that breaks are external
choices at every point.

`Calculator` is `evaluate`: `CalcStarts`, `StartupExpires`, `CalcAsks`, then `CalcReads`,
`CalcOverMemory`, `CalcOverTime` in the polling loop; the child is ready, asked, computing,
answered, dead. Time is one bit: the deadline has passed or not (`Deadline`).

`RepetitionGuard` is `find_repetition_loop` over units. A unit is its normalised form and
whether it is long enough to be judged.

`AnswerRound` composes them on the turn thread, `pc`: a forced request and its fallback, then
answer requests, each followed by the dispatch of its calls. Its status and answer are
`TurnResult`'s. One forced round is modelled; a second is the first again. The guard reads whole
units; `find_repetition_loop`'s allowance for an unfinished unit is `TailSkip`. `StreamRaises` is
a chunked response that ends before its last chunk, an exception `llm_client.py:254` does not
catch, which ends the turn in `compose.py:392`.

### LessonStore

`db` is what is on disk, `view` what the connection sees: `db` and the open transaction. `lock`
is `LessonStore._lock`. Each statement of `persist_turn`, `start_lesson` and `save_session` is an
action (`CountRows`, `InsertTurn`, `UpdateLog`, `CommitTurn`...), at any of which the statement
may raise (`Raises`, `PersistRaises`): the lock is released, `view` stays, and the next commit of
any thread writes it. `Crash` loses `view`, the sessions and the running turns; windows (`tab`)
keep the session id they had, and ids start again at 1. `Open`, `Opened`, `OpenFails` are
`connect_store` with its retries of transient errors.

A log is the sequence of turns it has: what a turn puts into it, and eviction, is `TutorTurn`'s.
`whole` says whether the stored log is without a dangling call; `SaveSession` is resume's save
after the repair. There is one subject: what a refused save does to a lesson is in
`TutorTurnCalls`, where the subject of a session may change.

### EvidencePacking, Assessment, ResearchQuery

`EvidencePacking` has the formulas of `rrf.py`, `ranking.py`, `diversity.py`, `packer.py` and the
scoring and cutoff of `research.py`, in integers: scores are counted in `1/Unit`, and `Unit` is a
multiple of every denominator that occurs. `Assessment` is `assess_evidence`; a passage is the
words of its title and text, the phrases that stand in either word for word (`phrases`), and those
that stand there as a run of letters only (`letters`, "ion" in "million"), which
`_phrase_in_passage` takes as well.

`ResearchQuery` is `research`: `pc` is the call site in hand, `req` the local variables of
`research`, `arch` those of `_process_archive`. Each batch of worker calls is one action that
picks a reply: which operations succeeded (all but up to `MaxFailures` in a behaviour) and how
many ticks it took (up to the deadline the code passes, at least one, as the code passes at
least a minimum). `SearchJointly`, `SearchTerm`, `TermsDone` are call site 1 with its fallback to
single terms; `LookUpRarity` the counts and their cache; `SuggestTitles` and `CorrectSpelling`,
`SplitWords`, `JoinWords` and `SearchCorrected` the corrections; `SearchEntities`, `Relax`,
`CountTogether`, `ExpandVariants`, `SubstituteVariants` the widening; `RankArticles`,
`SearchHint`, `FetchArticles` the end. `TierDone` is the decision for the fallback tier,
`Respond` ranking, packing, assessment, snapshots and the response cache.

`lost` remembers the call sites that had an operation fail. The code sets `any_timeout` after the
first searches, those for entities and relaxed queries, the hint and the articles
(`AfterSearch`); failures of the others, the corrected and variant searches, the embedding and all
lookups, are not reported (`Unreported`), and the response may then say "ok".

Data of the instance: what the archives hold, which words are near, split, joined or related, and
what a dense index finds. Dropped: tokenizing, BM25 and edit distance (they produce that data),
wording, logging, and the OrderedDict of the response cache under several threads (`research_many`
calls `research` from several; the `get` and the `move_to_end` of a hit are two operations).

### ZimUpdate

A file is a series and a release. `part` is the `.part` file: chunks, and whether they are
intact. `stored` is `_update_state.json`, `state` the run's copy of it. One run is active at a
time; `mode` says of which script, `pc` is the step of `process_download` or `process_item`
(`BeginItem`, `FreeSpace`, `CurlChunk`, `CurlDone`, `CurlFails`, `Verify`, `Rename`, `MoveOld`,
`Record`). A retried move is two steps, `RetryDeferredMove` (the files) and `SaveMove` (the state
file). `Interrupted` is Ctrl-C, the kill of the script, or the end of a run with `--limit`:
it may come between any two steps. A release may repeat a month with a letter (`Lettered`),
which a scan does not recognise as dated; the catalog's length may be wrong (`Listed`) and a hash
may be missing (`Unhashed`).

`Converges` shows what a rerun cannot mend: a part file of the full size that is damaged. curl
finds nothing to fetch, the hash never matches, and no run deletes the file (`Stuck`).

## 3. Runs

| Run | Shows | Bounds | States |
|---|---|---|---|
| `TutorTurnCalls` | the log the model is sent is always replayable; a turn ends with its answer; the searches of a turn are bounded, clarify guesses included; a resume repairs the stored list and loses nothing else, after refused saves too | 1 passage, packets of 1, 2 calls per message, 2 turns, 2 forced rounds of 1 query, 1 voluntary round, user messages of weight 1 or 5, default settings (clarify on), subject changes | 1.54 M |
| `TutorTurnPackets` | no text twice in evidence, what is held is named, oversized requests explained, prefix kept, cited passages survive eviction, resume extends the stored list | 2 symmetric passages, packets up to 2, 3 turns of host searches, weak evidence rewritten once or shown without reuse (either after each restart), user messages of weight 1 or 6, a ceiling of three texts | 943 k |
| `TurnGate` | Stop reaches the connected student's turn, stopped turns end, sessions are freed | 2 turn requests, queues of 1 frame | 10 k |
| `ChatWindow` | a turn that streams can be stopped; an answer bears its own citations; each message ends in an answer or an error and the window can be used again, unless the model keeps a turn nobody stopped | 3 messages, 2 callers waiting for a session, 1 click on Stop or restart of the server | 422 k |
| `AnswerRound` | no answer has a loop in it; a completed stream is shown whole; no child outlives its evaluation; Stop ends whatever the turn waits for | 4 units per completion from 3, 2 calls, 3 frames in flight, runs of 3, cycles of period 2 seen twice, 1 calculation | 736 k |
| `LessonStore` | a kept turn stays, numbered without gaps, in its window's lesson; a lesson used alone loses no turn; a row comes with its log | 2 symmetric windows, 2 lessons, 2 sessions per process, 2 turns, one fault: a crash or a statement that raises | 920 k |
| `ResearchQuery` | the status and the level of a response are true; its passages can be cited; time and size are bounded; requests end | 3 archives in 3 tiers, 3 questions, 2 requests, cache of 1, soft deadline 1, hard 2, 2 ticks per call, 1 failed batch | 312 k |
| `ZimUpdate` | the last release of a series leaves only by a retried move of an update under way, a damaged file enters only without a hash, nothing is deleted, reruns converge | 2 series, one held and one wanted, 3 releases, 2 chunks per file, 1 fault | 247 k |
| `DenseBuild` | whatever crashes, an index that opens is complete and stays | 8 entries, limits 4, 6, 9, 4 batchings, 3 runs | 3 k |
| `WorkerPool` | calls return, once, with their own reply or as failed; a freed lock leaves a clean pipe; a closed worker stays down | 1 query thread, 1 direct client, 2 calls each | 184 k |
| `OneTurnAtATime`, `OldLeavesAfterNew` | the findings of section 5 | as `TurnGate`; 1 series, each release in a month of its own | stop at the violation |

Why the bounds are enough.

*TutorTurnCalls:* the pairing of calls and results is local to one message; two calls give a
first and a remaining one at each failure, and a second turn gives every shape of log a repair,
validate or eviction can meet after it. Weight 5 is a message over the newest budget of 4 (6
over 5 in *Packets*), so trimming fails even for the empty packet. One passage is
enough there: a packet has it as text, as a pointer, or is empty. Two turns are a clarify question
and the turn that answers it; with a crash between, resume finds the two unanswered calls a stored
list may end in, and answers both; a changed subject makes the store refuse the second turn. *Packets:* with two
passages of weight 3 and a ceiling of 9 the third turn forces both stages of eviction, a pointer
whose text has gone, and re-protection of a cited passage; label S1 means different passages in
different packets. *TurnGate:* the second request is the one that may be refused, run alone, or
overlap with an abandoned first one. *ChatWindow:* three messages are one that failed, one under
way and a Retry beside it; two callers without a session are the load and a message, or two
messages. With a Stop and a restart in one behaviour (972 thousand states) the invariants hold as well.

*AnswerRound:* four units hold a run of three after another unit, a cycle of period 2 seen twice,
and a short unit inside either; three frames in flight leave one in the socket, one in the buffer
and one to come; two calls make a whole one precede a cut one. Memory of 1, 2 and up to 3 under a
limit of 3 makes the library alone pass and the expression exceed. *LessonStore:* two windows on
one lesson, or on two; one turn persists while another is between its statements; a fault comes
before, inside or after either. Without the constraint of one fault (a crash and a statement
that raises, 3.8 million states) the properties hold as well. *ResearchQuery:* the three
questions are misspelt, fused or split, and the second archive is the larger; deadlines of 1 and
2 ticks with calls of up to 2 put either deadline before, inside and after any call site; the
second request finds the first's cache, or evicts it. *ZimUpdate:* the third release shares its
month with the second and bears a letter; every file operation is followed by the one fault in
some behaviour; the file without a hash and the wrong length are the interesting case each.

*DenseBuild:* the archive has a redirect, articles without a lead passage in the middle and at
the end; batches of one to three articles leave full and partial batches at each limit; three
runs allow a crash, a crash of the resumed run, and a rerun of a finished build. *WorkerPool:*
two clients make the race in `_get_worker`, and two calls each let an abandoned request thread,
its client's next call and the other client compete for one lock (two query threads instead pass
as well, in ten times the time).

Every bound is named: `MaxTurns`, `MaxRounds`, `MaxQueries`, `MaxCalls`, `MaxPacket`,
`MaxFrames`, `MaxSends`, `MaxEarly`, `MaxTroubles`, `MaxRuns`, `MaxUnits`, `InFlight`, `Preamble`, `MaxLessons`, `MaxSessions`,
`MaxFailures`, `MaxCrashes`, `MaxRequests`, `MaxRelease`, `Size`, `MaxFaults`. `MaxQueries`,
`MaxPacket`, `CalcCap`, `Retries`, `CacheSize`, `Budget` exist in the code with larger values;
the others cap what the code leaves open. Deadlock is checked in the `TutorTurn` runs (a process can
always crash or resume), and in `AnswerRound`, `ResearchQuery` and `ZimUpdate`. It is off for
`TurnGate`, `ChatWindow`, `WorkerPool` and `LessonStore`, where all requests, messages, calls or
turns have been made,
and for `DenseBuild`, where the builder ends.

Each property of a passing run has a *mutant* in `PROJECT.json`: an operator of the same module,
marked "Mutant:", with a plausible bug of the code, under which TLC finds the property violated.
Each state machine has a `TypeOK`, which states the shape of its state for a reader. No run
spends time on it: it is proved for all of them (section 6), for `ChatWindow` in the form its
proof needs (`Typed`).

## 4. Fairness

`TurnGate`'s `GateLiveSpec` assumes weak fairness, per turn, of the
handler's second half (`Launch`; nothing in it waits), of the generator (`StreamStep`; the server
iterates a response until it ends or the client is gone), and of the thread of a turn that was
stopped (`cancel[t] /\ ThreadStep(t)`: the poll of a silent stream looks at the event,
`llm_client.py:241-251`, and calls to retrieval have deadlines). A turn that nobody stops may wait
for the model, or ask for tools, for ever. Nothing is assumed about the student (`Stop`, `Leave`, a
new request) or about frames being emitted: `StopEndsTurn` needs the cancel event, not the model's
cooperation.
`SessionFreed` excludes one case: a client that leaves before the response is first iterated
leaves its registration for ever.

`ChatWindow` assumes that a request is answered or fails, that what arrives is read, and that a
turn goes on once it is stopped or has its result. A turn that is with the model (`WithModel`) may
stay there for ever: `llm_client.py:241-251` polls a silent stream without end, and the rounds of
`agent_loop.py:2267` have no bound. Connections need not break (`Drops` is not fair) nor hold, the
student clicks or not, and the server may restart. `SendsEnd` is then about every way out of
`sendTurn`: again and again, each message has its answer or error and the controls are free, but
for those whose turn the model keeps and no Stop reaches.

`AnswerRound` assumes that the turn thread takes steps unless it waits for a silent stream or a
child (`Waiting`), and that the calculator's deadline passes. The server and the child owe
nothing: they may be silent for ever. `StopEnds` is about Stop against exactly that.

`WorkerPool`'s `LiveSpec` assumes weak fairness of each request (`poll` has a deadline, and a
lock that stays free is taken), of `MakeWorker`, and of a client that can take its result,
interrupt, or leave its join, which has a timeout. The process may be slow for ever or die
(`Serve` and `Die` are not fair), and nothing forces a client to give up: `CallsReturn` holds by
the deadline of the poll alone. That a request gets the lock at all rests on the finite number
of calls, not on a fair lock.

`ResearchQuery` assumes that `research` goes on: it runs in its caller's thread, and each of its
calls is bounded (which is what `WorkerPool` shows). `ZimUpdate` assumes weak fairness of the
steps of a run, and strong fairness of starting the updater without `--only`: someone runs it
again and again, since the scripts do not. Faults are bounded, so that a run eventually completes.

## 5. Where the documentation and the code differ

Two runs check a sentence of the repository and find it violated (`findings` in
`PROJECT.json` quotes them):

1. `OneTurnAtATime`: after a client disconnects, the next turn runs concurrently with the
   abandoned one on the same log. What does hold is `StopReachesConnected`:
   of two such turns one has lost its client, and Stop takes the other.
2. `OldLeavesAfterNew`: an update that is interrupted after an earlier move was deferred, then a
   run with `--retry-moves`, takes the release in use out of the library with nothing in its
   place. What does hold is `NothingDeleted`, and `LastReleaseStays`: the last release of a series
   leaves only like this, by a retried move whose entry is of an update that has begun and not
   completed.

The models show these as well, each by a counterexample when it was written; they have no run of
their own:

* `prompt.py:250` and `593`: held means that the passage's full text is in the prompt. After an
  eviction a surviving pointer alone keeps a passage held (`prompt.py:597`). What does hold is
  `HeldIsNamed`, and `EvidenceTextOnce`.
* `docs/passage_reuse.md:50`: held ids survive a resume. Those pasted into a tool result by a
  forced round do not (`lesson_state.py:101`).
* `simplewiki_build.py:129`, `258`: the limit. Extending a finished build with a larger limit
  counts trailing articles without a lead passage twice (`232`), so it ends short of it. It
  shows with `SameLimit = FALSE`; with equal limits `OpenedIsComplete` holds.
* `worker.py:314`: `interrupt` unblocks a request in flight. It waits for the lock which that
  request holds (`320`); the request's own deadline ends the wait (`CallsReturn`).
* `research.py:1198-1200`: a failed count is not cached. `_cached_batch_matches` stores it as 0,
  and the word is then taken for a misspelt one by every later question.
* `hybrid/lexical.py:328-332`: a modifier, a measure word after "how" included, is never enough to
  certify a passage, in the assessment as in the search. `assess_evidence` knows only the
  superlatives (`assessment.py:275`, `466`, `721`): for "How long is DNA?" a passage on the long
  jump alone covers half of the words, has the topic "long" in its title, and is "strong". What
  does hold is `StatusHonest`.
* `docs/retrieval_baseline.md:228`: weak coverage is "partial" if a deadline was hit. When the
  soft deadline has passed after tier 1, the fallback tier is skipped without `any_timeout`
  (`research.py:2565`), and the response says "empty" though not everything was searched.
* `lesson_state.py:287-295`: a turn and its log are written together. When the UPDATE raises,
  nothing rolls the INSERT back, and the next commit of any thread writes half a turn. What does
  hold is `TurnComesWithLog`. (After two faults even a turn of a lesson that is not there: a raise
  leaves the lesson uncommitted, it is resumed, a second raise and a rollback take it away, and the
  turn's UPDATE changes nothing while its INSERT is committed; the property excepts it.)
* `calc_tool.py:20-35`, `calc_worker.py:12-17`: the memory baseline is taken after sympy is
  imported. The worker imports it lazily, after the ready line (`calc_worker.py:177-182`), so the
  import counts toward the expression's limit.
* `docs/calc_tool.md`: the parent is never blocked past the deadline. The wait for the ready line
  has a length of its own, up to 5 s.
* `agent_loop.py:170`: `truncated` is `None` for an answer that was not cut. It is `None` as well
  for an answer whose stream broke: the client reports "stop" (`llm_client.py:306-328`).
* `kiwix_update_zims.py:85-88`: local file names never carry the letter of a release that repeats
  a month. The fetcher keeps the listed name, letter included, which no later scan recognises.
* `HANDOFF.md:211`: the status line stays lit from Send to the first token. `handleFrame` takes the
  working bubble away with the first frame that is no status or tool frame (`app.js:1700`), an
  eviction note included; and an error frame too, so that the Retry of its handler
  (`app.js:1637`) never shows: an error before any text has no Retry button.
* `docs/dense_sidecar.md:49` says `checkpoint.json` is absent once the manifest exists; no code
  removes it. `docs/agent_loop.md:26` gives two searches per turn as the cap, which the forced
  rounds do not read (`ResearchBounded` has the bound that holds). `research.py:1129` says that
  `fetch_article_text` raises nothing but `ArticleUnavailable`, and `request` raises
  `WorkerClosed` through it when the worker was closed meanwhile (`SendRefused`).

What the code does and no sentence promises otherwise: two sessions of a lesson overwrite each
other's log (`compose.py:261`; `LogKeepsTurns` says when this cannot happen), and so does resume's
save (`lesson_state.py:407`); session ids start again with the process, so that a window older
than it may write into another lesson (`OwnLesson`), and one whose session is gone gets 404 for
every message until it is reloaded; a window with two sessions (`app.js:1541`) sends Stop to the
one it learned of last, a Stop that is answered late aborts the next turn (`app.js:1783`), and a
message whose session cannot be created is neither sent nor reported; a response that ran out of time is cached like
a complete one (`research.py:2705`); a crash between `Rename` and `MoveOld` leaves both releases
in the library for ever; a superlative question whose noun is misspelt is never better than
"weak", since the gate looks at the words as asked.

## 6. Proofs

Checked by TLAPS for every value of the constants that satisfies the modules' assumptions
(`PromptLogAssumption`, `TutorTurnAssumption`, `ResearchCapAssumption`, `TurnGateAssumption`,
`ChatWindowAssumption`, `StreamAssumption`, `GuardAssumption`, `CalculatorAssumption`,
`AnswerRoundAssumption`, `LessonStoreAssumption`, `ResearchQueryAssumption`,
`DenseBuildAssumption`, `WorkerPoolAssumption`, `ZimUpdateAssumption`). Three of them say more than a type: `ResearchCapAssumption` (the model's
own searches are capped below what two forced rounds may reach: the code's cap is 2),
`GuardAssumption` (one unit or one round is no loop: the code asks for 4 repeats and 3 periods),
and `LessonStoreAssumption` (the lock's holders, clients and turns, are told apart).

**The log and its turns** (`TutorTurnProofs`). Its first half has one lemma per operator of
`PromptLog` and invariant: appending, trimming, both stages of an eviction, rendering,
rebuilding and repair keep a log `Good`: only evidence shows passages (`Shaped`), an answer ends
its turn (`Closes`), a turn begins with the student's message (`Headed`), and what is held is
named (`Names`). The second half has

* `TypeCorrect`: `TypeOK` is inductive;
* `RequestsReplayableHolds`, `AnswerClosesTurnHolds`, `HeldIsNamedHolds`, from `TurnInv`. That every
  request is replayable is not inductive: between two results the log is not. `TurnInv` says which
  call the newest message waits for while calls are dispatched (`Dispatching`: the results that are
  there answer the first calls, in order, and `todo` is the rest), that elsewhere the log is valid,
  and that the stored list is the rendering of a good log, valid or the dangling one that repair is
  for (`InStore`), so that a resume starts from a good log again;
* `OversizedRequestExplainedHolds`, from what an eviction stops at: one turn left, or a log within
  the ceiling but for what re-protection put back;
* `ResearchBoundedHolds`, from `ResearchInv`, which counts what the guesses and the rounds to come
  may still search, and knows that a turn begins with nothing searched;
* `PrefixKeptHolds`, `EvictKeepsCitedHolds`, `ResumeExtendsSavedHolds`: action properties, step by step
  under `TurnInv`; an eviction keeps every cited passage because stage 1 skips cited evidence and
  re-protection takes the cited passages of the turns stage 2 pops;
* `EvidenceTextOnceHolds`, from `OnceInv`: full texts are pairwise apart in the log *and* in the
  stored list, and every full text in the log is held. Without the held ids an append could paste
  a text again, and without the stored list a resume could bring back two copies. Eviction keeps it
  because the held ids are recomputed from the passages that are left, pointers included (which is
  why held does not mean present).

**Stop, at both ends** (`StopProofs`, which extends the two modules).

*The gate.* `GateTypeCorrect` and `StopReachesConnectedHolds`, for any number of turn requests. `StopReachesConnected` is not inductive: that a live, connected turn is
registered is preserved by the generator's `finally` only because a generator closes after its
sentinel or after its client left. `GateIInv` adds the two facts this needs: a sentinel in the
queue means that the thread is done (`SentinelIsLast`), and no generator exists before its thread
is launched (`StreamIsLaunched`).

*The window.* `StopReachesTurnHolds`, `MarksAreOwnHolds`, for any number of messages. The invariant
is about the call that is open alone: there is one at most (`OnlyOne`), the controller, the
session and the last events are its own (`Holds`), and its bubble has no other's marks
(`OwnMarks`). It is stated of a page and a list of calls, since a handler changes them in several
steps of its own (`Begin` after `SessionCreated`), each of which has a lemma.

**The requests of a turn** (`AnswerRoundProofs`). `TypeCorrect` and the three invariants of the run,
for any units, bounds, periods and memory:

* `NoOrphanHolds`: inductive as it stands, since every way out of `evaluate` kills the child;
* `LoopFreeHolds`, from `GuardInv`: until the guard fires the text has no loop, and what is kept once
  it has fired has none. The step is one unit: if a text without a loop has one after another unit
  is appended, the loop ends at that unit, which is then the last one judged, so that either the
  run that it ends or the cycle that ends there is found (`LoopCaught`); and less than the whole
  text is kept (`KeptIs`), so what is kept begins the text before that unit. The maxima in
  `find_repetition_loop` are had from the least element of a set of numbers (`LeastOf`), which
  stands for induction;
* `WholeAnswerHolds`, from `FlowInv`: in a stream that has not broken, what is in the buffer and then
  in the socket begins with the units said that the client has not taken, in order, and has no text
  after them (`Flows`). An answer that ends at `[DONE]`, or with both empty, is therefore all that
  was said.

**The store** (`LessonStoreProofs`). `TypeCorrect` and all four properties, for any numbers of
windows, lessons, sessions, turns, failures and crashes:

* `KeptInOrderHolds`, from `RowInv`: the holder of the lock has counted the rows that the connection
  sees, which number from zero, and no commit comes between, since the lock is held;
* `OwnLessonHolds`, from `OwnInv`: a window of this process shows the lesson of its session;
* `TurnComesWithLogHolds`, from `CommitInv`: a row that is not on disk yet is of the turn whose
  UPDATE is due, or is in the connection's log already, or its transaction raised;
* `LogKeepsTurnsHolds`, from `LogInv`: whatever log of a lesson may still be stored (on disk, in the
  open transaction, read by a request under way) has no turn which the only session's log lacks
  (`Covered`), and they are all equal while nobody uses the lesson (`Agree`). It needs that a session
  has one turn whose window waits (`StreamInv`) and that ids are given out once (`Known`).

**A request for evidence** (`ResearchQueryProofs`). `TypeCorrect`, `StatusHonestHolds`,
`OvertimeBoundedHolds`, `ResponseBoundedHolds` and `CitableHolds`, for any archives, questions,
deadlines, budget, cache size and number of failures. `ResearchQueryAssumption` says what the
code's data are: lists that are lists, counts and tokens that are numbers, a question known by its
name. One inductive invariant, in parts:

* `Shaped`: a request and an archive in hand have their fields at every call site;
* `Accounted`: a failed call whose failure the code reports makes the request a timed-out one to its
  end, so that without that mark only `Unreported` call sites have lost anything; and an archive of
  the question is consulted or still waits, unless a deadline passed. That is what makes "ok" and
  "empty" true at the response, many call sites after the failure; `KeptOnFailure` and the memo may
  hide a failed call from the later ones, not from the record;
* `Filled`: every passage gathered has its tokens and a score, and the key facts the score that
  only they have;
* `LateBy`: how late the request can be, call site by call site. `OvertimeBounded` bounds the end;
  inductively each stage has its own bound, since a stage asks the time at its head and then makes
  a known number of calls (the single terms count down, `e + Len(pending)`; a relaxation counts
  rounds; the second call of a correction reuses the time given to the first, up to `Cap`);
* `Kept`: whatever is in the cache was an answer once, hence is `Honest`, within its bounds
  (`Bounded`), and has its snapshots, which are never removed;
* `Counts`: counters within their bounds, counts of words in numbers.

That a "strong" level has a passage about the question (`StrongIsAbout`) comes from `Level`: half
of the question's words stand in the top passages, so that one of them has a word of it; and with
a superlative the gate names a passage that has a cue and the noun.

That a response is within its bounds (`PackedFits`) is an argument about the operators it is
computed with, the first half of the module. A sort gives the elements it was given (`SortedIs`);
what is chosen by its indexes comes in their order (`IndexesPicked`); no three passages left by the
cap are of one article (`CappedHasNoThree`), and a choice from them, the cutoff's or the packer's,
cannot make three of two (`PickedHaveNoThree`), so that the order cap, cutoff, budget is safe; the
cutoff leaves six (`CutoffLeaves`). The packer's sum stays within the budget at every passage, taken
or not (`PackFits`). `Pack`, `TotalOf` and `Concat` are functions on `0..n`; what holds at n is had
from the least index at which it fails (`LeastOf`, `StaysIn`, `Iterated`), which stands for
induction.

**The index** (`DenseBuildProofs`). `TypeCorrect`, `CheckpointIsTruthHolds`, and, for runs with one
limit (`ASSUME SameLimit`, as in the run; with limits that differ it is false, see section 5),
`OpenedIsCompleteHolds` and `OpenedStaysHolds`. `DataInv` says how far the three files are apart at
each write (`FilesInv`), that written and pending rows are the lead passages of the entries visited
(`RunInv`), and that what the checkpoint vouches for is in all three files (`TruthInv`).
`LimitInv` counts articles: the walk knows exactly how many it has passed, or is `Spent`, where
articles without a lead passage may be counted twice but no lead passage is left within the limit.
`FinishedInv` says that a run over a finished index is `Spent` from its start.

**The workers** (`WorkerPoolProofs`). `TypeCorrect`, `ClosedStaysDownHolds`, `PipeIsCleanHolds` and
`ImplementsServiceHolds` (the pool implements `WorkerService!ServiceSpec`), for any number of
clients and calls. `IInv` says: one request at a time has a worker's lock (`OneHolder`); a
worker's two pipes hold at most one message, about that request (`Pipes`), hence `PipeIsClean`,
hence a request receives its own reply; a result in a box is of the box's own call, whose request
is over (`OwnBoxes`); the calls a client has counted are those with a thread (`Counting`), and all
but the newest have returned (`ReturnedInv`). Under the mapping, `Call` is `Ask`, `Take` is `Reply`
or `Fail`, `JoinEnds` is `Fail`, and every other step is invisible.

**The updater** (`ZimUpdateProofs`). `TypeCorrect`, `NothingDeletedHolds`, `HashedFilesGoodHolds` and
`LastReleaseStaysHolds`, for any library, catalog, hashes and number of faults. `NothingDeleted`
follows from the shape of the state alone, step by step: a rename puts a file in the library, and
only moving the old archive takes one out, into the archive directory. `HashedFilesGood` needs
`ComparedIsIntact`: at the rename of a file whose hash is known, the part file is intact, because
verification compared it and nothing writes the part between the two steps. `LastReleaseStays` needs
`ReleaseInv`: the file in hand is in the library when its old release is moved, and an entry that is
complete names a new release that is there.

Only model-checked: all liveness, since it needs ENABLED, which the prover does not handle. What
folds and sums over sets compute (`SumOf`, in the scores of articles) is not reasoned about: no
proof rests on it. The modules use no RECURSIVE operator. The two assumptions
of `MCResearchQuery` about `assess_evidence` are evaluated by TLC over all pairs of a family of
passages.

## 7. Not modelled

* Text analysis: the reading of clarify replies, follow-up and topic classification, citations and attribution, computed
  checks, tokenizing, morphology, edit distance, BM25. Their verdicts are nondeterministic
  choices in `TutorTurn` or data in `ResearchQuery`.
* The join of `research_many`, whose deadlines add up when queries are late, and the response
  cache under its threads. Two callers in one engine meet in `WorkerPool` only.
* Concurrent turns on one log (finding 1): `TutorTurn` has one thread, as the route intends;
  `TurnGate` and `LessonStore` have the overlap.
* The updater and the fetcher at the same time. `ZimUpdate` has one run at a time, although
  `kiwix_fetch_new.py:4-7` expects that the updater may be running beside it. The fetcher reads
  nothing of the updater's state; what the two could meet in is the part file of a series that is
  both held and wanted.
* The loss of power with `synchronous=NORMAL`.
* `append_turn` and `end_lesson`, which nothing calls; profiles, settings, start-up,
  single-statement queries, rendering of articles and redirects: no history.
* The panels of the browser client (sources, status, students, lessons) and the rendering of
  answers: each refresh stands by itself.
* The evaluation harness and the archive builder: offline scripts.

## 8. Plan

Done, in this order: `PromptLog` and `TutorTurn`; `TurnGate`; `DenseBuild`; `WorkerPool` and
`WorkerService`; `ZimUpdate`; `EvidencePacking`, `Assessment` and `ResearchQuery`; `LessonStore`;
`LlamaStream`, `Calculator`, `RepetitionGuard` and `AnswerRound`; `ChatWindow`; the proofs of
section 6; the clarify questions in `TutorTurn`. Left:
an abstract store, the sequence of accepted turns of each lesson, with `LessonStore` as its
implementation where one session uses a lesson.
