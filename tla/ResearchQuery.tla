----------------------------- MODULE ResearchQuery -----------------------------
(***************************************************************************)
(* One research() request after another against a ResearchEngine           *)
(* (tutor/retrieval/research.py): the archives consulted under two         *)
(* deadlines, the fallbacks a weak first pass tries, the caches kept from  *)
(* request to request, and the status the response reports.                *)
(*                                                                         *)
(* Every call of a worker is a step.  It may succeed in whole or in part   *)
(* or fail, and take no time or all it was given: at most Cap ticks, at    *)
(* least one, however late it is.  What the archives hold, and what a      *)
(* word is mistaken for, is data: constants.  The worker's process and its *)
(* threads are the module WorkerPool's.                                    *)
(***************************************************************************)
EXTENDS Assessment

CONSTANTS
    Questions,    \* the questions asked
    Archives,     \* sequence of archives, in registry order
    Tier,         \* the tier of an archive
    Articles,     \* the articles of an archive, in search order
    Count,        \* the estimated matches of a word in an archive, where there are any
    Suggested,    \* the words near a misspelt one in the titles of an archive
    Parts,        \* the two words of a phrase
    Halves,       \* the phrases a word may be split into
    Joined,       \* the word a phrase may have been
    Variants,     \* the morphological relatives of a word
    Dense,        \* the articles a dense sidecar finds in an archive, <<>> without one
    Soft, Hard,   \* the deadlines, in ticks
    Cap,          \* the most one call of a worker is given
    Budget,       \* the tokens a response may carry
    CacheSize,    \* the responses kept
    MaxRequests,  \* bound: requests
    MaxFailures   \* bound: calls of a worker that fail in part or in whole

ASSUME ResearchQueryAssumption ==
    /\ Soft \in Nat /\ Hard \in Nat /\ Cap \in Nat \ {0}
    /\ Budget \in Nat /\ CacheSize \in Nat \ {0}
    /\ MaxRequests \in Nat /\ MaxFailures \in Nat
    /\ Archives \in Seq(Elements(Archives))
    /\ \A a \in Elements(Archives) :
          /\ Articles[a] \in Seq(Elements(Articles[a]))
          /\ \A x \in Elements(Articles[a]) :
                /\ x.passages \in Seq(Elements(x.passages)) /\ x.facts \in Seq(Elements(x.facts))
                /\ \A p \in Elements(x.passages) \cup Elements(x.facts) :
                      {"score", "tokens"} \subseteq DOMAIN p /\ p.tokens \in Nat
          /\ \A w \in DOMAIN Count[a] : Count[a][w] \in Nat
    /\ \A q \in Questions :
          /\ q.tokens \in Seq(Elements(q.tokens)) /\ q.hint \in Seq(Elements(q.hint))
          /\ IsFiniteSet(q.own)
          /\ \A other \in Questions : other.name = q.name => other = q

VARIABLES
    pc,         \* what the request does next
    req,        \* the request: what research() holds in local variables
    arch,       \* the archive being consulted: what _process_archive holds
    idf,        \* _idf_cache: the estimated matches of words, by archive
    responses,  \* _response_cache, the oldest first
    snapshots,  \* passages in the snapshot store
    answer,     \* the last response
    requests,   \* requests so far
    failures    \* calls that failed

vars == <<pc, req, arch, idf, responses, snapshots, answer, requests, failures>>
engineVars == <<responses, snapshots, answer, requests>>

NoReq == [question |-> "none"]
NoArch == [id |-> "none"]
NoAnswer == [status |-> "none", level |-> "none"]
Empty == [w \in {} |-> 0]

Init ==
    /\ pc = "idle" /\ req = NoReq /\ arch = NoArch
    /\ idf = [a \in Elements(Archives) |-> Empty]
    /\ responses = <<>> /\ snapshots = {} /\ answer = NoAnswer
    /\ requests = 0 /\ failures = 0

\* dict.update
Updated(dict, other) ==
    [k \in DOMAIN dict \cup DOMAIN other |-> IF k \in DOMAIN other THEN other[k] ELSE dict[k]]

-----------------------------------------------------------------------------
(* What an archive answers *)

ArticleOf(a, path) == CHOOSE x \in Elements(Articles[a]) : x.path = path

Words(x) == x.title \cup x.lead \cup UNION {p.text : p \in Elements(x.passages)}

Paths(articles) == Listed([i \in DOMAIN articles |-> articles[i].path])

\* search_fulltext: the terms are required together.
FullText(a, words, limit) ==
    Prefix(Paths(SelectSeq(Articles[a], LAMBDA x : Elements(words) \subseteq Words(x))), limit)

\* search_titles
Titles(a, words, limit) ==
    Prefix(Paths(SelectSeq(Articles[a], LAMBDA x : Elements(words) \subseteq x.title)), limit)

\* estimated_matches: of a word or a phrase in quotes, or of several words together.
Estimate(a, words) ==
    IF Len(words) = 1
      THEN IF words[1] \in DOMAIN Count[a] THEN Count[a][words[1]] ELSE 0
      ELSE Cardinality({i \in DOMAIN Articles[a] : Elements(words) \subseteq Words(Articles[a][i])})

Op(kind, words) == [kind |-> kind, words |-> words]
Estimates(words) == {Op("estimate", <<w>>) : w \in words}

\* The words of a correction, which may be a phrase.
Tokenized(w) == IF w \in DOMAIN Parts THEN Parts[w] ELSE <<w>>

-----------------------------------------------------------------------------
(* Calls of a worker *)

Remaining == IF req.elapsed < Hard THEN Hard - req.elapsed ELSE 0

\* Mutant: every call is given the most.
CapAlways == Cap

\* _op_deadline: a call is given one tick even when no time remains.
OpDeadline ==
    IF Remaining = 0 THEN 1 ELSE IF Remaining < Cap THEN Remaining ELSE Cap

\* What _call_worker and _call_worker_multi may return for these operations: those the
\* memo of the request holds are not sent again; of the others all, all but one, or
\* none succeed.
Replies(ops) ==
    LET fresh == ops \ req.memo IN
    IF fresh = {} THEN {[ok |-> ops, late |-> FALSE]}
    ELSE [ok : {ops} \cup {ops \ {x} : x \in fresh} \cup {ops \ fresh}, late : BOOLEAN]

\* The request after a call that was given so long: only what succeeded is remembered.
\* lost: the stages of the request that had a call fail in part or in whole.
AfterCall(reply, ops, given) ==
    [req EXCEPT !.memo = @ \cup reply.ok,
                !.elapsed = IF reply.late THEN @ + given ELSE @,
                !.lost = IF reply.ok = ops THEN @ ELSE @ \cup {pc}]

After(reply, ops) == AfterCall(reply, ops, OpDeadline)

\* A failed search or fetch counts as a timeout of the request ...
AfterSearch(reply, ops) ==
    [After(reply, ops) EXCEPT !.timedOut = @ \/ reply.ok # ops]

\* ... but not one that is made with corrected or replaced words, nor a failed lookup.
Unreported == {"embed", "rarity", "spell", "correct", "split", "join", "again", "together",
               "relatives", "substitute"}

Missed(reply, ops) ==
    IF reply.ok = ops THEN UNCHANGED failures
    ELSE failures < MaxFailures /\ failures' = failures + 1

-----------------------------------------------------------------------------
(* The request *)

QueryTerms(q) == (q.own \cup Elements(q.hint)) \ q.modifiers

\* _coverage_terms: the topic hint counts only for a question that refers back to it.
CoverageTerms(q) ==
    (q.own \cup (IF q.refersBack THEN Elements(q.hint) ELSE {})) \ q.modifiers

\* _coverage_term_variants: a term is covered by its correction or a relative, too ...
VariantsOf(r) ==
    [t \in DOMAIN r.corrected \cup DOMAIN r.expanded |->
        (IF t \in DOMAIN r.corrected THEN Elements(Tokenized(r.corrected[t])) ELSE {})
        \cup (IF t \in DOMAIN r.expanded THEN r.expanded[t] ELSE {})]

\* ... and every correction is one more term to cover, a phrase as a whole.
TermsToCover(r) ==
    CoverageTerms(r.question) \cup {r.corrected[t] : t \in DOMAIN r.corrected}

\* _route, and the split into tiers: tier 3 is for procedural questions.
Primary(q) ==
    AtIndexes(Archives, {i \in DOMAIN Archives :
        Tier[Archives[i]] # 2 /\ (Tier[Archives[i]] # 3 \/ q.procedural)})
Fallback(q) == AtIndexes(Archives, {i \in DOMAIN Archives : Tier[Archives[i]] = 2})

\* The key of a response in the cache.  Of a query of research_many it has the time
\* the batch had left, which no other request will have.
Key(q) == <<q.name, IF q.rewritten THEN requests + 1 ELSE 0>>

Cached(key) == {i \in 1..Len(responses) : responses[i].key = key}

\* research, a response still cached: it is answered again as it was.
AnswerFromCache(q) ==
    /\ pc = "idle" /\ requests < MaxRequests /\ Cached(Key(q)) # {}
    /\ LET i == CHOOSE i \in Cached(Key(q)) : TRUE IN
       /\ responses' = Append(RemoveAt(responses, i), responses[i])
       /\ answer' = responses[i].response
    /\ requests' = requests + 1
    /\ UNCHANGED <<pc, req, arch, idf, snapshots, failures>>

StartRequest(q) ==
    /\ pc = "idle" /\ requests < MaxRequests /\ Cached(Key(q)) = {}
    /\ req' = [question |-> q, key |-> Key(q), elapsed |-> 0, vec |-> FALSE,
               queue |-> Primary(q), primary |-> TRUE, consulted |-> <<>>,
               timedOut |-> FALSE, lost |-> {}, corrected |-> Empty,
               expanded |-> Empty, unknown |-> <<>>, candidates |-> <<>>, facts |-> <<>>,
               memo |-> {}]
    /\ pc' = IF \E a \in Elements(Archives) : Dense[a] # <<>> THEN "embed" ELSE "consult"
    /\ requests' = requests + 1
    /\ answer' = NoAnswer
    /\ UNCHANGED <<arch, idf, responses, snapshots, failures>>

\* The query is embedded once; without a vector the request is lexical.
Embed ==
    /\ pc = "embed"
    /\ \E ok \in BOOLEAN :
          /\ req' = [req EXCEPT !.vec = ok, !.elapsed = IF ok THEN @ ELSE @ + 1,
                                !.lost = IF ok THEN @ ELSE @ \cup {pc}]
          /\ IF ok THEN UNCHANGED failures
                   ELSE failures < MaxFailures /\ failures' = failures + 1
    /\ pc' = "consult"
    /\ UNCHANGED <<arch, idf, engineVars>>

\* _consult: past a deadline no further archive is begun.
StopConsulting ==
    /\ pc = "consult" /\ req.queue # <<>> /\ (Remaining = 0 \/ req.elapsed >= Soft)
    /\ req' = [req EXCEPT !.queue = <<>>, !.timedOut = TRUE]
    /\ UNCHANGED <<pc, arch, idf, engineVars, failures>>

SearchTokens(q) == q.tokens \o q.hint

\* _consult and the head of _process_archive.
ConsultNext ==
    /\ pc = "consult" /\ req.queue # <<>> /\ Remaining > 0 /\ req.elapsed < Soft
    /\ LET a == Head(req.queue) IN
       /\ req' = [req EXCEPT !.queue = Tail(@), !.consulted = Append(@, a), !.memo = {}]
       /\ arch' = [id |-> a, tokens |-> SearchTokens(req.question), pending |-> <<>>,
                   hits |-> <<>>, ft |-> <<>>, ti |-> <<>>, words |-> <<>>,
                   counts |-> Empty, given |-> 0, near |-> Empty, spelled |-> Empty,
                   joined |-> Empty, corrections |-> <<>>, relax |-> 2,
                   found |-> <<>>, best |-> Empty, dense |-> {}, top |-> <<>>]
    /\ pc' = "search"
    /\ UNCHANGED <<idf, engineVars, failures>>

\* Tier 2 is consulted if what tier 1 found covers the question weakly.
FallbackWanted(q) ==
    /\ Fallback(q) # <<>> /\ req.elapsed < Soft /\ Remaining > 0
    /\ BestCoverage(req.candidates, TermsToCover(req), Elements(q.hint),
                    Cardinality(q.own), VariantsOf(req)).weak

TierDone ==
    /\ pc = "consult" /\ req.queue = <<>>
    /\ IF req.primary /\ FallbackWanted(req.question)
         THEN req' = [req EXCEPT !.queue = Fallback(req.question), !.primary = FALSE] /\ pc' = pc
         ELSE req' = req /\ pc' = "respond"
    /\ UNCHANGED <<arch, idf, engineVars, failures>>

-----------------------------------------------------------------------------
(* _process_archive: the searches *)

\* The operations of a search in full text and titles.
Joint(words) == {Op("fulltext", words), Op("titles", words)}

\* Call site 1: full text and titles, at once.  What finds nothing is tried again, term
\* by term.
SearchJointly ==
    /\ pc = "search"
    /\ LET a == arch.id
           ops == Joint(arch.tokens) IN
       \E reply \in Replies(ops) :
          LET ftOk == Op("fulltext", arch.tokens) \in reply.ok
              tiOk == Op("titles", arch.tokens) \in reply.ok
              ft == IF ftOk THEN FullText(a, arch.tokens, 20) ELSE <<>>
              ti == IF tiOk THEN Titles(a, arch.tokens, 10) ELSE <<>>
              again(kind, ok, hits) ==
                  IF ok /\ hits = <<>>
                    THEN [i \in 1..Len(arch.tokens) |-> Op(kind, <<arch.tokens[i]>>)]
                    ELSE <<>>
          IN /\ Missed(reply, ops)
             /\ req' = AfterSearch(reply, ops)
             /\ arch' = [arch EXCEPT !.ft = ft, !.ti = ti,
                            !.pending = Prefix(again("fulltext", ftOk, ft)
                                               \o again("titles", tiOk, ti), 6)]
    /\ pc' = "terms"
    /\ UNCHANGED <<idf, engineVars>>

\* _search_with_fallback: one term.
SearchTerm ==
    /\ pc = "terms" /\ arch.pending # <<>>
    /\ LET op == Head(arch.pending) IN
       \E reply \in Replies({op}) :
          LET found == IF reply.ok = {} THEN <<>>
                       ELSE IF op.kind = "fulltext" THEN FullText(arch.id, op.words, 20)
                       ELSE Titles(arch.id, op.words, 10)
          IN /\ Missed(reply, {op})
             /\ req' = AfterSearch(reply, {op})
             /\ arch' = [arch EXCEPT !.pending = Tail(@),
                                     !.hits = Append(@, [op |-> op, found |-> found])]
    /\ UNCHANGED <<pc, idf, engineVars>>

\* The articles found term by term: those more terms found first, then by the rarest
\* of those terms.
MergedHits(kind) ==
    LET hits == SelectSeq(arch.hits, LAMBDA h : h.op.kind = kind)
        terms == Distinct([i \in 1..Len(hits) |-> hits[i].op.words[1]])
        found(t) == (CHOOSE h \in Elements(hits) : h.op.words[1] = t).found
        rarest == ByRarity(terms, [t \in Elements(terms) |-> Len(found(t))])
        matched(path) == {i \in 1..Len(rarest) : path \in Elements(found(rarest[i]))}
        rank(path) == 100 * (100 - Cardinality(matched(path)))
                      + (CHOOSE i \in matched(path) : \A j \in matched(path) : i <= j)
        paths == Distinct(Concat([i \in 1..Len(rarest) |-> found(rarest[i])]))
    IN SortedBy(paths, [i \in DOMAIN paths |-> rank(paths[i])])

TermsDone ==
    /\ pc = "terms" /\ arch.pending = <<>>
    /\ arch' = [arch EXCEPT !.ft = IF @ = <<>> THEN MergedHits("fulltext") ELSE @,
                            !.ti = IF @ = <<>> THEN MergedHits("titles") ELSE @,
                            !.hits = <<>>]
    /\ pc' = IF arch.tokens # <<>> /\ Remaining > 0 THEN "rarity" ELSE "dense"
    /\ UNCHANGED <<req, idf, engineVars, failures>>

-----------------------------------------------------------------------------
(* _process_archive: rare words, misspelt words, compound words *)

\* The count of each word, 0 where the call failed.
Counted(words, ok) ==
    [w \in words |-> IF Op("estimate", <<w>>) \in ok THEN Estimate(arch.id, <<w>>) ELSE 0]

CountOf(w) == IF w \in DOMAIN arch.counts THEN arch.counts[w] ELSE 0
ZeroTerms == SelectSeq(arch.words, LAMBDA w : CountOf(w) = 0)

\* Call site 2: the first four tokens are looked up, those the cache has not.  A word
\* whose lookup fails has no count, and none is kept.
LookUpRarity ==
    /\ pc = "rarity"
    /\ LET words == Elements(Prefix(Distinct(arch.tokens), 4))
           known == {w \in words : <<w>> \in DOMAIN idf[arch.id]}
       IN \E reply \in Replies(Estimates(words \ known)) :
          LET counted == {w \in words \ known : Op("estimate", <<w>>) \in reply.ok} IN
          /\ Missed(reply, Estimates(words \ known))
          /\ req' = After(reply, Estimates(words \ known))
          /\ idf' = [idf EXCEPT ![arch.id] =
                        Updated(@, [q \in {<<w>> : w \in counted} |-> Estimate(arch.id, q)])]
          /\ arch' = [arch EXCEPT !.words = Prefix(Distinct(arch.tokens), 4),
                        !.counts = Updated(Counted(words \ known, reply.ok),
                                           [w \in known |-> idf[arch.id][<<w>>]])]
    /\ pc' = "spell"
    /\ UNCHANGED engineVars

\* _correct_spelling, the first call: the titles suggested for two of the words
\* without a match.
SuggestTitles ==
    /\ pc = "spell"
    /\ LET words == Elements(Prefix(ZeroTerms, 2))
           ops == {Op("suggest", <<w>>) : w \in words}
           near(ok) ==
               [w \in words |-> IF Op("suggest", <<w>>) \in ok /\ w \in DOMAIN Suggested[arch.id]
                                  THEN Suggested[arch.id][w] ELSE {}]
       IN IF words = {} \/ Remaining = 0
            THEN pc' = "split" /\ UNCHANGED <<req, arch, failures>>
            ELSE \E reply \in Replies(ops) :
                    /\ Missed(reply, ops)
                    /\ req' = After(reply, ops)
                    /\ arch' = [arch EXCEPT !.near = near(reply.ok), !.given = OpDeadline]
                    /\ pc' = IF \A w \in words : near(reply.ok)[w] = {} THEN "split" ELSE "correct"
    /\ UNCHANGED <<idf, engineVars>>

\* _correct_spelling, the second call, given as long as the first one: the most
\* frequent of the words near by, if it has three matches.
CorrectSpelling ==
    /\ pc = "correct"
    /\ LET all == UNION {arch.near[w] : w \in DOMAIN arch.near} IN
       \E reply \in Replies(Estimates(all)) :
          LET counts == Counted(all, reply.ok)
              best(w) == CHOOSE v \in arch.near[w] : \A u \in arch.near[w] : counts[v] >= counts[u]
              fixed == {w \in DOMAIN arch.near : arch.near[w] # {} /\ counts[best(w)] >= 3}
              spelled == [w \in fixed |-> best(w)]
              found == SelectSeq(ZeroTerms, LAMBDA w : w \in fixed)
          IN /\ Missed(reply, Estimates(all))
             /\ req' = [AfterCall(reply, Estimates(all), arch.given) EXCEPT
                           !.corrected = Updated(@, spelled)]
             /\ arch' = [arch EXCEPT !.spelled = spelled,
                            !.corrections = [i \in 1..Len(found) |-> spelled[found[i]]],
                            !.counts = Updated(@, [v \in {best(w) : w \in fixed} |-> counts[v]])]
    /\ pc' = "split"
    /\ UNCHANGED <<idf, engineVars>>

\* Words with few matches that the spelling did not explain.
NearZero ==
    SelectSeq(arch.words, LAMBDA w : /\ CountOf(w) <= 5
                                     /\ w \in DOMAIN Halves
                                     /\ w \notin DOMAIN arch.spelled)

PairAt(s, i) == SubSeq(s, i, IF i < Len(s) THEN i + 1 ELSE i)

\* The adjacent tokens that may be one word: two pairs at most.
Pairs ==
    Prefix(Distinct(SelectSeq(
        [i \in 1..Len(arch.tokens) |-> PairAt(arch.tokens, i)],
        LAMBDA pair : \E phrase \in DOMAIN Joined : Parts[phrase] = pair)), 2)

\* _correct_compounds, splits: both halves must be frequent; of several splits, the
\* one found most often as a phrase.
SplitWords ==
    /\ pc = "split"
    /\ LET words == Elements(Prefix(NearZero, 2))
           phrases == UNION {Halves[w] : w \in words}
           halves == UNION {Elements(Parts[phrase]) : phrase \in phrases}
           ops == Estimates(halves \cup phrases)
           wanted == ZeroTerms # <<>> \/ NearZero # <<>> \/ (arch.ft = <<>> /\ arch.ti = <<>>)
       IN IF Remaining = 0 \/ ~wanted
            THEN pc' = "entity" /\ UNCHANGED <<req, arch, failures>>
            ELSE \E reply \in Replies(ops) :
                 LET counts == Counted(halves \cup phrases, reply.ok)
                     good(w) == {phrase \in Halves[w] :
                                    \A h \in Elements(Parts[phrase]) : counts[h] >= 200}
                     best(w) == CHOOSE phrase \in good(w) :
                                    \A other \in good(w) : counts[phrase] >= counts[other]
                     split == [w \in {v \in words : good(v) # {}} |-> best(w)]
                     found == Concat([i \in 1..Len(arch.words) |->
                                 IF arch.words[i] \in DOMAIN split
                                   THEN Parts[split[arch.words[i]]] ELSE <<>>])
                 IN /\ Missed(reply, ops)
                    /\ req' = After(reply, ops)
                    /\ arch' = [arch EXCEPT !.joined = split, !.given = OpDeadline,
                                  !.corrections = Distinct(@ \o found),
                                  !.counts = Updated(@, [v \in Elements(found) |-> counts[v]])]
                    /\ pc' = "join"
    /\ UNCHANGED <<idf, engineVars>>

\* _correct_compounds, joins, given as long as the splits: the words are never found
\* as a phrase, and their join is.
JoinWords ==
    /\ pc = "join"
    /\ LET phrases == {phrase \in DOMAIN Joined : Parts[phrase] \in Elements(Pairs)}
           all == phrases \cup {Joined[phrase] : phrase \in phrases}
       IN \E reply \in Replies(Estimates(all)) :
          LET counts == Counted(all, reply.ok)
              fused == {phrase \in phrases : counts[phrase] = 0 /\ counts[Joined[phrase]] > 0}
              joined == Updated(arch.joined, [phrase \in fused |-> Joined[phrase]])
              found == {Joined[phrase] : phrase \in fused}
          IN /\ Missed(reply, Estimates(all))
             /\ req' = [AfterCall(reply, Estimates(all), arch.given) EXCEPT
                           !.corrected = Updated(@, joined)]
             /\ arch' = [arch EXCEPT !.joined = joined,
                           !.corrections = Distinct(@ \o SetToSeq(found)),
                           !.counts = Updated(@, [v \in found |-> counts[v]])]
             /\ pc' = IF joined = Empty THEN "entity" ELSE "again"
    /\ UNCHANGED <<idf, engineVars>>

\* The tokens, with split words in two and joined words in one.
CorrectedTokens ==
    LET split == Concat([i \in 1..Len(arch.tokens) |->
                    IF arch.tokens[i] \in DOMAIN arch.joined
                      THEN Tokenized(arch.joined[arch.tokens[i]]) ELSE <<arch.tokens[i]>>])
        joins(i) == {phrase \in DOMAIN arch.joined \cap DOMAIN Parts :
                        Parts[phrase] = PairAt(split, i)}
    IN Concat([i \in 1..Len(split) |->
          IF joins(i) # {} THEN <<arch.joined[CHOOSE phrase \in joins(i) : TRUE]>>
          ELSE IF i > 1 /\ joins(i - 1) # {} THEN <<>> ELSE <<split[i]>>])

\* What a search of these tokens that may have failed in part adds.
Found(reply, tokens, kind) ==
    IF Op(kind, tokens) \notin reply.ok THEN <<>>
    ELSE IF kind = "fulltext" THEN FullText(arch.id, tokens, 20)
    ELSE Titles(arch.id, tokens, 10)

\* Mutant: until nothing is left to correct.
CorrectAgain == "split"

\* A query is corrected once.
AfterCorrection == "entity"

\* The corrected query is searched like the first one; a failure is not reported.
SearchCorrected ==
    /\ pc = "again"
    /\ IF Remaining = 0 \/ CorrectedTokens = arch.tokens
         THEN UNCHANGED <<req, arch, failures>>
         ELSE \E reply \in Replies(Joint(CorrectedTokens)) :
                 /\ Missed(reply, Joint(CorrectedTokens))
                 /\ req' = After(reply, Joint(CorrectedTokens))
                 /\ arch' = [arch EXCEPT !.tokens = CorrectedTokens,
                       !.ft = Distinct(@ \o Found(reply, CorrectedTokens, "fulltext")),
                       !.ti = Distinct(@ \o Found(reply, CorrectedTokens, "titles"))]
    /\ pc' = AfterCorrection
    /\ UNCHANGED <<idf, engineVars>>

-----------------------------------------------------------------------------
(* _process_archive: the rarest words, and their relatives *)

\* The words with a match, the rarest first; of equals, a correction before the words
\* of the question.
RarityOrder ==
    LET terms == Distinct(arch.corrections \o arch.words)
        known == SelectSeq(terms, LAMBDA t : CountOf(t) > 0)
    IN SortedBy(known, [i \in DOMAIN known |-> CountOf(known[i])])

\* The scorer knows the lead of an article only from a hit in full text.
Scored(paths, withLead) ==
    LET known(path) == LET x == ArticleOf(arch.id, path) IN
            IF path \in withLead THEN x ELSE [x EXCEPT !.lead = {}]
        own == req.question.own \cup Elements(arch.corrections)
        order == ScoreArticles([i \in 1..Len(paths) |-> known(paths[i])], own,
                               arch.counts, req.question)
    IN Paths(order)

\* In the order of a ranking, what it does not rank last.
InOrderOf(ranking, paths) ==
    LET place(path) == IF \E i \in 1..Len(ranking) : ranking[i] = path
                         THEN CHOOSE i \in 1..Len(ranking) : ranking[i] = path
                         ELSE Len(ranking) + 1
    IN SortedBy(paths, [i \in DOMAIN paths |-> place(paths[i])])

\* What no correction explains is noted; then call site 3: titles and full text of the
\* three rarest words.
SearchEntities ==
    /\ pc = "entity"
    /\ LET terms == Prefix(RarityOrder, 3)
           titles(t) == Op("titles3", <<t>>)
           snippet(t) == Op("fulltext1", <<t>>)
           ops == {titles(t) : t \in Elements(terms)} \cup {snippet(t) : t \in Elements(terms)}
           unknown == {w \in Elements(ZeroTerms) : w \notin DOMAIN arch.spelled
                                                   /\ w \notin DOMAIN arch.joined}
       IN \E reply \in Replies(ops) :
          LET hits(op, found) == IF op \in reply.ok THEN found ELSE <<>>
              snippets == Concat([i \in 1..Len(terms) |->
                  hits(snippet(terms[i]), FullText(arch.id, <<terms[i]>>, 1))])
              found == Concat([i \in 1..Len(terms) |->
                  hits(titles(terms[i]), Titles(arch.id, <<terms[i]>>, 3))])
              order == Scored(Distinct(found), Elements(snippets))
              entities == InOrderOf(order, Distinct(snippets \o found))
              present == Elements(entities) \cap Elements(Prefix(arch.ft, 3)) # {}
          IN /\ Missed(reply, ops)
             /\ req' = [AfterSearch(reply, ops) EXCEPT
                           !.unknown = Append(@, unknown)]
             /\ arch' = [arch EXCEPT !.ti = Distinct(entities \o @), !.found = snippets,
                                     !.relax = IF present THEN 4 ELSE 2]
    /\ pc' = "relax"
    /\ UNCHANGED <<idf, engineVars>>

\* Full text of the two, then the three rarest words together, unless the entity is
\* there already.
Relax ==
    /\ pc = "relax"
    /\ LET op == Op("fulltext", Prefix(RarityOrder, arch.relax)) IN
       IF arch.relax > 3
         THEN /\ arch' = [arch EXCEPT !.ft = Distinct(arch.found \o @)]
              /\ pc' = IF Remaining > 0 THEN "together" ELSE "dense"
              /\ UNCHANGED <<req, failures>>
         ELSE /\ pc' = pc
              /\ IF Len(RarityOrder) < arch.relax
                   THEN arch' = [arch EXCEPT !.relax = @ + 1] /\ UNCHANGED <<req, failures>>
                   ELSE \E reply \in Replies({op}) :
                           /\ Missed(reply, {op})
                           /\ req' = AfterSearch(reply, {op})
                           /\ arch' = [arch EXCEPT !.relax = @ + 1,
                                         !.found = @ \o Found(reply, op.words, "fulltext")]
    /\ UNCHANGED <<idf, engineVars>>

\* _cached_batch_matches: the counts, and the cache with them; what fails counts 0,
\* and is kept.
KeptOnFailure(a, fresh, ok) ==
    [idf EXCEPT ![a] = Updated(@, [q \in fresh |->
                           IF Op("estimate", q) \in ok THEN Estimate(a, q) ELSE 0])]

\* Is the joint query without a match?  Then relatives of its words are tried.
CountTogether ==
    /\ pc = "together"
    /\ LET fresh == {arch.tokens} \ DOMAIN idf[arch.id]
           ops == {Op("estimate", q) : q \in fresh}
       IN \E reply \in Replies(ops) :
          LET now == KeptOnFailure(arch.id, fresh, reply.ok)
              after == After(reply, ops)
              weak == (arch.ft = <<>> /\ arch.ti = <<>>) \/ now[arch.id][arch.tokens] = 0
          IN /\ Missed(reply, ops)
             /\ req' = after
             /\ idf' = now
             /\ pc' = IF weak /\ after.elapsed < Hard THEN "relatives" ELSE "dense"
    /\ UNCHANGED <<arch, engineVars>>

\* _expand_morph_variants: of the relatives of three words, those with three matches.
ExpandVariants ==
    /\ pc = "relatives"
    /\ LET content == SelectSeq(Distinct(arch.tokens),
                                LAMBDA t : t \notin Elements(arch.corrections))
           terms == Elements(Prefix(content, 3)) \cap DOMAIN Variants
           fresh == {<<v>> : v \in UNION {Variants[t] : t \in terms}} \ DOMAIN idf[arch.id]
           ops == {Op("estimate", q) : q \in fresh}
       IN \E reply \in Replies(ops) :
          LET now == KeptOnFailure(arch.id, fresh, reply.ok)
              count(v) == now[arch.id][<<v>>]
              good(t) == {v \in Variants[t] : count(v) >= 3}
              widened == {t \in terms : good(t) # {}}
              best(t) == CHOOSE v \in good(t) : \A u \in good(t) : count(v) >= count(u)
              before(t) == IF t \in DOMAIN req.expanded THEN req.expanded[t] ELSE {}
              after == After(reply, ops)
          IN /\ Missed(reply, ops)
             /\ idf' = now
             /\ req' = [after EXCEPT !.expanded = Updated(@, [t \in widened |-> before(t) \cup good(t)])]
             /\ arch' = [arch EXCEPT !.best = [t \in widened |-> best(t)]]
             /\ pc' = IF widened # {} /\ after.elapsed < Hard THEN "substitute" ELSE "dense"
    /\ UNCHANGED engineVars

\* The query with every word replaced by its relative, and with one of them: three
\* queries at most, fused with what was found before.
SubstituteVariants ==
    /\ pc = "substitute"
    /\ LET subst(terms) == [i \in 1..Len(arch.tokens) |->
               IF arch.tokens[i] \in terms THEN arch.best[arch.tokens[i]] ELSE arch.tokens[i]]
           single == SelectSeq(Distinct(arch.tokens), LAMBDA t : t \in DOMAIN arch.best)
           queries == Prefix(Distinct(<<subst(DOMAIN arch.best)>>
                          \o [i \in 1..Len(single) |-> subst({single[i]})]), 3)
           ops == UNION {Joint(q) : q \in Elements(queries)}
       IN \E reply \in Replies(ops) :
          LET found(kind) == SelectSeq([i \in 1..Len(queries) |-> Found(reply, queries[i], kind)],
                                       LAMBDA hits : hits # <<>>)
              fused(before, kind) == IF found(kind) = <<>> THEN before
                                     ELSE RrfFuse(<<before>> \o found(kind))
          IN /\ Missed(reply, ops)
             /\ req' = After(reply, ops)
             /\ arch' = [arch EXCEPT !.ft = fused(@, "fulltext"), !.ti = fused(@, "titles")]
    /\ pc' = "dense"
    /\ UNCHANGED <<idf, engineVars>>

-----------------------------------------------------------------------------
(* _process_archive: ranking and fetching *)

\* _dense_hits_for: nothing without a vector, or when the sidecar is stale or fails;
\* then the articles are scored and the rankings fused.
RankArticles ==
    /\ pc = "dense"
    /\ \E dense \in {<<>>} \cup {IF req.vec THEN Dense[arch.id] ELSE <<>>} :
          LET scored == Scored(Distinct(arch.ft \o arch.ti), Elements(arch.ft))
              fused == RrfFuse(<<InOrderOf(scored, arch.ft), InOrderOf(scored, arch.ti),
                                 dense, scored>>)
          IN /\ arch' = [arch EXCEPT !.top = Prefix(fused, 6), !.dense = Elements(dense)]
             /\ pc' = IF arch.ft = <<>> /\ arch.ti = <<>> /\ dense = <<>> THEN "consult"
                      ELSE IF req.question.hint # <<>> THEN "hint" ELSE "fetch"
    /\ UNCHANGED <<req, idf, engineVars, failures>>

\* The article the topic hint names is fetched first.
SearchHint ==
    /\ pc = "hint"
    /\ LET hint == req.question.hint
           op == Op("titles1", hint)
       IN \E reply \in Replies({op}) :
          LET named == IF reply.ok = {} THEN <<>> ELSE Titles(arch.id, hint, 1) IN
          /\ Missed(reply, {op})
          /\ req' = AfterSearch(reply, {op})
          /\ arch' = [arch EXCEPT !.top = IF named = <<>> THEN @
                                          ELSE Prefix(Distinct(named \o @), 7)]
    /\ pc' = "fetch"
    /\ UNCHANGED <<idf, engineVars>>

\* The passages of the articles fetched, scored by the rank of their article fused with
\* the number of the question's words they have.
ScoredPassages(paths) ==
    LET byArticle == Concat([i \in 1..Len(paths) |-> ArticleOf(arch.id, paths[i]).passages])
        asked == req.question.own \cup Elements(req.question.hint)
        byWords == SortedBy(byArticle, [i \in DOMAIN byArticle |->
                       100 - Cardinality(asked \cap byArticle[i].text)])
        ids(ps) == Listed([i \in DOMAIN ps |-> ps[i].id])
        rankings == <<ids(byArticle), ids(byWords)>>
        fused == RrfFuse(rankings)
        passage(id) == CHOOSE p \in Elements(byArticle) : p.id = id
    IN Listed([i \in DOMAIN fused |->
           [passage(fused[i]) EXCEPT !.score = RrfScore(rankings, fused[i])]])

\* Key facts: the infobox rows of the two best articles that share a word with the
\* question, scored above every passage.
KeyFacts(paths) ==
    LET rows == Concat([i \in 1..Len(paths) |-> ArticleOf(arch.id, paths[i]).facts])
        asked == AtIndexes(rows, {i \in DOMAIN rows : rows[i].text \cap req.question.own # {}})
    IN Listed([i \in DOMAIN asked |-> [asked[i] EXCEPT !.score = FactScore]])

\* Of the n best articles, those that were fetched; a ranking names none that is not there.
Fetched(n, ok) ==
    AtIndexes(arch.top, {i \in 1..n :
        /\ i <= Len(arch.top) /\ Op("fetch", <<arch.top[i]>>) \in ok
        /\ \E x \in Elements(Articles[arch.id]) : x.path = arch.top[i]})

\* Call site 4: the articles are fetched at once, if time remains.
FetchArticles ==
    /\ pc = "fetch"
    /\ LET ops == {Op("fetch", <<path>>) : path \in Elements(arch.top)} IN
       IF Remaining = 0
         THEN req' = [req EXCEPT !.timedOut = TRUE] /\ UNCHANGED failures
         ELSE \E reply \in Replies(ops) :
              /\ Missed(reply, ops)
              /\ req' = [AfterSearch(reply, ops) EXCEPT
                    !.candidates = @ \o ScoredPassages(Fetched(7, reply.ok)),
                    !.facts = @ \o KeyFacts(Fetched(2, reply.ok))]
    /\ pc' = "consult"
    /\ UNCHANGED <<arch, idf, engineVars>>

-----------------------------------------------------------------------------
(* The response *)

\* The sort of all candidates, the ranking hooks, all off, and the cap per article.
Ranked ==
    LET q == req.question
        sorted == SortedBy(req.candidates,
                      [i \in DOMAIN req.candidates |-> FactScore - req.candidates[i].score])
        topical == DropModifierOnly(sorted, QueryTerms(q), q.modifiers)
    IN LeadAugmentation(HeadingAffinity(MentionPenalty(TitleBoost(topical,
           QueryTerms(q), FALSE), QueryTerms(q), 0, FALSE), QueryTerms(q), FALSE), FALSE)

\* At most two key facts, then what the cutoff leaves, as far as the budget goes.
Packed ==
    LET paths == Distinct([i \in 1..Len(Ranked) |-> Ranked[i].path])
        chosen == RelevanceCutoff(CapPerArticle(Ranked, 2), req.question.own,
                                  Elements(Prefix(paths, 2)), 6, req.question.quantity)
        facts == Prefix(FirstPerKey(req.facts, [i \in DOMAIN req.facts |-> req.facts[i].id]), 2)
    IN Pack(facts \o chosen, Budget)

\* The oldest response makes room.
Evict(kept) == IF Len(kept) > CacheSize THEN Tail(kept) ELSE kept

\* Mutant: only the passages of a response without a timeout are kept.
PutComplete(given, status) ==
    IF status = "ok" THEN snapshots \cup {p.id : p \in Elements(given)} ELSE snapshots

\* SnapshotStore.put, one passage after the other.
Put(given, status) == snapshots \cup {p.id : p \in Elements(given)}

Corrections == {Tokenized(req.corrected[t]) : t \in DOMAIN req.corrected}

\* The assessment of what is handed out, by the question as it was asked.
Assessed(given) ==
    LET q == req.question IN Level(q.raw, KeyTerms(q.own, {}, {}), Corrections, given)

\* What is weakly covered is not handed out, unless the query was rewritten.
Respond ==
    /\ pc = "respond"
    /\ LET q == req.question
           packed == Packed
           weak == BestCoverage(packed, TermsToCover(req), Elements(q.hint),
                                Cardinality(q.own), VariantsOf(req)).weak
           given == IF ~weak \/ q.rewritten THEN packed ELSE <<>>
           status == IF req.timedOut THEN "partial" ELSE IF weak THEN "empty" ELSE "ok"
           response == [status |-> status, passages |-> given, level |-> Assessed(given),
                        question |-> q.name, rewritten |-> q.rewritten,
                        corrections |-> Corrections,
                        consulted |-> req.consulted, lost |-> req.lost,
                        unknown |-> MergeUnknown(req.unknown)]
       IN /\ answer' = response
          /\ snapshots' = Put(given, status)
          /\ responses' = Evict(Append(responses, [key |-> req.key, response |-> response]))
    /\ pc' = "idle" /\ req' = NoReq /\ arch' = NoArch
    /\ UNCHANGED <<idf, requests, failures>>

\* Every request was answered.
Rest == pc = "idle" /\ requests = MaxRequests /\ UNCHANGED vars

ProcessArchive ==
    \/ SearchJointly \/ SearchTerm \/ TermsDone \/ LookUpRarity \/ SuggestTitles
    \/ CorrectSpelling \/ SplitWords \/ JoinWords \/ SearchCorrected \/ SearchEntities
    \/ Relax \/ CountTogether \/ ExpandVariants \/ SubstituteVariants \/ RankArticles
    \/ SearchHint \/ FetchArticles

Research == Embed \/ StopConsulting \/ ConsultNext \/ TierDone \/ ProcessArchive \/ Respond

Next ==
    \/ \E q \in Questions : AnswerFromCache(q) \/ StartRequest(q)
    \/ Research
    \/ Rest

\* research() runs in the thread that called it, and every call in it is bounded.  This
\* is WF_vars(Research), written out: while a request is under way Research always has
\* a step, and one that changes pc, the queue or what is pending; TLC takes very long to
\* evaluate its ENABLED.
Fairness == []<>(pc = "idle") \/ []<><<Research>>_vars

Spec == Init /\ [][Next]_vars /\ Fairness

-----------------------------------------------------------------------------
(* Properties *)

Statuses == {"none", "ok", "partial", "empty"}

\* The caches are keyed by the archives and bounded, and a request under way has an
\* archive exactly while one is processed.
TypeOK ==
    /\ DOMAIN idf = Elements(Archives)
    /\ \A a \in DOMAIN idf : \A q \in DOMAIN idf[a] : idf[a][q] \in Nat
    /\ Len(responses) <= CacheSize
    /\ answer.status \in Statuses
    /\ (pc = "idle") = (req = NoReq)
    /\ requests \in 0..MaxRequests /\ failures \in 0..MaxFailures

\* One of the first three passages alone mentions what the question is about, if only
\* inside a longer word: a correction of it, or a word of it that is no superlative, if it
\* has one.
OneIsAbout(q, corrections, passages) ==
    LET about(p) ==
            IF corrections # {}
              THEN \E phrase \in corrections : Mentions(phrase, p)
              ELSE \/ \E w \in q.own \ Superlatives : Mentions(<<w>>, p)
                   \/ q.own \subseteq Superlatives
    IN \E p \in Top(passages) : about(p)

\* The response says what happened (the status in research()).  "ok" only with evidence,
\* when every primary archive was consulted; "empty" only if a student's own question is
\* given none; and neither hides a failed search or fetch, of the joint query, of a term,
\* of the rarest words, of the hint or of the articles: what may have failed unsaid is the
\* embedding, the dense search, a lookup, or a search with corrected or replaced words.
\* And its level is what it hands out: "empty" for nothing, "strong" only with a passage
\* that by itself mentions what the question is about, never by words of one here and of
\* the other there (assess_evidence).
StatusHonest ==
    answer.status # "none" =>
        LET q == CHOOSE q \in Questions : q.name = answer.question IN
        /\ answer.status = "ok" =>
               /\ answer.lost \subseteq Unreported /\ answer.passages # <<>>
               /\ Elements(Primary(q)) \subseteq Elements(answer.consulted)
        /\ answer.status = "empty" =>
               /\ answer.lost \subseteq Unreported
               /\ answer.passages # <<>> => answer.rewritten
        /\ (answer.level = "empty") = (answer.passages = <<>>)
        /\ answer.level = "strong" /\ q.own # {} =>
               OneIsAbout(q, answer.corrections, answer.passages)

\* However many calls run late, a request overruns the hard deadline by no more than
\* the calls that are made without asking the time, one tick each, and the second call
\* of a correction (_op_deadline, _correct_spelling, _correct_compounds).
OvertimeBounded ==
    pc # "idle" => req.elapsed <= Hard + (IF Cap + 4 > 7 THEN Cap + 4 ELSE 7)

\* A response fits the budget it was asked for and is no more than two key facts and
\* six passages, two of an article: a model's context is not flooded (pack,
\* cap_per_article).
ResponseBounded ==
    answer.status # "none" =>
        LET given == answer.passages IN
        /\ TotalOf([i \in 1..Len(given) |-> given[i].tokens]) <= Budget
        /\ \E n \in 0..2 :
              /\ n <= Len(given) /\ Len(given) <= n + 6
              /\ \A i \in 1..n : given[i].score = FactScore
              /\ \A i \in (n + 1)..Len(given) :
                    Cardinality({j \in (n + 1)..Len(given) : given[j].path = given[i].path}) <= 2

\* What a response hands out, at once or later from the cache, can be cited: its
\* snapshot is stored (research() puts it before it returns).
Citable ==
    \A r \in {responses[i].response : i \in 1..Len(responses)} \cup {answer} :
        r.status # "none" => {p.id : p \in Elements(r.passages)} \subseteq snapshots

\* A request ends: with whatever calls failed or ran late.
RequestsEnd == (pc # "idle") ~> (pc = "idle")

=============================================================================
