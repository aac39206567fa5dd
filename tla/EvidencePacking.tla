---------------------------- MODULE EvidencePacking ----------------------------
(***************************************************************************)
(* The pure part of the research engine: fusing rankings, scoring          *)
(* articles, judging coverage, and choosing the passages a response        *)
(* carries (tutor/retrieval/research.py and tutor/retrieval/hybrid/).      *)
(*                                                                         *)
(* A text is the set of its words, each in the singular; a question's      *)
(* tokens are a sequence.  Scores are naturals: a weight 1/n is            *)
(* Unit \div n, with a Unit that the small n of an instance divide.        *)
(* A passage has an id, the path and the title of its article, its text,   *)
(* its tokens, its score, and whether it is of an infobox or the lead.     *)
(***************************************************************************)
EXTENDS Naturals, Sequences, FiniteSets, SequencesExt

CONSTANT Unit \* what a weight of 1 is worth

ASSUME UnitAssumption == Unit \in Nat \ {0}

\* Above every score a passage can have by rank: the score of a key fact.
FactScore == 10 * Unit

Elements(s) == {s[i] : i \in 1..Len(s)}

\* The sum of a function's values, and of a sequence's.
SumOf(f) == FoldFunction(+, 0, f)
TotalOf(s) ==
    LET upTo[i \in 0..Len(s)] == IF i = 0 THEN 0 ELSE upTo[i - 1] + s[i] IN upTo[Len(s)]

\* A sequence, computed once.
Listed(s) == SubSeq(s, 1, Len(s))

\* Python's sort: by key, equal keys in the order they came in; keys[i] is the key
\* of s[i].
SortedBy(s, keys) ==
    LET key == Listed(keys)
        before(i, j) == key[i] < key[j] \/ (key[i] = key[j] /\ i < j)
        place == Listed([i \in 1..Len(s) |-> 1 + Cardinality({j \in 1..Len(s) : before(j, i)})])
    IN Listed([k \in 1..Len(s) |-> s[CHOOSE i \in 1..Len(s) : place[i] = k]])

\* The elements at some of the indexes, in their order.
AtIndexes(s, indexes) ==
    LET place(i) == Cardinality({j \in indexes : j <= i})
    IN Listed([k \in 1..Cardinality(indexes) |-> s[CHOOSE i \in indexes : place(i) = k]])

\* The first of the elements with the same key.
FirstPerKey(s, keys) ==
    AtIndexes(s, {i \in 1..Len(s) : \A j \in 1..(i - 1) : keys[j] # keys[i]})

Distinct(s) == FirstPerKey(s, s)

Prefix(s, n) == SubSeq(s, 1, IF Len(s) < n THEN Len(s) ELSE n)

Concat(ss) ==
    LET upTo[i \in 0..Len(ss)] == IF i = 0 THEN <<>> ELSE upTo[i - 1] \o ss[i] IN upTo[Len(ss)]

-----------------------------------------------------------------------------
(* Rankings *)

\* rrf_fuse: reciprocal rank fusion; a tie goes to what appeared first.
RrfScore(rankings, x) ==
    LET share(ranking) ==
            TotalOf([i \in 1..Len(ranking) |-> IF ranking[i] = x THEN Unit \div (59 + i) ELSE 0])
    IN TotalOf([r \in 1..Len(rankings) |-> share(rankings[r])])

RrfFuse(rankings) ==
    LET found == Distinct(Concat(rankings))
    IN SortedBy(found, [i \in DOMAIN found |-> FactScore - RrfScore(rankings, found[i])])

\* rank_terms_by_rarity: fewest hits first, terms without a hit dropped.
ByRarity(terms, hits) ==
    LET known == SelectSeq(Distinct(terms), LAMBDA t : hits[t] > 0)
    IN SortedBy(known, [i \in DOMAIN known |-> hits[known[i]]])

\* _idf_weight: a term never looked up counts as moderately common.
IdfWeight(term, counts) ==
    IF term \notin DOMAIN counts THEN 1
    ELSE IF counts[term] = 0 THEN 0 ELSE Unit \div counts[term]

\* _term_role_weights: the entity asked about counts more, a unit less (times 10).
RoleWeight(term, q) ==
    IF term \in q.entity THEN 25 ELSE IF term \in q.unit THEN 3 ELSE 10

\* _score_articles: own terms in the title or the lead, and a bonus for the part of
\* the title they cover.
ArticleScore(a, own, counts, q) ==
    LET weights(terms) == SumOf([t \in terms |-> IdfWeight(t, counts) * RoleWeight(t, q)])
        titled == own \cap a.title
    IN weights(own \cap (a.title \cup a.lead))
       + (IF a.title = {} THEN 0
          ELSE (Cardinality(titled) * weights(titled)) \div Cardinality(a.title))

ScoreArticles(articles, own, counts, q) ==
    SortedBy(articles, [i \in DOMAIN articles |->
        10 * FactScore * 100 - ArticleScore(articles[i], own, counts, q)])

\* The ranking hooks, each off unless its flag is on.
TitleBoost(passages, terms, enabled) ==
    IF enabled
      THEN SortedBy(passages, [i \in DOMAIN passages |->
               100 - Cardinality(terms \cap passages[i].title)])
      ELSE passages

\* How often the terms are mentioned, beyond the threshold.
MentionPenalty(passages, terms, threshold, enabled) ==
    LET mentions(p) == p.times * Cardinality(terms \cap p.text) IN
    IF enabled
      THEN SortedBy(passages, [i \in DOMAIN passages |->
               IF mentions(passages[i]) > threshold THEN mentions(passages[i]) ELSE 0])
      ELSE passages

HeadingAffinity(passages, terms, enabled) ==
    IF enabled
      THEN SortedBy(passages, [i \in DOMAIN passages |->
               100 - Cardinality(terms \cap passages[i].heading)])
      ELSE passages

LeadAugmentation(passages, enabled) ==
    IF enabled
      THEN SortedBy(passages, [i \in DOMAIN passages |-> IF passages[i].lead THEN 0 ELSE 1])
      ELSE passages

-----------------------------------------------------------------------------
(* Choosing passages *)

\* Mutant: the passage that reaches the cap is kept.
CapLoosely(passages, most) ==
    AtIndexes(passages, {i \in DOMAIN passages :
        Cardinality({j \in 1..(i - 1) : passages[j].path = passages[i].path}) <= most})

\* cap_per_article: at most so many passages of an article.
CapPerArticle(passages, most) ==
    AtIndexes(passages, {i \in DOMAIN passages :
        Cardinality({j \in 1..(i - 1) : passages[j].path = passages[i].path}) < most})

\* _drop_modifier_only_candidates: a candidate that matches a modifier and no topic
\* term goes, unless that leaves nothing.
DropModifierOnly(candidates, topic, modifiers) ==
    LET words(c) == c.title \cup c.text
        kept == AtIndexes(candidates, {i \in DOMAIN candidates :
                    \/ words(candidates[i]) \cap topic # {}
                    \/ words(candidates[i]) \cap modifiers = {}})
    IN IF modifiers = {} \/ topic = {} \/ kept = <<>> THEN candidates ELSE kept

\* _apply_relevance_cutoff: what scores a quarter of the best and shares a word with
\* the question, or is an infobox row of a leading article when a quantity is asked
\* for; never nothing, and never more than so many.
RelevanceCutoff(passages, own, top2, most, quantity) ==
    LET relevant(p) ==
            /\ 4 * p.score >= passages[1].score
            /\ own \cap p.text # {} \/ (quantity /\ p.infobox /\ p.path \in top2)
        kept == Prefix(AtIndexes(passages, {i \in DOMAIN passages : relevant(passages[i])}), most)
    IN IF passages = <<>> THEN <<>>
       ELSE IF kept = <<>> THEN <<passages[1]>> ELSE kept

\* Mutant: the remaining budget is not reduced.
PackEach(passages, budget) == SelectSeq(passages, LAMBDA p : p.tokens <= budget)

\* pack: greedy; a passage that does not fit is skipped, the next one is tried.
Pack(passages, budget) ==
    LET left[i \in 0..Len(passages)] ==
            IF i = 0 THEN budget
            ELSE LET before == left[i - 1] IN
                 IF before >= passages[i].tokens THEN before - passages[i].tokens ELSE before
    IN AtIndexes(passages, {i \in DOMAIN passages : left[i - 1] >= passages[i].tokens})

-----------------------------------------------------------------------------
(* Coverage *)

\* A term, or a form of it found for this request, is among the words.
TermMatches(term, words, variants) ==
    \/ term \in words
    \/ term \in DOMAIN variants /\ variants[term] \cap words # {}

NoCoverage == [covered |-> 0, terms |-> 1, titled |-> FALSE, weak |-> TRUE]

\* compute_coverage: the share of the terms in the text, and whether the title
\* matches.  A title match of a question with three terms of its own needs a third
\* of them in the text; one by the topic hint alone needs the threshold, 0.6.
ComputeCoverage(terms, p, hint, ownCount, variants) ==
    LET covered == Cardinality({t \in terms : TermMatches(t, p.text, variants)})
        total == Cardinality(terms)
        enough == 10 * covered >= 6 * total
        ownTitle == /\ \E t \in terms : TermMatches(t, p.title, variants)
                    /\ ~(ownCount >= 3 /\ 100 * covered < 34 * total)
        titled == ownTitle \/ (enough /\ hint \cap p.title # {})
    IN IF terms = {} THEN NoCoverage
       ELSE [covered |-> covered, terms |-> total, titled |-> titled,
             weak |-> ~titled /\ ~enough]

\* _best_coverage: the first of the three best passages that is not weak, or the one
\* that covers most.
BestCoverage(passages, terms, hint, ownCount, variants) ==
    LET top == Prefix(SortedBy(passages,
                          [i \in DOMAIN passages |-> FactScore - passages[i].score]), 3)
        coverage == [i \in 1..Len(top) |->
                        ComputeCoverage(terms, top[i], hint, ownCount, variants)]
        strong == {i \in 1..Len(top) : ~coverage[i].weak}
        best == {i \in 1..Len(top) : \A j \in 1..Len(top) :
                    \/ coverage[i].covered > coverage[j].covered
                    \/ coverage[i].covered = coverage[j].covered /\ i <= j}
    IN IF passages = <<>> THEN NoCoverage
       ELSE IF strong # {} THEN coverage[CHOOSE i \in strong : \A j \in strong : i <= j]
       ELSE coverage[CHOOSE i \in best : TRUE]

\* _merge_unknown_terms: unknown to every archive consulted.
MergeUnknown(perArchive) ==
    IF perArchive = <<>> THEN {}
    ELSE {t \in perArchive[1] : \A i \in 1..Len(perArchive) : t \in perArchive[i]}

=============================================================================
