------------------------------ MODULE Assessment ------------------------------
(***************************************************************************)
(* assess_evidence (tutor/retrieval/assessment.py): is what was found      *)
(* about what was asked?  "strong" needs half of the question's words in   *)
(* the first three passages, and one passage that alone carries the topic. *)
(*                                                                         *)
(* A passage has the words of its title and of its text, the phrases that  *)
(* stand in either word for word, and those that do as a run of letters,   *)
(* at the ends inside longer words too ("ion" in "million").  A phrase is  *)
(* a sequence of words; words are in the singular and small letters, and   *)
(* of one letter none.                                                     *)
(***************************************************************************)
EXTENDS EvidencePacking

CONSTANTS
    Generic,       \* _GENERIC_SINGLE_WORDS: alone, no evidence of a topic
    Structural,    \* _STRUCTURAL_WORDS: verbs and connectives, never part of a topic
    Numbers,       \* _NUMBER_EQUIVALENCE_GROUPS: "two", "ii", "second" are one
    Years,         \* numerals of three figures or more
    Superlatives,  \* the words is_superlative_word knows
    Cues           \* _SUPERLATIVE_CUE_PHRASES

ASSUME AssessmentAssumption == Numbers \subseteq SUBSET UNION Numbers

Top(passages) == Elements(Prefix(passages, 3))

TermsOf(p) == p.title \cup p.text

\* _number_group; a word that distinguishes one of several things of a name.
SameNumber(w) == UNION {g \in Numbers : w \in g}
Distinguishes(w) == SameNumber(w) # {} \/ w \in Years

\* The words of a phrase that are not numbers say nothing of their own.
AllGeneric(phrase) == \A w \in Elements(phrase) : Distinguishes(w) \/ w \in Generic

-----------------------------------------------------------------------------
(* Phrases *)

\* _multiword_phrase_candidates: two or three content words side by side in the
\* question as it was asked; a number in the run of such words is never left out.
PhraseCandidates(raw, key) ==
    LET content(i) == raw[i] \in key \ Structural
        run(i) == {j \in 1..Len(raw) :
                      \A k \in 1..Len(raw) : (i <= k /\ k <= j) \/ (j <= k /\ k <= i)
                                                => content(k)}
        fits(i, j) == \A k \in run(i) : Distinguishes(raw[k]) => k \in i..j
        stretches == {r \in (1..Len(raw)) \X (1..Len(raw)) :
                          /\ r[2] \in {r[1] + 1, r[1] + 2}
                          /\ \A k \in r[1]..r[2] : content(k)
                          /\ fits(r[1], r[2])}
    IN {SubSeq(raw, r[1], r[2]) : r \in stretches}

\* _phrase_words_match_passage: the words of the phrase in the title, a number in any
\* of its spellings ...
InTitle(w, p) == p.title \cap ({w} \cup SameNumber(w)) # {}
TitleCount(phrase, p) == Cardinality({i \in 1..Len(phrase) : InTitle(phrase[i], p)})

\* ... and no number missing.
NumbersMatch(phrase, p) ==
    \A w \in Elements(phrase) : Distinguishes(w) => InTitle(w, p)

\* _multiword_phrase_in_passage: the phrase word for word, unless it is all generic; or
\* two of its words in the title.
CarriesPhrase(phrase, p) ==
    \/ ~AllGeneric(phrase) /\ phrase \in p.phrases
    \/ NumbersMatch(phrase, p) /\ TitleCount(phrase, p) >= 2

-----------------------------------------------------------------------------
(* The topic *)

\* _phrase_in_passage: the passage has the phrase as it is written, even inside other
\* words, or has each of its words.
Mentions(phrase, p) == phrase \in p.letters \/ Elements(phrase) \subseteq TermsOf(p)

\* Mutant: the words may come from different passages.
TopicSpread(phrase, passages) ==
    \/ \E p \in Top(passages) : phrase \in p.letters
    \/ Elements(phrase) \subseteq UNION {TermsOf(p) : p \in Top(passages)}

\* _topic_present: some one passage mentions it.
TopicPresent(phrase, passages) == \E p \in Top(passages) : Mentions(phrase, p)

\* _topic_candidates without a correction: words that are neither superlatives nor
\* generic, while there are any.
TopicWords(key) ==
    LET named == key \ Superlatives
    IN IF named \ Generic # {} THEN named \ Generic ELSE IF named # {} THEN named ELSE key

\* _all_generic_near_miss: a passage of a related thing, which no single word redeems.
NearMiss(phrase, passages) ==
    AllGeneric(phrase) /\ \E p \in Top(passages) : TitleCount(phrase, p) >= 1

\* _select_topic_phrase: a correction is the topic; else a phrase of the question, or
\* what a single word of it can still show; else any of its words.
TopicFound(raw, key, corrections, passages) ==
    LET phrases == PhraseCandidates(raw, key) IN
    IF corrections # {}
      THEN \E phrase \in corrections : TopicPresent(phrase, passages)
    ELSE IF phrases = {}
      THEN \E w \in TopicWords(key) : TopicPresent(<<w>>, passages)
    ELSE \/ \E phrase \in phrases, p \in Top(passages) : CarriesPhrase(phrase, p)
         \/ /\ ~\E phrase \in phrases : NearMiss(phrase, passages)
            /\ \E w \in TopicWords(key \ Structural) :
                  ~Distinguishes(w) /\ TopicPresent(<<w>>, passages)

\* _superlative_gate_ok: what is said of the biggest thing is said of the thing.
SuperlativeGate(key, passages) ==
    LET head == key \ Superlatives
        cue(p) == TermsOf(p) \cap Superlatives # {} \/ p.phrases \cap Cues # {}
    IN \/ key \cap Superlatives = {} \/ head = {}
       \/ \E p \in Top(passages) : TermsOf(p) \cap head # {} /\ cue(p)

-----------------------------------------------------------------------------
(* The level *)

\* The words to cover: of the question, or of its rewritten forms and what of the
\* question itself was well known.
KeyTerms(own, rewrites, healthy) ==
    IF rewrites = {} THEN own ELSE UNION rewrites \cup (own \cap healthy)

Covered(key, passages) == key \cap UNION {TermsOf(p) : p \in Top(passages)}

Level(raw, key, corrections, passages) ==
    IF passages = <<>> THEN "empty"
    ELSE IF key = {} THEN "strong"
    ELSE IF /\ 2 * Cardinality(Covered(key, passages)) >= Cardinality(key)
            /\ TopicFound(raw, key, corrections, passages)
            /\ SuperlativeGate(key, passages)
         THEN "strong" ELSE "weak"

=============================================================================
