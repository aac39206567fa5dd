---------------------------- MODULE MCResearchQuery ----------------------------
(* Small archives: a first one that knows helium and the sunflower, a second one *)
(* that is larger, with gardening, and one for procedural questions only.        *)
EXTENDS ResearchQuery

MCArchives == <<"simple", "full", "repair">>
MCTier == [a \in Elements(MCArchives) |->
    IF a = "simple" THEN 1 ELSE IF a = "full" THEN 2 ELSE 3]

Passage(id, path, title, text, tokens) ==
    [id |-> id, path |-> path, title |-> title, text |-> text, tokens |-> tokens,
     score |-> 0, infobox |-> FALSE, lead |-> FALSE, heading |-> {}, times |-> 1, phrases |-> {},
     letters |-> {}]

Row(id, path, title, text) ==
    [Passage(id, path, title, text, 1) EXCEPT !.score = FactScore, !.infobox = TRUE]

Helium ==
    [path |-> "helium", title |-> {"helium"}, lead |-> {"helium", "gas"},
     passages |-> <<Passage("h1", "helium", {"helium"}, {"helium", "hottest"}, 1),
                    Passage("h2", "helium", {"helium"}, {"gas", "hottest"}, 1),
                    Passage("h3", "helium", {"helium"}, {"hottest"}, 1)>>,
     facts |-> <<Row("h0", "helium", {"helium"}, {"hottest", "celsius"})>>]

Star ==
    [path |-> "star", title |-> {"hottest", "star"}, lead |-> {"star"},
     passages |-> <<Passage("b1", "star", {"hottest", "star"}, {"hottest", "star"}, 3)>>,
     facts |-> <<>>]

Gardening ==
    [path |-> "gardening", title |-> {"square", "foot", "gardening"}, lead |-> {"gardening"},
     passages |-> <<Passage("g1", "gardening", {"square", "foot", "gardening"},
                            {"gardening", "bed"}, 2)>>,
     facts |-> <<>>]

Square ==
    [path |-> "square", title |-> {"square"}, lead |-> {"square"},
     passages |-> <<Passage("q1", "square", {"square"}, {"square", "garden"}, 1)>>,
     facts |-> <<>>]

Foot ==
    [path |-> "foot", title |-> {"foot"}, lead |-> {"foot"},
     passages |-> <<Passage("f1", "foot", {"foot"}, {"foot", "garden"}, 1)>>,
     facts |-> <<>>]

Flower ==
    [path |-> "sunflower", title |-> {"sunflower"}, lead |-> {"sunflower", "plant"},
     passages |-> <<[Passage("s1", "sunflower", {"sunflower"}, {"sunflower", "seed"}, 2)
                      EXCEPT !.letters = {<<"sun">>, <<"flower">>}]>>,
     facts |-> <<>>]

MCArticles == [a \in Elements(MCArchives) |->
    IF a = "simple" THEN <<Star, Helium, Flower>> ELSE IF a = "full" THEN <<Gardening, Square, Foot>>
    ELSE <<>>]

MCCount == [a \in Elements(MCArchives) |->
    IF a = "simple" THEN [w \in {"helium", "hottest", "sunflower", "sun", "flower"} |->
                             IF w = "hottest" THEN 7 ELSE 4]
    ELSE IF a = "full" THEN [w \in {"square", "foot", "gardening", "square foot"} |->
                                IF w \in {"square", "foot"} THEN 300 ELSE 4]
    ELSE [w \in {} |-> 0]]

MCSuggested == [a \in Elements(MCArchives) |->
    IF a = "simple" THEN [w \in {"heluim"} |-> {"helium"}] ELSE [w \in {} |-> {}]]

MCParts == [w \in {"square foot", "sun flower"} |->
    IF w = "square foot" THEN <<"square", "foot">> ELSE <<"sun", "flower">>]
MCHalves == [w \in {"squarefoot"} |-> {"square foot"}]
MCJoined == [w \in {"sun flower"} |-> "sunflower"]
MCVariants == [w \in {"garden"} |-> {"gardening"}]
MCDense == [a \in Elements(MCArchives) |-> IF a = "full" THEN <<"gardening">> ELSE <<>>]

Question(name, tokens) ==
    [name |-> name, tokens |-> tokens, raw |-> tokens, own |-> Elements(tokens), modifiers |-> {},
     entity |-> {}, unit |-> {}, hint |-> <<>>, refersBack |-> FALSE,
     procedural |-> FALSE, quantity |-> FALSE, rewritten |-> FALSE]

MCQuestions ==
    {[Question("misspelt", <<"heluim", "hottest">>) EXCEPT !.quantity = TRUE,
         !.entity = {"heluim"}, !.modifiers = {"hottest"}],
     [Question("compound", <<"squarefoot", "garden">>) EXCEPT !.procedural = TRUE,
         !.rewritten = TRUE],
     [Question("follow-up", <<"sun", "flower">>) EXCEPT !.hint = <<"helium">>,
         !.refersBack = TRUE]}

MCGeneric == {"square", "foot", "world", "war"}
MCStructural == {"caused"}
MCNumbers == {{"one", "i"}, {"two", "ii"}}
MCYears == {"1914"}
MCSuperlatives == {"hottest"}
MCCues == {<<"record", "holder">>}

-----------------------------------------------------------------------------
(* assess_evidence on a question with a number in it *)

Asked == <<"what", "caused", "world", "war", "two">>
AskedKey == {"caused", "world", "war", "two"}

\* Articles about the one war or the other, or neither, that may mention either.
Wars ==
    [title : {{}, {"world", "war"}, {"world", "war", "i"}, {"world", "war", "ii"}},
     text : {{}, {"world"}, {"world", "war", "two"}, {"caused", "world", "war", "i"}},
     phrases : {{}, {<<"world", "war", "two">>}}, letters : {{}, {<<"war">>, <<"two">>}}]

\* However the second war is spelt, and whatever the other articles mention, a strong
\* level needs an article with it in its title.
ASSUME OtherWarNeverCounts ==
    \A p, q \in Wars :
        Level(Asked, AskedKey, {}, <<p, q>>) = "strong" =>
            "ii" \in p.title \cup q.title

\* And such an article is enough.
ASSUME SameWarCounts ==
    \A p, q \in Wars :
        "ii" \in p.title => Level(Asked, AskedKey, {}, <<q, p>>) = "strong"

\* "ion" in "million": a word of the question is in a passage, and what it is about stands
\* only inside another word of it; the level is strong.
ASSUME InsideAWordCounts ==
    \A ts \in {{}, {<<"ion">>}} :
        LET p == [title |-> {}, text |-> {"world", "million"}, phrases |-> {}, letters |-> ts]
        IN Level(<<"world", "of", "ion">>, {"world", "ion"}, {}, <<p>>)
             = IF ts = {} THEN "weak" ELSE "strong"

=============================================================================
