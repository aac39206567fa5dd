--------------------------- MODULE RepetitionGuard ---------------------------
(***************************************************************************)
(* find_repetition_loop (tutor/app/repetition_guard.py): has the tail of   *)
(* an answer become a loop, and how much of the answer is worth keeping?   *)
(*                                                                         *)
(* A text is the sequence of its units (lines and sentences).  Of a unit   *)
(* only two things count: its normalised form, and whether the unit as     *)
(* written is long enough to be judged (min_unit_chars).  Two units of the *)
(* same form need not both be long: the length is that of the unit with    *)
(* its citation labels, the form is without them.                          *)
(***************************************************************************)
EXTENDS Integers, Sequences, FiniteSetsExt

CONSTANTS
    MinRepeats,  \* DEFAULT_MIN_REPEATS
    MinPeriods,  \* DEFAULT_MIN_PERIODS
    Periods,     \* _CYCLE_PERIODS
    TailSkip     \* units a cycle may end before the last one judged

ASSUME GuardAssumption ==
    /\ {MinRepeats, MinPeriods} \subseteq Nat \ {0, 1} /\ TailSkip \in Nat
    /\ Periods \subseteq Nat \ {0, 1}

\* The last unit that is long enough to judge; 0 when there is none.
LastJudged(text) == Max({0} \cup {i \in DOMAIN text : text[i].long})

\* Units i and j of the text are the same, and long enough to count.
Repeats(text, i, j) ==
    text[i].form = text[j].form /\ text[i].long /\ text[j].long

\* How many units up to `last` say the same thing as it does.
RunLength(text, last) ==
    Max({r \in 1..last : \A i \in (last - r + 1)..last : Repeats(text, i, last)})

\* How many units up to `end` say the same as the one a period before them.
Matched(text, end, period) ==
    Max({m \in 0..(end - period) :
            \A k \in 0..(m - 1) : Repeats(text, end - k, end - k - period)})

\* The cycles that end at, or up to TailSkip units before, the last judged unit.
Cycles(text, last) ==
    {c \in (0..Min({TailSkip, last - 1})) \X Periods :
        /\ last - c[1] > c[2]
        /\ Matched(text, last - c[1], c[2]) >= c[2] * (MinPeriods - 1)}

\* The cycle reported: nearest to the tail, then the shortest.
Reported(cycles) ==
    CHOOSE c \in cycles : \A d \in cycles : c[1] < d[1] \/ (c[1] = d[1] /\ c[2] <= d[2])

\* Mutant: cycles are not looked for, only one unit said again and again.
KeptOfRuns(text) ==
    LET last == LastJudged(text)
    IN  IF last = 0 \/ RunLength(text, last) < MinRepeats
        THEN 0 ELSE last - RunLength(text, last) + 1

\* The units worth keeping when the tail has become a loop: through the first of the
\* repeated unit, or the first period of the cycle.  0 when the tail is no loop.
KeptOf(text) ==
    LET last   == LastJudged(text)
        cycles == Cycles(text, last)
        first  == Reported(cycles)
        end    == last - first[1]
    IN  IF last = 0 THEN 0
        ELSE IF RunLength(text, last) >= MinRepeats THEN last - RunLength(text, last) + 1
        ELSE IF cycles = {} THEN 0
        ELSE end - Matched(text, end, first[2])

=============================================================================
