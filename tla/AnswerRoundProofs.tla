-------------------------- MODULE AnswerRoundProofs --------------------------
(***************************************************************************)
(* What a turn's requests keep for any units, any bounds and any child:    *)
(* no answer has a loop in it, a completed stream is shown whole, and no   *)
(* child process outlives its evaluation.                                  *)
(***************************************************************************)
EXTENDS AnswerRound, SequenceTheorems, WellFoundedInduction, TLAPS

-----------------------------------------------------------------------------
(* Least and greatest numbers *)

\* A set of naturals has a least element: this is what stands for induction below.
LEMMA LeastOf ==
  ASSUME NEW T \in SUBSET Nat, T # {}
  PROVE  \E x \in T : \A y \in T : x <= y
<1> DEFINE R == {ss \in Nat \X Nat : ss[1] < ss[2]}
<1>1. IsWellFoundedOn(R, Nat)
  BY NatLessThanWellFounded DEF OpToRel
<1>2. PICK x \in T : \A y \in T : ~(<<y, x>> \in R)
  BY <1>1, WFMin
<1>3. \A y \in T : ~(y < x)
  BY <1>2
<1> QED
  BY <1>3

\* Max of a bounded set of naturals.
LEMMA MaxOf ==
  ASSUME NEW S \in SUBSET Nat, S # {}, NEW n \in Nat, \A x \in S : x <= n
  PROVE  Max(S) \in S /\ \A y \in S : y <= Max(S)
<1> DEFINE T == {n - x : x \in S}
<1>1. T \in SUBSET Nat /\ T # {}
  <2>1. ASSUME NEW x \in S PROVE n - x \in Nat
    <3>1. x \in Nat /\ x <= n
      OBVIOUS
    <3> QED
      BY <3>1
  <2> QED
    BY <2>1
<1>2. PICK d \in T : \A e \in T : d <= e
  BY <1>1, LeastOf
<1>3. PICK x \in S : d = n - x
  BY <1>2
<1>4. \A y \in S : x >= y
  <2>1. ASSUME NEW y \in S PROVE x >= y
    <3>1. d <= n - y /\ y \in Nat /\ x \in Nat
      BY <1>2
    <3> QED
      BY <1>3, <3>1
  <2> QED
    BY <2>1
<1>5. Max(S) \in S /\ \A y \in S : Max(S) >= y
  BY <1>4 DEF Max
<1> QED
  BY <1>5

\* Min of two naturals.
LEMMA MinOfTwo ==
  ASSUME NEW a \in Nat, NEW b \in Nat
  PROVE  Min({a, b}) \in Nat /\ Min({a, b}) <= a /\ Min({a, b}) <= b
<1>1. \E x \in {a, b} : \A y \in {a, b} : x =< y
  <2>1. CASE a <= b
    BY <2>1
  <2>2. CASE ~(a <= b)
    BY <2>2
  <2> QED
    BY <2>1, <2>2
<1>2. Min({a, b}) \in {a, b} /\ \A y \in {a, b} : Min({a, b}) =< y
  BY <1>1 DEF Min
<1> QED
  BY <1>2

-----------------------------------------------------------------------------
(* find_repetition_loop *)

\* The numbers of the guard, one by one.
LEMMA GuardNumbers ==
  /\ MinRepeats \in Nat /\ MinRepeats >= 2 /\ MinPeriods \in Nat /\ MinPeriods >= 2
  /\ TailSkip \in Nat /\ \A p \in Periods : p \in Nat /\ p >= 2
<1>1. MinRepeats \in Nat \ {0, 1} /\ MinPeriods \in Nat \ {0, 1} /\ TailSkip \in Nat
  BY GuardAssumption
<1>2. ASSUME NEW p \in Periods PROVE p \in Nat \ {0, 1}
  BY GuardAssumption
<1> QED
  BY <1>1, <1>2

Texts == Seq(Units)

\* Whether two units count as the same is a question with an answer.
LEMMA UnitLong ==
  ASSUME NEW s \in Texts, NEW i \in DOMAIN s
  PROVE  s[i] \in Units /\ s[i].long \in BOOLEAN
  BY AnswerRoundAssumption, ElementOfSeq DEF Texts

\* The last unit that is judged.
LEMMA LastIs ==
  ASSUME NEW s \in Texts
  PROVE  /\ LastJudged(s) \in 0..Len(s)
         /\ LastJudged(s) # 0 => LastJudged(s) \in DOMAIN s /\ s[LastJudged(s)].long
         /\ \A i \in DOMAIN s : s[i].long => i <= LastJudged(s)
<1> DEFINE S == {0} \cup {i \in DOMAIN s : s[i].long}
<1>1. Len(s) \in Nat /\ DOMAIN s = 1..Len(s)
  BY LenProperties DEF Texts
<1>2. S \in SUBSET Nat /\ S # {} /\ \A x \in S : x <= Len(s)
  BY <1>1
<1>3. Max(S) \in S /\ \A y \in S : y <= Max(S)
  BY <1>1, <1>2, MaxOf
<1>4. Max(S) = LastJudged(s)
  BY DEF LastJudged
<1> QED
  BY <1>1, <1>3, <1>4

\* The run that the last judged unit ends.
LEMMA RunIs ==
  ASSUME NEW s \in Texts, NEW last \in DOMAIN s, s[last].long
  PROVE  /\ RunLength(s, last) \in 1..last
         /\ \A r \in 1..last : (\A i \in (last - r + 1)..last : Repeats(s, i, last))
                                  => r <= RunLength(s, last)
<1> DEFINE S == {r \in 1..last : \A i \in (last - r + 1)..last : Repeats(s, i, last)}
<1>1. last \in Nat \ {0}
  BY LenProperties DEF Texts
<1>2. 1 \in S
  <2>1. \A i \in (last - 1 + 1)..last : i = last
    BY <1>1
  <2>2. Repeats(s, last, last)
    BY DEF Repeats
  <2> QED
    BY <1>1, <2>1, <2>2
<1>3. S \in SUBSET Nat /\ S # {} /\ \A x \in S : x <= last
  BY <1>1, <1>2
<1>4. Max(S) \in S /\ \A y \in S : y <= Max(S)
  BY <1>1, <1>3, MaxOf
<1>5. Max(S) = RunLength(s, last)
  BY DEF RunLength
<1> QED
  BY <1>4, <1>5

\* The units that match the ones a period before them.
LEMMA MatchedIs ==
  ASSUME NEW s, NEW end \in Nat, NEW period \in Nat, period <= end
  PROVE  /\ Matched(s, end, period) \in 0..(end - period)
         /\ \A m \in 0..(end - period) :
               (\A k \in 0..(m - 1) : Repeats(s, end - k, end - k - period))
                  => m <= Matched(s, end, period)
<1> DEFINE S == {m \in 0..(end - period) :
                    \A k \in 0..(m - 1) : Repeats(s, end - k, end - k - period)}
<1>1. 0 \in S
  OBVIOUS
<1>2. S \in SUBSET Nat /\ S # {} /\ \A x \in S : x <= end
  <2>1. end - period \in Nat /\ end - period <= end
    OBVIOUS
  <2>2. \A x \in 0..(end - period) : x \in Nat /\ x <= end
    BY <2>1
  <2> QED
    BY <1>1, <2>2
<1>3. Max(S) \in S /\ \A y \in S : y <= Max(S)
  BY <1>2, MaxOf
<1>4. Max(S) = Matched(s, end, period)
  BY DEF Matched
<1> QED
  BY <1>3, <1>4

\* The cycle reported is one of those found.
LEMMA ReportedIs ==
  ASSUME NEW cs, cs \subseteq Nat \X Nat, cs # {}
  PROVE  Reported(cs) \in cs
<1>1. PICK skip \in {c[1] : c \in cs} : \A x \in {c[1] : c \in cs} : skip <= x
  <2>1. {c[1] : c \in cs} \in SUBSET Nat /\ {c[1] : c \in cs} # {}
    OBVIOUS
  <2> QED
    BY <2>1, LeastOf
<1> DEFINE near == {c[2] : c \in {d \in cs : d[1] = skip}}
<1>2. PICK period \in near : \A x \in near : period <= x
  <2>1. near \in SUBSET Nat /\ near # {}
    BY <1>1
  <2> QED
    BY <2>1, LeastOf
<1>3. PICK c \in cs : c[1] = skip /\ c[2] = period
  BY <1>2
<1>4. ASSUME NEW d \in cs
      PROVE  c[1] < d[1] \/ (c[1] = d[1] /\ c[2] <= d[2])
  <2>1. d[1] \in Nat /\ c[1] \in Nat /\ c[1] <= d[1]
    BY <1>1, <1>3
  <2>2. d[1] = c[1] => d[2] \in near
    BY <1>3
  <2> QED
    BY <1>2, <1>3, <2>1, <2>2
<1> QED
  BY <1>3, <1>4 DEF Reported

\* What is kept of a text ends before its last unit, and is not nothing when a loop is
\* found.
LEMMA KeptIs ==
  ASSUME NEW s \in Texts, s # <<>>
  PROVE  /\ KeptOf(s) \in 0..(Len(s) - 1)
         /\ LastJudged(s) # 0 /\ (\/ RunLength(s, LastJudged(s)) >= MinRepeats
                                  \/ Cycles(s, LastJudged(s)) # {})
               => KeptOf(s) # 0
<1> DEFINE last == LastJudged(s) cycles == Cycles(s, last) run == RunLength(s, last)
<1>0. Len(s) \in Nat /\ Len(s) >= 1 /\ DOMAIN s = 1..Len(s)
  BY LenProperties, EmptySeq DEF Texts
<1>1. CASE last = 0
  <2>1. KeptOf(s) = 0
    BY <1>1 DEF KeptOf
  <2> QED
    BY <1>0, <1>1, <2>1
<1>2. CASE last # 0
  <2>1. last \in 1..Len(s) /\ s[last].long
    BY <1>0, <1>2, LastIs
  <2>2. run \in 1..last
    BY <1>0, <2>1, RunIs
  <2>3. CASE run >= MinRepeats
    <3>1. KeptOf(s) = last - run + 1
      BY <1>2, <2>3 DEF KeptOf
    <3>2. run >= 2
      BY <2>2, <2>3, GuardAssumption
    <3> HIDE DEF last, run
    <3>3. last - run + 1 \in 0..(Len(s) - 1) /\ last - run + 1 # 0
      BY <1>0, <2>1, <2>2, <3>2
    <3> QED
      BY <3>1, <3>3
  <2>4. CASE ~(run >= MinRepeats) /\ cycles = {}
    <3>1. KeptOf(s) = 0
      BY <1>2, <2>4 DEF KeptOf
    <3> QED
      BY <1>0, <2>4, <3>1
  <2>5. CASE ~(run >= MinRepeats) /\ cycles # {}
    <3> DEFINE first == Reported(cycles) end == last - first[1]
    <3>0. Min({TailSkip, last - 1}) \in Nat /\ Min({TailSkip, last - 1}) <= last - 1
      BY <2>1, GuardAssumption, MinOfTwo
    <3>1. cycles \subseteq Nat \X Nat
      <4>1. Periods \subseteq Nat /\ 0..Min({TailSkip, last - 1}) \subseteq Nat
        BY <3>0, GuardNumbers
      <4> QED
        BY <4>1 DEF Cycles
    <3>2. first \in cycles
      BY <2>5, <3>1, ReportedIs
    <3>3. /\ first[1] \in 0..(last - 1) /\ first[2] \in Periods /\ end > first[2]
          /\ Matched(s, end, first[2]) >= first[2] * (MinPeriods - 1)
      BY <2>1, <3>0, <3>2 DEF Cycles
    <3>4. KeptOf(s) = end - Matched(s, end, first[2])
      BY <1>2, <2>5 DEF KeptOf
    <3> HIDE DEF first, last, cycles, run
    <3>5. first[2] \in Nat /\ first[2] >= 2 /\ MinPeriods - 1 \in Nat /\ MinPeriods - 1 >= 1
      <4>1. first[2] \in Nat /\ first[2] >= 2
        BY <3>3, GuardNumbers
      <4>2. MinPeriods - 1 \in Nat /\ MinPeriods - 1 >= 1
        BY GuardNumbers
      <4> QED
        BY <4>1, <4>2
    <3>6. end \in 1..last /\ end \in Nat
      BY <2>1, <3>3
    <3> HIDE DEF end
    <3>7. first[2] * (MinPeriods - 1) >= 1
      BY <3>5
    <3>8. Matched(s, end, first[2]) \in 0..(end - first[2])
      BY <3>3, <3>5, <3>6, MatchedIs
    <3>9. Matched(s, end, first[2]) >= 1
      BY <3>3, <3>5, <3>7, <3>8
    <3>10. end - Matched(s, end, first[2]) \in 1..(Len(s) - 1)
      BY <1>0, <2>1, <3>5, <3>6, <3>8, <3>9
    <3> QED
      BY <1>0, <3>4, <3>10
  <2> QED
    BY <2>3, <2>4, <2>5
<1> QED
  BY <1>1, <1>2

\* Units that follow each other and are the same, one by one, are all the same.
LEMMA RunAlike ==
  ASSUME NEW s \in Texts, NEW first \in Nat, NEW end \in Nat, first < end,
         \A i \in first..(end - 1) : Repeats(s, i, i + 1)
  PROVE  \A i \in first..end : Repeats(s, i, end)
<1>1. s[end].long
  <2>1. end - 1 \in first..(end - 1) /\ (end - 1) + 1 = end
    OBVIOUS
  <2> QED
    BY <2>1 DEF Repeats
<1>2. \A i \in first..end : s[i].long
  <2>1. \A i \in first..end : i = end \/ i \in first..(end - 1)
    OBVIOUS
  <2> QED
    BY <1>1, <2>1 DEF Repeats
<1> DEFINE T == {d \in 0..(end - first) : s[end - d].form # s[end].form}
<1>3. T = {}
  <2> SUFFICES ASSUME T # {} PROVE FALSE
    OBVIOUS
  <2>1. PICK d \in T : \A e \in T : d <= e
    <3>1. T \in SUBSET Nat
      OBVIOUS
    <3> QED
      BY <3>1, LeastOf
  <2>2. d \in 0..(end - first) /\ s[end - d].form # s[end].form
    BY <2>1
  <2>3. d # 0
    <3>1. end - 0 = end
      OBVIOUS
    <3> QED
      BY <2>2, <3>1
  <2>4. d - 1 \in 0..(end - first) /\ ~(d <= d - 1)
    BY <2>2, <2>3
  <2>5. s[end - (d - 1)].form = s[end].form
    BY <2>1, <2>4
  <2>6. end - d \in first..(end - 1) /\ (end - d) + 1 = end - (d - 1)
    BY <2>2, <2>3
  <2>7. s[end - d].form = s[end - (d - 1)].form
    BY <2>6 DEF Repeats
  <2> QED
    BY <2>2, <2>5, <2>7
<1>4. \A i \in first..end : s[i].form = s[end].form
  <2>1. ASSUME NEW i \in first..end PROVE s[i].form = s[end].form
    <3>1. end - i \in 0..(end - first) /\ end - (end - i) = i
      BY <2>1
    <3> QED
      BY <1>3, <3>1
  <2> QED
    BY <2>1
<1> QED
  BY <1>1, <1>2, <1>4 DEF Repeats

\* What begins a text loops in the text.
LEMMA PrefixLoops ==
  ASSUME NEW s \in Texts, NEW n \in 0..Len(s), LoopsIn(SubSeq(s, 1, n))
  PROVE  LoopsIn(s)
<1> DEFINE t == SubSeq(s, 1, n)
<1>1. Len(s) \in Nat /\ DOMAIN s = 1..Len(s) /\ n \in Nat /\ n <= Len(s)
  BY LenProperties DEF Texts
<1>2. DOMAIN t = 1..n /\ \A i \in 1..n : t[i] = s[i]
  <2>1. t = [i \in 1..n |-> s[i]]
    BY <1>1 DEF SubSeq
  <2> QED
    BY <2>1
<1> HIDE DEF t
<1>3. LoopsIn(t)
  BY DEF t
<1>4. PICK period \in {1} \cup Periods, first \in DOMAIN t :
        LET end == first + period * (IF period = 1 THEN MinRepeats ELSE MinPeriods) - 1
        IN  /\ end \in DOMAIN t
            /\ \A i \in first..(end - period) : Repeats(t, i, i + period)
  BY <1>3 DEF LoopsIn
<1> DEFINE end == first + period * (IF period = 1 THEN MinRepeats ELSE MinPeriods) - 1
<1>5. end \in 1..n /\ first \in 1..n /\ period \in Nat
      /\ \A i \in first..(end - period) : Repeats(t, i, i + period)
  <2>1. /\ end \in DOMAIN t /\ first \in DOMAIN t
        /\ \A i \in first..(end - period) : Repeats(t, i, i + period)
    BY <1>4
  <2>2. period \in Nat
    BY GuardNumbers
  <2> HIDE DEF end
  <2> QED
    BY <1>2, <2>1, <2>2
<1> HIDE DEF end
<1>6. ASSUME NEW i \in first..(end - period)
      PROVE  Repeats(s, i, i + period)
  <2>1. i \in 1..n /\ i + period \in 1..n
    BY <1>1, <1>5, <1>6
  <2>2. Repeats(t, i, i + period)
    BY <1>5
  <2> QED
    BY <1>2, <2>1, <2>2 DEF Repeats
<1>7. end \in DOMAIN s /\ first \in DOMAIN s
  BY <1>1, <1>5
<1> QED
  BY <1>6, <1>7 DEF LoopsIn, end

\* The guard is asked after every unit: the unit that completes a loop is caught.
LEMMA LoopCaught ==
  ASSUME NEW t \in Texts, NEW u \in Units, ~LoopsIn(t), LoopsIn(Append(t, u))
  PROVE  KeptOf(Append(t, u)) # 0
<1> DEFINE s == Append(t, u)
<1>1. /\ s \in Texts /\ s # <<>> /\ Len(t) \in Nat /\ Len(s) = Len(t) + 1
      /\ DOMAIN s = 1..(Len(t) + 1) /\ DOMAIN t = 1..Len(t)
      /\ \A i \in 1..Len(t) : s[i] = t[i]
  BY AppendProperties, LenProperties DEF Texts
<1>2. LoopsIn(s)
  OBVIOUS
<1> HIDE DEF s
<1>3. PICK period \in {1} \cup Periods, first \in DOMAIN s :
        LET end == first + period * (IF period = 1 THEN MinRepeats ELSE MinPeriods) - 1
        IN  /\ end \in DOMAIN s
            /\ \A i \in first..(end - period) : Repeats(s, i, i + period)
  BY <1>2 DEF LoopsIn
<1> DEFINE span == IF period = 1 THEN MinRepeats ELSE MinPeriods
           end == first + period * span - 1
           m == period * (span - 1)
<1>4. /\ first \in 1..(Len(t) + 1) /\ end \in 1..(Len(t) + 1)
      /\ \A i \in first..(end - period) : Repeats(s, i, i + period)
  BY <1>1, <1>3
<1>5. period \in Nat /\ period >= 1 /\ span \in Nat /\ span >= 2
  BY GuardNumbers
<1>6. m \in Nat /\ m >= 1 /\ end = first - 1 + m + period
  <2>1. span - 1 \in Nat /\ span - 1 >= 1
    BY <1>5
  <2>2. period * span = period * (span - 1) + period
    BY <1>5
  <2>3. period * (span - 1) \in Nat /\ period * (span - 1) >= 1
    BY <1>5, <2>1
  <2> QED
    BY <1>4, <1>5, <2>2, <2>3
<1> HIDE DEF m, end
<1>7. end = Len(t) + 1
  <2> SUFFICES ASSUME end <= Len(t) PROVE FALSE
    BY <1>1, <1>4
  <2>1. first \in DOMAIN t /\ end \in DOMAIN t
    BY <1>1, <1>4, <1>5, <1>6
  <2>2. ASSUME NEW i \in first..(end - period)
        PROVE  Repeats(t, i, i + period)
    <3>1. i \in 1..Len(t) /\ i + period \in 1..Len(t)
      BY <1>1, <1>4, <1>5, <2>1, <2>2
    <3>2. Repeats(s, i, i + period)
      BY <1>4, <2>2
    <3> QED
      BY <1>1, <3>1, <3>2 DEF Repeats
  <2>3. LoopsIn(t)
    BY <2>1, <2>2 DEF LoopsIn, end
  <2> QED
    BY <2>3
<1>8. end - period \in first..(end - period) /\ (end - period) + period = end
  BY <1>4, <1>5, <1>6
<1>9. s[end].long
  BY <1>4, <1>8 DEF Repeats
<1>10. LastJudged(s) = end /\ end \in DOMAIN s
  <2>1. end \in DOMAIN s
    BY <1>1, <1>4
  <2>2. LastJudged(s) \in 0..Len(s) /\ end <= LastJudged(s)
    BY <1>1, <1>9, <2>1, LastIs
  <2> QED
    BY <1>1, <1>7, <2>1, <2>2
<1>11. CASE period = 1
  <2>1. span = MinRepeats /\ m = MinRepeats - 1
    BY <1>5, <1>11 DEF m
  <2>2. MinRepeats \in 1..end /\ end - MinRepeats + 1 = first /\ first < end
    BY <1>4, <1>5, <1>6, <1>11, <2>1
  <2>3. \A i \in first..end : Repeats(s, i, end)
    <3>1. \A i \in first..(end - 1) : Repeats(s, i, i + 1)
      BY <1>4, <1>11
    <3>2. first \in Nat /\ end \in Nat /\ first < end
      BY <1>4, <2>2
    <3> QED
      BY <1>1, <3>1, <3>2, RunAlike
  <2>4. RunLength(s, end) >= MinRepeats
    <3>1. /\ RunLength(s, end) \in 1..end
          /\ \A r \in 1..end : (\A i \in (end - r + 1)..end : Repeats(s, i, end))
                                  => r <= RunLength(s, end)
      BY <1>1, <1>9, <1>10, RunIs
    <3>2. \A i \in (end - MinRepeats + 1)..end : Repeats(s, i, end)
      BY <2>2, <2>3
    <3>3. MinRepeats <= RunLength(s, end)
      BY <2>2, <3>1, <3>2
    <3> QED
      BY <2>2, <3>1, <3>3
  <2>5. KeptOf(s) # 0
    BY <1>1, <1>4, <1>10, <2>4, KeptIs
  <2> QED
    BY <2>5 DEF s
<1>12. CASE period \in Periods
  <2>1. period # 1 /\ span = MinPeriods /\ m = period * (MinPeriods - 1)
    BY <1>12, GuardAssumption DEF m
  <2>2. m \in 0..(end - period) /\ period <= end /\ end \in Nat
    BY <1>4, <1>5, <1>6
  <2> HIDE DEF span
  <2>3. ASSUME NEW k \in 0..(m - 1)
        PROVE  Repeats(s, end - k, end - k - period)
    <3>1. end - k - period \in first..(end - period)
          /\ (end - k - period) + period = end - k
      BY <1>4, <1>5, <1>6, <2>3
    <3>2. Repeats(s, end - k - period, end - k)
      BY <1>4, <3>1
    <3> QED
      BY <3>2 DEF Repeats
  <2>4. m <= Matched(s, end, period) /\ Matched(s, end, period) \in Nat
    BY <1>5, <2>2, <2>3, MatchedIs
  <2>5. 0 \in 0..Min({TailSkip, end - 1})
    <3>1. Min({TailSkip, end - 1}) \in Nat
      <4>1. end - 1 \in Nat
        BY <1>4
      <4> QED
        BY <4>1, GuardNumbers, MinOfTwo
    <3> QED
      BY <3>1
  <2>6. end - 0 = end /\ end > period
    BY <1>4, <1>5, <1>6
  <2>7. Matched(s, end - 0, period) >= period * (MinPeriods - 1)
    BY <1>6, <2>1, <2>4, <2>6
  <2>8. <<0, period>> \in Cycles(s, end)
    BY <1>12, <2>5, <2>6, <2>7 DEF Cycles
  <2>9. KeptOf(s) # 0
    BY <1>1, <1>4, <1>10, <2>8, KeptIs
  <2> QED
    BY <2>9 DEF s
<1> QED
  BY <1>11, <1>12


-----------------------------------------------------------------------------
(* Type correctness *)

\* What the variables of the stream say of one another.
StreamLinked ==
    /\ conn # "open" => held = <<>>
    /\ opened = 0 => ~partial

\* What those of the turn do: the text, the trim and the guard's event belong to an
\* answer request, and a turn that dispatches has a call to dispatch.
TurnLinked ==
    /\ pc \in {"dispatch", "calculate"} => todo # <<>>
    /\ guard <=> kept > 0
    /\ pc # "answer" => text = <<>> /\ kept = 0

TypeInv == TypeOK /\ StreamLinked /\ TurnLinked

\* The four kinds of frame.
LEMMA FrameTypes ==
  /\ \A u \in Units : Text(u) \in Frames /\ Text(u).kind = "text" /\ Text(u).unit = u
  /\ \A k \in {"call", "args", "done"} : Fragment(k) \in Frames /\ Fragment(k).kind = k
  /\ \A r \in {"stop", "length"} : Reason(r) \in Frames /\ Reason(r).kind = "finish"
  BY DEF Frames, Text, Fragment, Reason

\* What a frame carries, by its kind.
LEMMA FrameIs ==
  ASSUME NEW f \in Frames
  PROVE  /\ f.kind \in {"text", "call", "args", "done", "finish"}
         /\ f.kind = "text" => f.unit \in Units
         /\ f.kind = "finish" => f.reason \in {"stop", "length"}
  BY DEF Frames

\* A request that starts, or is over, leaves an empty stream.
LEMMA EmptyStream ==
  ASSUME ResetStream, conn' \in {"closed", "asked"}
  PROVE  StreamTypeOK' /\ StreamLinked'
  BY EmptySeq DEF ResetStream, StreamTypeOK, StreamLinked

\* The server keeps the types of the stream.
LEMMA ServerType ==
  ASSUME StreamTypeOK, StreamLinked, ServerSteps
  PROVE  StreamTypeOK' /\ StreamLinked'
<1> USE DEF StreamTypeOK, StreamLinked
<1>1. ASSUME NEW f \in Frames, Sends(f)
      PROVE  /\ wire' \in Seq(Frames) /\ held' = held /\ conn' = conn /\ calls' = calls
             /\ finish' = finish /\ hungup' = hungup /\ broken' = broken
  BY <1>1, AppendProperties DEF Sends
<1>2. CASE ServerText
  <2>1. PICK u \in Units : Sends(Text(u)) /\ said' = Append(said, u)
    BY <1>2 DEF ServerText
  <2>2. said' \in Seq(Units)
    BY <2>1, AppendProperties
  <2> QED
    BY <1>1, <1>2, <2>1, <2>2, FrameTypes DEF ServerText
<1>3. CASE ServerCall
  <2>1. opened + 1 \in Nat /\ opened + 1 # 0
    OBVIOUS
  <2> QED
    BY <1>1, <1>3, <2>1, FrameTypes DEF ServerCall
<1>4. CASE ServerArgs
  BY <1>1, <1>4, FrameTypes DEF ServerArgs
<1>5. CASE ServerFinish
  <2>1. PICK r \in {"stop", "length"} : Sends(Reason(r))
    BY <1>5 DEF ServerFinish
  <2> QED
    BY <1>1, <1>5, <2>1, FrameTypes DEF ServerFinish
<1>6. CASE ServerDone
  BY <1>1, <1>6, FrameTypes DEF ServerDone
<1>7. CASE ServerCloses
  BY <1>7 DEF ServerCloses
<1>8. CASE ServerBreaks
  BY <1>8, EmptySeq DEF ServerBreaks
<1> QED
  BY <1>2, <1>3, <1>4, <1>5, <1>6, <1>7, <1>8 DEF ServerSteps

\* So does the client, frame by frame.
LEMMA ClientType ==
  ASSUME StreamTypeOK, StreamLinked,
         Accepted \/ Fills \/ \E f \in Range(held) : Takes(f) /\ UNCHANGED conn
  PROVE  StreamTypeOK' /\ StreamLinked'
<1> USE DEF StreamTypeOK, StreamLinked
<1>1. CASE Accepted
  BY <1>1, EmptySeq DEF Accepted, server
<1>2. CASE Fills
  BY <1>2, EmptySeq DEF Fills, server
<1>3. ASSUME NEW f \in Range(held), Takes(f), UNCHANGED conn
      PROVE  StreamTypeOK' /\ StreamLinked'
  <2>1. held # <<>> /\ f = Head(held) /\ held' = Tail(held) /\ conn = "open"
    BY <1>3 DEF Takes
  <2>2. f \in Frames /\ held' \in Seq(Frames)
    BY <2>1, HeadTailProperties
  <2>3. calls' \in Seq({"cut", "whole"})
    <3>1. Append(calls, "cut") \in Seq({"cut", "whole"})
      BY AppendProperties
    <3>2. [calls EXCEPT ![Len(calls)] = "whole"] \in Seq({"cut", "whole"})
      <4>1. CASE calls = <<>>
        <5>1. calls = [i \in DOMAIN calls |-> calls[i]] /\ Len(calls) \notin DOMAIN calls
          BY <4>1, LenProperties
        <5>2. [calls EXCEPT ![Len(calls)] = "whole"] = calls
          BY <5>1
        <5> QED
          BY <5>2
      <4>2. CASE calls # <<>>
        <5>1. Len(calls) \in 1..Len(calls)
          BY <4>2, EmptySeq, LenProperties
        <5> QED
          BY <5>1, ExceptSeq
      <4> QED
        BY <4>1, <4>2
    <3> QED
      BY <1>3, <3>1, <3>2 DEF Takes, Assembled
  <2>4. finish' \in {"none", "stop", "length"}
    BY <1>3, <2>2, FrameIs DEF Takes
  <2>5. UNCHANGED <<server, wire>>
    BY <1>3 DEF Takes
  <2> QED
    BY <1>3, <2>1, <2>2, <2>3, <2>4, <2>5 DEF server
<1> QED
  BY <1>1, <1>2, <1>3

\* The calculator's parent and child keep its types.
LEMMA CalcType ==
  ASSUME CalcTypeOK, CalcParent \/ CalcChild \/ Deadline \/ CalcStarts \/ CalcRefuses
  PROVE  CalcTypeOK'
<1> USE DEF CalcTypeOK, Verdicts, ChildStates
<1>1. CASE CalcParent
  <2>1. ASSUME NEW how \in {"startup", "unsent", "result", "time", "memory"}, Finish(how)
        PROVE  CalcTypeOK'
    BY <2>1 DEF Finish
  <2>2. CASE CalcAsks /\ calcPc' = "poll"
    BY <2>2 DEF CalcAsks, Finish
  <2>3. CASE CalcAsks /\ calcPc' # "poll"
    BY <2>1, <2>3 DEF CalcAsks
  <2> QED
    BY <1>1, <2>1, <2>2, <2>3 DEF CalcParent, StartupExpires, CalcReads, CalcOverMemory, CalcOverTime
<1>2. CASE CalcChild
  <2>1. Interpreter \in Nat /\ Library \in Nat /\ \A w \in Works : w \in Nat
    BY CalculatorAssumption
  <2>2. rss + Library \in Nat /\ \A w \in Works : Interpreter + Library + w \in Nat
    BY <2>1
  <2> QED
    BY <1>2, <2>2 DEF CalcChild, ChildReady, ChildImports, ChildComputes, ChildAnswers, ChildDies
<1>3. CASE Deadline
  BY <1>3 DEF Deadline
<1>4. CASE CalcStarts \/ CalcRefuses
  BY <1>4, CalculatorAssumption DEF CalcStarts, CalcRefuses
<1> QED
  BY <1>1, <1>2, <1>3, <1>4


\* The actions of the turn that leave the stream and the calculator alone, or close
\* the connection.
LEMMA TurnOverType ==
  ASSUME TypeInv, NEW how \in {"ok", "cancelled", "error"},
         NEW a \in [shown : Seq(Units), sent : Seq(Units), complete : BOOLEAN,
                    trimmed : BOOLEAN],
         TurnOver(how, a), StreamTypeOK', StreamLinked', CalcTypeOK'
  PROVE  TypeInv'
<1>1. /\ pc' = "over" /\ status' = how /\ answer' = a /\ cancel' = cancel
      /\ guard' = FALSE /\ text' = <<>> /\ kept' = 0 /\ todo' = <<>> /\ spent' = 0
  BY DEF TurnOver
<1>2. text' \in Seq(Units) /\ kept' \in 0..Len(text') /\ todo' \in Seq({"cut", "whole"})
  BY <1>1, EmptySeq
<1>3. TypeOK'
  BY <1>1, <1>2 DEF TypeOK, TypeInv
<1>4. TurnLinked'
  BY <1>1 DEF TurnLinked
<1> QED
  BY <1>3, <1>4 DEF TypeInv

\* The answer of a turn that has none.
LEMMA NoAnswerType ==
  NoAnswer \in [shown : Seq(Units), sent : Seq(Units), complete : BOOLEAN,
                trimmed : BOOLEAN]
  BY EmptySeq DEF NoAnswer

\* The end of a stream.
LEMMA StreamOverType ==
  ASSUME TypeInv, pc \in Streaming, NEW reason, StreamOver(reason)
  PROVE  TypeInv'
<1>0. TypeOK /\ StreamLinked /\ TurnLinked
  BY DEF TypeInv
<1>1. StreamTypeOK' /\ StreamLinked' /\ CalcTypeOK'
  <2>1. ResetStream /\ conn' \in {"closed", "asked"} /\ UNCHANGED calcVars
    BY DEF StreamOver
  <2>2. CalcTypeOK'
    BY <1>0, <2>1 DEF calcVars, CalcTypeOK, TypeOK
  <2> QED
    BY <2>1, <2>2, EmptyStream
<1>2. CASE pc # "answer"
  <2>1. pc' = "loop" /\ UNCHANGED <<cancel, guard, text, kept, todo, spent, answer, status>>
    BY <1>2 DEF StreamOver
  <2>2. TypeOK'
    BY <1>0, <1>1, <2>1 DEF TypeOK
  <2>3. TurnLinked'
    BY <1>0, <1>2, <2>1 DEF TurnLinked
  <2> QED
    BY <1>1, <2>2, <2>3 DEF TypeInv
<1>3. CASE pc = "answer"
  <2> DEFINE shown == IF kept > 0 THEN SubSeq(text, 1, kept) ELSE text
             a == [shown |-> shown, sent |-> said, trimmed |-> kept > 0,
                   complete |-> phase = "done" /\ ~broken /\ ~cancel]
  <2>1. AnswerEnds(reason)
    BY <1>3 DEF StreamOver
  <2>2. CASE reason = "cancelled" /\ cancel
    <3>1. TurnOver("cancelled", NoAnswer)
      BY <2>1, <2>2 DEF AnswerEnds
    <3> QED
      BY <1>1, <3>1, NoAnswerType, TurnOverType
  <2>3. CASE ~(reason = "cancelled" /\ cancel) /\ calls = <<>>
    <3>1. TurnOver("ok", a)
      BY <2>1, <2>3, Zenon DEF AnswerEnds
    <3>2. shown \in Seq(Units)
      <4>1. text \in Seq(Units) /\ kept \in 0..Len(text) /\ Len(text) \in Nat
        BY <1>0, LenProperties DEF TypeOK
      <4>2. SubSeq(text, 1, kept) \in Seq(Units)
        BY <4>1, ElementOfSeq, SubSeqProperties
      <4> QED
        BY <4>1, <4>2
    <3>3. (kept > 0) \in BOOLEAN /\ (phase = "done" /\ ~broken /\ ~cancel) \in BOOLEAN
      OBVIOUS
    <3>4. said \in Seq(Units)
      BY <1>0 DEF TypeOK, StreamTypeOK
    <3> HIDE DEF shown
    <3>5. a \in [shown : Seq(Units), sent : Seq(Units), complete : BOOLEAN,
                 trimmed : BOOLEAN]
      BY <3>2, <3>3, <3>4
    <3> HIDE DEF a
    <3> QED
      BY <1>1, <3>1, <3>5, TurnOverType
  <2>4. CASE ~(reason = "cancelled" /\ cancel) /\ calls # <<>>
    <3>1. /\ pc' = "dispatch" /\ todo' = calls
          /\ guard' = FALSE /\ text' = <<>> /\ kept' = 0
          /\ UNCHANGED <<cancel, spent, answer, status>>
      BY <2>1, <2>4 DEF AnswerEnds
    <3>2. text' \in Seq(Units) /\ kept' \in 0..Len(text') /\ todo' \in Seq({"cut", "whole"})
      BY <1>0, <3>1, EmptySeq DEF TypeOK, StreamTypeOK
    <3>3. TypeOK'
      BY <1>0, <1>1, <3>1, <3>2 DEF TypeOK
    <3>4. TurnLinked'
      BY <2>4, <3>1 DEF TurnLinked
    <3> QED
      BY <1>1, <3>3, <3>4 DEF TypeInv
  <2> QED
    BY <2>2, <2>3, <2>4
<1> QED
  BY <1>2, <1>3

\* A unit of text taken by the answer.
LEMMA TextTaken ==
  ASSUME TypeInv, TextEvent, pc = "answer"
  PROVE  \E u \in Units : /\ held[1] = Text(u) /\ text' = Append(text, u)
                          /\ text' \in Texts /\ text' # <<>> /\ Len(text') = Len(text) + 1
                          /\ kept' = KeptOf(text') /\ kept' \in 0..Len(text)
                          /\ guard' = (kept' > 0) /\ kept = 0 /\ text \in Texts
<1>0. TypeOK /\ StreamLinked /\ TurnLinked
  BY DEF TypeInv
<1>1. PICK f \in Range(held) :
          /\ f.kind = "text" /\ Takes(f)
          /\ text' = Append(text, f.unit) /\ kept' = KeptOf(text') /\ guard' = (kept' > 0)
  BY DEF TextEvent
<1>2. held \in Seq(Frames) /\ held # <<>> /\ f = Head(held)
  BY <1>0, <1>1 DEF Takes, TypeOK, StreamTypeOK
<1>3. f \in Frames /\ f = held[1]
  BY <1>2, HeadTailProperties
<1>4. f.unit \in Units /\ f = Text(f.unit)
  BY <1>1, <1>3, FrameIs DEF Frames, Text
<1>5. text \in Texts /\ Len(text) \in Nat
  BY <1>0, LenProperties DEF TypeOK, Texts
<1>6. text' \in Texts /\ text' # <<>> /\ Len(text') = Len(text) + 1
  BY <1>1, <1>4, <1>5, AppendProperties DEF Texts
<1>7. kept' \in 0..Len(text)
  <2>1. KeptOf(text') \in 0..(Len(text') - 1)
    BY <1>6, KeptIs
  <2> QED
    BY <1>1, <1>5, <1>6, <2>1
<1>8. kept = 0
  <2>1. ~guard /\ kept \in Nat
    BY <1>0 DEF TextEvent, StreamCancelled, TypeOK
  <2> QED
    BY <1>0, <2>1 DEF TurnLinked
<1> QED
  BY <1>1, <1>3, <1>4, <1>5, <1>6, <1>7, <1>8


\* The steps of a stream that is open.
LEMMA StreamStepType ==
  ASSUME TypeInv, TextEvent \/ FrameTaken \/ BufferFilled \/ RequestAccepted
  PROVE  TypeInv'
<1>0. TypeOK /\ StreamLinked /\ TurnLinked
  BY DEF TypeInv
<1>1. UNCHANGED calcVars /\ CalcTypeOK'
  <2>1. UNCHANGED calcVars
    BY DEF TextEvent, FrameTaken, BufferFilled, RequestAccepted, calcVars
  <2> QED
    BY <1>0, <2>1 DEF calcVars, CalcTypeOK, TypeOK
<1>2. StreamTypeOK' /\ StreamLinked'
  <2>1. Accepted \/ Fills \/ \E f \in Range(held) : Takes(f) /\ UNCHANGED conn
    BY DEF TextEvent, FrameTaken, BufferFilled, RequestAccepted
  <2> QED
    BY <1>0, <2>1, ClientType DEF TypeOK
<1>3. UNCHANGED <<pc, cancel, todo, spent, answer, status>>
  BY DEF TextEvent, FrameTaken, BufferFilled, RequestAccepted, turnVars
<1>4. CASE TextEvent /\ pc = "answer"
  <2>1. /\ text' \in Texts /\ Len(text') = Len(text) + 1 /\ kept' \in 0..Len(text)
        /\ guard' = (kept' > 0)
    BY <1>4, TextTaken
  <2>2. Len(text) \in Nat
    BY <1>0, LenProperties DEF TypeOK
  <2>3. kept' \in 0..Len(text') /\ guard' \in BOOLEAN /\ (guard' <=> kept' > 0)
    <3>1. kept' \in 0..Len(text')
      BY <2>1, <2>2
    <3> DEFINE trims == kept' > 0
    <3>a. trims \in BOOLEAN
      BY <3>1
    <3>b. guard' = trims
      BY <2>1
    <3> HIDE DEF trims
    <3>c. guard' \in BOOLEAN /\ (guard' <=> trims)
      BY <3>a, <3>b
    <3>2. guard' \in BOOLEAN /\ (guard' <=> kept' > 0)
      BY <3>c DEF trims
    <3> QED
      BY <3>1, <3>2
  <2>4. TypeOK'
    BY <1>0, <1>1, <1>2, <1>3, <2>1, <2>3 DEF TypeOK, Texts
  <2>5. TurnLinked'
    BY <1>3, <1>4, <2>3 DEF TurnLinked
  <2> QED
    BY <1>2, <2>4, <2>5 DEF TypeInv
<1>5. CASE ~(TextEvent /\ pc = "answer")
  <2>1. UNCHANGED <<text, kept, guard>>
    BY <1>5 DEF TextEvent, FrameTaken, BufferFilled, RequestAccepted, turnVars
  <2>2. TypeOK'
    BY <1>0, <1>1, <1>2, <1>3, <2>1 DEF TypeOK
  <2>3. TurnLinked'
    BY <1>0, <1>3, <2>1 DEF TurnLinked
  <2> QED
    BY <1>2, <2>2, <2>3 DEF TypeInv
<1> QED
  BY <1>4, <1>5

\* The requests of a turn, and Stop.
LEMMA RequestType ==
  ASSUME TypeInv, StartTurn \/ AnswerRequest \/ ForcedRequest \/ Stop
  PROVE  TypeInv'
<1>0. TypeOK /\ StreamLinked /\ TurnLinked
  BY DEF TypeInv
<1>1. UNCHANGED calcVars /\ CalcTypeOK'
  <2>1. UNCHANGED calcVars
    BY DEF StartTurn, AnswerRequest, ForcedRequest, Stop, calcVars
  <2> QED
    BY <1>0, <2>1 DEF calcVars, CalcTypeOK, TypeOK
<1>2. StreamTypeOK' /\ StreamLinked'
  <2>1. CASE Asks
    <3>1. ResetStream /\ conn' \in {"closed", "asked"}
      BY <2>1 DEF Asks
    <3> QED
      BY <3>1, EmptyStream
  <2>2. CASE UNCHANGED streamVars
    BY <1>0, <2>2 DEF streamVars, server, StreamTypeOK, StreamLinked, TypeOK
  <2> QED
    BY <2>1, <2>2 DEF StartTurn, AnswerRequest, ForcedRequest, Stop
<1>3. UNCHANGED <<guard, text, kept, todo>> /\ (pc' = pc \/ pc \in {"over", "loop"})
      /\ pc' \in Streaming \cup {"over", "loop", "dispatch", "calculate"}
      /\ (pc' = pc \/ pc' \in Streaming \cup {"loop"})
  BY <1>0 DEF StartTurn, AnswerRequest, ForcedRequest, Stop, turnVars, TypeOK, Streaming
<1>4. /\ cancel' \in BOOLEAN /\ spent' \in Nat /\ status' \in {"none", "ok", "cancelled", "error"}
      /\ answer' \in [shown : Seq(Units), sent : Seq(Units), complete : BOOLEAN,
                      trimmed : BOOLEAN]
  <2>1. CASE StartTurn
    <3>1. cancel' = FALSE /\ spent' = 0 /\ answer' = NoAnswer /\ status' = "none"
      BY <2>1 DEF StartTurn
    <3> QED
      BY <3>1, NoAnswerType
  <2>2. CASE AnswerRequest \/ ForcedRequest \/ Stop
    <3>1. (cancel' = cancel \/ cancel' = TRUE) /\ UNCHANGED <<spent, answer, status>>
      BY <2>2 DEF AnswerRequest, ForcedRequest, Stop, turnVars
    <3> QED
      BY <1>0, <3>1 DEF TypeOK
  <2> QED
    BY <2>1, <2>2
<1>5. TypeOK'
  BY <1>0, <1>1, <1>2, <1>3, <1>4 DEF TypeOK
<1>6. TurnLinked'
  BY <1>0, <1>3 DEF TurnLinked, Streaming
<1> QED
  BY <1>2, <1>5, <1>6 DEF TypeInv

\* The end of a tool call.
LEMMA EndCallType ==
  ASSUME TypeInv, pc \in {"dispatch", "calculate"}, EndCall, spent' \in Nat, CalcTypeOK'
  PROVE  TypeInv'
<1>0. TypeOK /\ StreamLinked /\ TurnLinked
  BY DEF TypeInv
<1>1. todo \in Seq({"cut", "whole"}) /\ todo # <<>>
  BY <1>0 DEF TypeOK, TurnLinked
<1>2. todo' \in Seq({"cut", "whole"})
  BY <1>1, HeadTailProperties DEF EndCall
<1>3. /\ pc' = IF todo' = <<>> THEN "loop" ELSE "dispatch"
      /\ UNCHANGED <<cancel, guard, text, kept, answer, status, streamVars>>
  BY DEF EndCall
<1>4. StreamTypeOK' /\ StreamLinked'
  BY <1>0, <1>3 DEF streamVars, server, StreamTypeOK, StreamLinked, TypeOK
<1>5. TypeOK'
  BY <1>0, <1>2, <1>3, <1>4 DEF TypeOK
<1>6. TurnLinked'
  BY <1>0, <1>3 DEF TurnLinked
<1> QED
  BY <1>4, <1>5, <1>6 DEF TypeInv

\* The steps of the dispatch and of the calculator.
LEMMA DispatchType ==
  ASSUME TypeInv, \/ DispatchOther \/ DispatchCalc \/ Calculating \/ CalcReturns
                  \/ ClockStep \/ ChildStep
  PROVE  TypeInv'
<1>0. TypeOK /\ StreamLinked /\ TurnLinked
  BY DEF TypeInv
<1>1. ASSUME CalcTypeOK', UNCHANGED <<todo, spent, cancel, guard, text, kept, answer, status, streamVars>>,
             pc' = pc \/ (pc = "dispatch" /\ pc' = "calculate")
      PROVE  TypeInv'
  <2>1. StreamTypeOK' /\ StreamLinked'
    BY <1>0, <1>1 DEF streamVars, server, StreamTypeOK, StreamLinked, TypeOK
  <2>2. TypeOK'
    BY <1>0, <1>1, <2>1 DEF TypeOK
  <2>3. TurnLinked'
    BY <1>0, <1>1 DEF TurnLinked
  <2> QED
    BY <2>1, <2>2, <2>3 DEF TypeInv
<1>2. spent \in Nat /\ spent + 1 \in Nat /\ CalcTypeOK
  BY <1>0 DEF TypeOK
<1>3. CASE DispatchOther
  <2>1. EndCall /\ spent' = spent /\ UNCHANGED calcVars /\ pc = "dispatch"
    BY <1>3 DEF DispatchOther
  <2>2. CalcTypeOK'
    BY <1>2, <2>1 DEF calcVars, CalcTypeOK
  <2> QED
    BY <1>2, <2>1, <2>2, EndCallType
<1>4. CASE DispatchCalc
  <2>1. CASE CalcStarts /\ pc' = "calculate"
    <3>1. CalcTypeOK'
      BY <1>2, <2>1, CalcType
    <3> QED
      BY <1>1, <1>4, <2>1, <3>1 DEF DispatchCalc, CalcStarts, CalcRefuses
  <2>2. CASE CalcRefuses /\ spent' = spent + 1 /\ EndCall
    <3>1. CalcTypeOK'
      BY <1>2, <2>2, CalcType
    <3> QED
      BY <1>2, <1>4, <2>2, <3>1, EndCallType DEF DispatchCalc
  <2> QED
    BY <1>4, <2>1, <2>2 DEF DispatchCalc
<1>5. CASE Calculating
  <2>1. CalcTypeOK'
    BY <1>2, <1>5, CalcType DEF Calculating
  <2> QED
    BY <1>1, <1>5, <2>1 DEF Calculating, turnVars
<1>6. CASE CalcReturns
  <2>1. CalcTypeOK'
    BY <1>2, <1>6 DEF CalcReturns, calcVars, CalcTypeOK
  <2> QED
    BY <1>2, <1>6, <2>1, EndCallType DEF CalcReturns
<1>7. CASE ClockStep \/ ChildStep
  <2>1. CalcTypeOK'
    BY <1>2, <1>7, CalcType DEF ClockStep, ChildStep
  <2> QED
    BY <1>1, <1>7, <2>1 DEF ClockStep, ChildStep, turnVars
<1> QED
  BY <1>3, <1>4, <1>5, <1>6, <1>7

\* Every step.
LEMMA TypeStep == TypeInv /\ [Next]_vars => TypeInv'
<1> SUFFICES ASSUME TypeInv, [Next]_vars PROVE TypeInv'
  OBVIOUS
<1>0. TypeOK /\ StreamLinked /\ TurnLinked
  BY DEF TypeInv
<1>a. UNCHANGED calcVars => CalcTypeOK'
  BY <1>0 DEF calcVars, CalcTypeOK, TypeOK
<1>b. UNCHANGED streamVars => StreamTypeOK' /\ StreamLinked'
  BY <1>0 DEF streamVars, server, StreamTypeOK, StreamLinked, TypeOK
<1>c. ResetStream /\ conn' = "closed" => StreamTypeOK' /\ StreamLinked'
  BY EmptyStream
<1>1. CASE StartTurn \/ AnswerRequest \/ ForcedRequest \/ Stop
  BY <1>1, RequestType
<1>2. CASE TextEvent \/ FrameTaken \/ BufferFilled \/ RequestAccepted
  BY <1>2, StreamStepType
<1>3. CASE DispatchOther \/ DispatchCalc \/ Calculating \/ CalcReturns \/ ClockStep \/ ChildStep
  BY <1>3, DispatchType
<1>4. CASE LoopCancelled \/ DispatchCancelled
  <2>1. TurnOver("cancelled", NoAnswer) /\ UNCHANGED streamVars /\ UNCHANGED calcVars
    BY <1>4 DEF LoopCancelled, DispatchCancelled
  <2> QED
    BY <1>a, <1>b, <2>1, NoAnswerType, TurnOverType
<1>5. CASE RequestRefused
  <2>1. StreamTypeOK' /\ StreamLinked' /\ CalcTypeOK'
    BY <1>5, <1>a, <1>c DEF RequestRefused, Refused
  <2>2. CASE pc = "answer"
    BY <1>5, <2>1, <2>2, NoAnswerType, TurnOverType DEF RequestRefused
  <2>3. CASE pc # "answer"
    <3>1. pc' \in {"fallback", "loop"} /\ UNCHANGED <<cancel, guard, text, kept, todo, spent, answer, status>>
      BY <1>5, <2>3 DEF RequestRefused
    <3>2. TypeOK'
      BY <1>0, <2>1, <3>1 DEF TypeOK, Streaming
    <3>3. TurnLinked'
      BY <1>0, <2>3, <3>1 DEF TurnLinked
    <3> QED
      BY <2>1, <3>2, <3>3 DEF TypeInv
  <2> QED
    BY <2>2, <2>3
<1>6. CASE StreamStopped \/ StreamDone \/ StreamCut
  <2>1. pc \in Streaming /\ \E reason : StreamOver(reason)
    BY <1>6 DEF StreamStopped, StreamDone, StreamCut
  <2> QED
    BY <2>1, StreamOverType
<1>7. CASE StreamRaises
  <2>1. StreamTypeOK' /\ StreamLinked' /\ CalcTypeOK' /\ TurnOver("error", NoAnswer)
    BY <1>7, <1>a, <1>c DEF StreamRaises
  <2> QED
    BY <2>1, NoAnswerType, TurnOverType
<1>8. CASE ServerStep
  <2>1. StreamTypeOK' /\ StreamLinked' /\ UNCHANGED turnVars /\ CalcTypeOK'
    BY <1>0, <1>8, <1>a, ServerType DEF ServerStep, TypeOK
  <2>2. TypeOK' /\ TurnLinked'
    BY <1>0, <2>1 DEF turnVars, TypeOK, TurnLinked
  <2> QED
    BY <2>1, <2>2 DEF TypeInv
<1>9. CASE UNCHANGED vars
  <2>1. UNCHANGED turnVars /\ UNCHANGED streamVars /\ UNCHANGED calcVars
    BY <1>9 DEF vars
  <2>2. TypeOK' /\ TurnLinked'
    BY <1>0, <1>a, <1>b, <2>1 DEF turnVars, TypeOK, TurnLinked
  <2> QED
    BY <1>b, <2>1, <2>2 DEF TypeInv
<1> QED
  BY <1>1, <1>2, <1>3, <1>4, <1>5, <1>6, <1>7, <1>8, <1>9 DEF Next, TurnStep

\* The first state.
LEMMA InitType == Init => TypeInv
<1> SUFFICES ASSUME Init PROVE TypeInv
  OBVIOUS
<1>1. StreamTypeOK /\ StreamLinked
  BY EmptySeq DEF Init, NoStream, StreamTypeOK, StreamLinked
<1>2. CalcTypeOK
  BY DEF Init, CalcInit, CalcTypeOK, ChildStates, Verdicts
<1>3. text \in Seq(Units) /\ kept \in 0..Len(text) /\ todo \in Seq({"cut", "whole"})
  BY EmptySeq DEF Init
<1>4. TypeOK
  BY <1>1, <1>2, <1>3, NoAnswerType DEF Init, TypeOK
<1> QED
  BY <1>1, <1>4 DEF Init, TypeInv, TurnLinked

\* A turn's variables keep their types whatever the server, the child, the clock and
\* the student do.
THEOREM TypeCorrect == Spec => []TypeOK
<1>1. Spec => []TypeInv
  BY InitType, TypeStep, PTL DEF Spec
<1>2. TypeInv => TypeOK
  BY DEF TypeInv
<1> QED
  BY <1>1, <1>2, PTL

-----------------------------------------------------------------------------
(* No child outlives its evaluation *)

\* Every way out of evaluate kills the child, and only evaluate starts one.
THEOREM NoOrphanHolds == Spec => []NoOrphan
<1>1. Init => NoOrphan
  BY DEF Init, CalcInit, NoOrphan, Alive
<1>2. NoOrphan /\ [Next]_vars => NoOrphan'
  <2> SUFFICES ASSUME NoOrphan, [Next]_vars PROVE NoOrphan'
    OBVIOUS
  <2>1. CASE UNCHANGED <<calcPc, child>>
    BY <2>1 DEF NoOrphan
  <2>2. ASSUME NEW how, Finish(how) PROVE NoOrphan'
    BY <2>2 DEF Finish, NoOrphan, Alive
  <2>3. CASE CalcParent
    <3>1. CASE CalcAsks /\ calcPc' = "poll"
      BY <3>1 DEF NoOrphan
    <3>2. CASE ~(CalcAsks /\ calcPc' = "poll")
      BY <2>2, <2>3, <3>2 DEF CalcParent, StartupExpires, CalcAsks, CalcReads,
                              CalcOverMemory, CalcOverTime
    <3> QED
      BY <3>1, <3>2
  <2>4. CASE CalcChild
    BY <2>4 DEF CalcChild, ChildReady, ChildImports, ChildComputes, ChildAnswers,
                ChildDies, NoOrphan, Alive
  <2>5. CASE CalcStarts
    BY <2>5 DEF CalcStarts, NoOrphan
  <2> QED
    BY <2>1, <2>3, <2>4, <2>5
    DEF Next, TurnStep, vars, calcVars, StartTurn, LoopCancelled, AnswerRequest, ForcedRequest,
        RequestRefused, RequestAccepted, TextEvent, FrameTaken, BufferFilled, StreamStopped,
        StreamDone, StreamCut, StreamRaises, StreamOver, DispatchCancelled, DispatchOther,
        DispatchCalc, CalcRefuses, Calculating, CalcReturns, Stop, ServerStep, ClockStep,
        Deadline, ChildStep
<1> QED
  BY <1>1, <1>2, PTL DEF Spec


-----------------------------------------------------------------------------
(* No answer has a loop *)

\* While the guard has not fired the text has no loop, and what is kept once it has
\* fired has none either.
GuardInv ==
    /\ kept = 0 => ~LoopsIn(text)
    /\ kept > 0 => ~LoopsIn(SubSeq(text, 1, kept))
    /\ ~LoopsIn(answer.shown)

\* An empty text has no loop.
LEMMA NothingLoops == ~LoopsIn(<<>>)
<1>1. DOMAIN <<>> = {}
  OBVIOUS
<1> QED
  BY <1>1 DEF LoopsIn

\* The text that the guard has just looked at.
LEMMA GuardedText ==
  ASSUME NEW t \in Texts, NEW u \in Units, ~LoopsIn(t), NEW k \in 0..Len(t),
         k = KeptOf(Append(t, u))
  PROVE  /\ k = 0 => ~LoopsIn(Append(t, u))
         /\ k > 0 => ~LoopsIn(SubSeq(Append(t, u), 1, k))
<1>1. k = 0 => ~LoopsIn(Append(t, u))
  BY LoopCaught
<1>2. ~LoopsIn(SubSeq(Append(t, u), 1, k))
  <2>1. Len(t) \in Nat /\ \A i \in 1..Len(t) : Append(t, u)[i] = t[i]
    BY AppendProperties, LenProperties DEF Texts
  <2>2. \A i \in 1..k : Append(t, u)[i] = t[i]
    BY <2>1
  <2>3. SubSeq(Append(t, u), 1, k) = SubSeq(t, 1, k)
    <3>1. SubSeq(Append(t, u), 1, k) = [i \in 1..k |-> Append(t, u)[i]]
      BY <2>1 DEF SubSeq
    <3>2. SubSeq(t, 1, k) = [i \in 1..k |-> t[i]]
      BY <2>1 DEF SubSeq
    <3> QED
      BY <2>2, <3>1, <3>2
  <2> QED
    BY <2>3, PrefixLoops
<1> QED
  BY <1>1, <1>2

\* What ends a turn.
LEMMA TurnOverLoops ==
  ASSUME NEW how, NEW a, TurnOver(how, a), ~LoopsIn(a.shown)
  PROVE  GuardInv'
<1>1. text' = <<>> /\ kept' = 0 /\ answer' = a
  BY DEF TurnOver
<1>2. ~(0 > 0)
  OBVIOUS
<1> QED
  BY <1>1, <1>2, NothingLoops DEF GuardInv

\* The answer of a turn that has none has no loop.
LEMMA NoAnswerLoops == ~LoopsIn(NoAnswer.shown)
<1>1. NoAnswer.shown = <<>>
  BY DEF NoAnswer
<1> QED
  BY <1>1, NothingLoops

\* The end of a stream.
LEMMA StreamOverLoops ==
  ASSUME TypeInv, GuardInv, pc \in Streaming, NEW reason, StreamOver(reason)
  PROVE  GuardInv'
<1>1. CASE pc # "answer"
  <2>1. UNCHANGED <<text, kept, answer>>
    BY <1>1 DEF StreamOver
  <2> QED
    BY <2>1 DEF GuardInv
<1>2. CASE pc = "answer"
  <2> DEFINE shown == IF kept > 0 THEN SubSeq(text, 1, kept) ELSE text
             a == [shown |-> shown, sent |-> said, trimmed |-> kept > 0,
                   complete |-> phase = "done" /\ ~broken /\ ~cancel]
  <2>1. AnswerEnds(reason)
    BY <1>2 DEF StreamOver
  <2>2. CASE TurnOver("cancelled", NoAnswer)
    BY <2>2, NoAnswerLoops, TurnOverLoops
  <2>3. CASE TurnOver("ok", a)
    <3>1. ~LoopsIn(shown)
      <4>1. kept \in 0..Len(text) /\ Len(text) \in Nat
        BY LenProperties DEF TypeInv, TypeOK
      <4>2. kept = 0 \/ kept > 0
        BY <4>1
      <4> QED
        BY <4>2 DEF GuardInv
    <3>2. a.shown = shown
      OBVIOUS
    <3> HIDE DEF a, shown
    <3> QED
      BY <2>3, <3>1, <3>2, TurnOverLoops
  <2>4. CASE text' = <<>> /\ kept' = 0 /\ answer' = answer
    BY <2>4, NothingLoops DEF GuardInv
  <2> QED
    BY <2>1, <2>2, <2>3, <2>4, Zenon DEF AnswerEnds
<1> QED
  BY <1>1, <1>2

\* Every step keeps the loops out.
LEMMA GuardStep == TypeInv /\ GuardInv /\ [Next]_vars => GuardInv'
<1> SUFFICES ASSUME TypeInv, GuardInv, [Next]_vars PROVE GuardInv'
  OBVIOUS
<1>1. CASE UNCHANGED <<text, kept, answer>>
  BY <1>1 DEF GuardInv
<1>2. CASE StartTurn
  <2>1. UNCHANGED <<text, kept>> /\ answer' = NoAnswer
    BY <1>2 DEF StartTurn
  <2> QED
    BY <2>1, NoAnswerLoops DEF GuardInv
<1>3. ASSUME NEW how, TurnOver(how, NoAnswer) PROVE GuardInv'
  BY <1>3, NoAnswerLoops, TurnOverLoops
<1>4. CASE TextEvent
  <2>1. CASE pc = "answer"
    <3>1. PICK u \in Units : /\ text' = Append(text, u) /\ kept' = KeptOf(text')
                             /\ kept' \in 0..Len(text) /\ kept = 0 /\ text \in Texts
      BY <1>4, <2>1, TextTaken
    <3>2. ~LoopsIn(text) /\ kept' = KeptOf(Append(text, u)) /\ answer' = answer
      BY <1>4, <3>1 DEF GuardInv, TextEvent
    <3>3. /\ kept' = 0 => ~LoopsIn(Append(text, u))
          /\ kept' > 0 => ~LoopsIn(SubSeq(Append(text, u), 1, kept'))
      BY <3>1, <3>2, GuardedText
    <3> QED
      BY <3>1, <3>2, <3>3 DEF GuardInv
  <2>2. CASE pc # "answer"
    BY <1>1, <1>4, <2>2 DEF TextEvent
  <2> QED
    BY <2>1, <2>2
<1>5. CASE StreamStopped \/ StreamDone \/ StreamCut
  <2>1. pc \in Streaming /\ \E reason : StreamOver(reason)
    BY <1>5 DEF StreamStopped, StreamDone, StreamCut
  <2> QED
    BY <2>1, StreamOverLoops
<1>6. CASE RequestRefused
  BY <1>1, <1>3, <1>6 DEF RequestRefused
<1>7. CASE LoopCancelled \/ DispatchCancelled \/ StreamRaises
  BY <1>3, <1>7 DEF LoopCancelled, DispatchCancelled, StreamRaises
<1>8. CASE DispatchOther \/ DispatchCalc \/ CalcReturns
  BY <1>1, <1>8 DEF DispatchOther, DispatchCalc, CalcReturns, EndCall
<1>9. CASE AnswerRequest \/ ForcedRequest \/ RequestAccepted \/ FrameTaken \/ BufferFilled
           \/ Calculating \/ Stop \/ ServerStep \/ ClockStep \/ ChildStep
  BY <1>1, <1>9 DEF AnswerRequest, ForcedRequest, RequestAccepted, FrameTaken, BufferFilled,
     Calculating, Stop, ServerStep, ClockStep, ChildStep, turnVars
<1>10. CASE UNCHANGED vars
  BY <1>1, <1>10 DEF vars, turnVars
<1> QED
  BY <1>2, <1>4, <1>5, <1>6, <1>7, <1>8, <1>9, <1>10 DEF Next, TurnStep

\* Whatever the units a server sends, the answer that a turn ends with has no unit said
\* MinRepeats times in a row and no cycle of MinPeriods rounds.
THEOREM LoopFreeHolds == Spec => []LoopFree
<1>1. Init => GuardInv
  <2> SUFFICES ASSUME Init PROVE GuardInv
    OBVIOUS
  <2>1. text = <<>> /\ kept = 0 /\ answer = NoAnswer /\ ~(0 > 0)
    BY DEF Init
  <2> QED
    BY <2>1, NothingLoops, NoAnswerLoops DEF GuardInv
<1>2. Spec => []TypeInv
  BY InitType, TypeStep, PTL DEF Spec
<1>3. GuardInv => LoopFree
  BY DEF GuardInv, LoopFree
<1> QED
  BY <1>1, <1>2, <1>3, GuardStep, PTL DEF Spec


-----------------------------------------------------------------------------
(* A completed answer is shown whole *)

\* What is on its way to the client is what the server has said and the client does not
\* have yet, in order, before any frame of another kind.
Flows(q, t, s) ==
    /\ Len(t) <= Len(s) /\ Len(s) - Len(t) <= Len(q)
    /\ \A i \in 1..Len(t) : t[i] = s[i]
    /\ \A j \in 1..Len(q) : IF j <= Len(s) - Len(t) THEN q[j] = Text(s[Len(t) + j])
                                                    ELSE q[j].kind # "text"

\* So it is in an answer's stream that has not broken; and as long as the server may say
\* more, nothing else is on its way.
FlowInv ==
    pc = "answer" /\ ~broken =>
        /\ Flows(held \o wire, text, said)
        /\ opened = 0 /\ phase = "reply" => Len(held \o wire) = Len(said) - Len(text)

Queues == Seq(Frames)

\* The lengths of a stream.
LEMMA FlowLengths ==
  ASSUME NEW q \in Queues, NEW t \in Texts, NEW s \in Texts
  PROVE  /\ Len(q) \in Nat /\ Len(t) \in Nat /\ Len(s) \in Nat
         /\ DOMAIN q = 1..Len(q) /\ DOMAIN t = 1..Len(t) /\ DOMAIN s = 1..Len(s)
  BY LenProperties DEF Queues, Texts

\* The server says one unit more.
LEMMA FlowsSaid ==
  ASSUME NEW q \in Queues, NEW t \in Texts, NEW s \in Texts, NEW u \in Units,
         Flows(q, t, s), Len(q) = Len(s) - Len(t)
  PROVE  /\ Flows(Append(q, Text(u)), t, Append(s, u))
         /\ Len(Append(q, Text(u))) = Len(Append(s, u)) - Len(t)
<1> DEFINE r == Append(q, Text(u)) z == Append(s, u)
<1>1. /\ Len(q) \in Nat /\ Len(t) \in Nat /\ Len(s) \in Nat
  BY FlowLengths
<1>2. /\ Len(r) = Len(q) + 1 /\ r[Len(q) + 1] = Text(u)
      /\ \A j \in 1..Len(q) : r[j] = q[j]
  BY FrameTypes, AppendProperties DEF Queues
<1>3. /\ Len(z) = Len(s) + 1 /\ z[Len(s) + 1] = u
      /\ \A j \in 1..Len(s) : z[j] = s[j]
  BY AppendProperties DEF Texts
<1> HIDE DEF r, z
<1>4. Len(t) <= Len(z) /\ Len(z) - Len(t) <= Len(r) /\ Len(r) = Len(z) - Len(t)
  BY <1>1, <1>2, <1>3 DEF Flows
<1>5. ASSUME NEW i \in 1..Len(t) PROVE t[i] = z[i]
  <2>1. i \in 1..Len(s) /\ t[i] = s[i]
    BY <1>1 DEF Flows
  <2> QED
    BY <1>3, <2>1
<1>6. ASSUME NEW j \in 1..Len(r)
      PROVE  j <= Len(z) - Len(t) /\ r[j] = Text(z[Len(t) + j])
  <2>1. j <= Len(z) - Len(t)
    BY <1>1, <1>4
  <2>2. CASE j = Len(q) + 1
    <3>1. Len(t) + j = Len(s) + 1
      BY <1>1, <2>2
    <3> QED
      BY <1>2, <1>3, <2>1, <2>2, <3>1
  <2>3. CASE j # Len(q) + 1
    <3>1. j \in 1..Len(q) /\ Len(t) + j \in 1..Len(s) /\ j <= Len(s) - Len(t)
      <4>1. j \in 1..(Len(q) + 1)
        BY <1>2
      <4>2. j \in 1..Len(q)
        BY <1>1, <2>3, <4>1
      <4> QED
        BY <1>1, <4>2
    <3>2. q[j] = Text(s[Len(t) + j])
      BY <3>1 DEF Flows
    <3> QED
      BY <1>2, <1>3, <2>1, <3>1, <3>2
  <2> QED
    BY <2>2, <2>3
<1>7. Flows(r, t, z)
  BY <1>4, <1>5, <1>6 DEF Flows
<1> QED
  BY <1>4, <1>7 DEF r, z

\* It sends a frame of another kind.
LEMMA FlowsSent ==
  ASSUME NEW q \in Queues, NEW t \in Texts, NEW s \in Texts, NEW f \in Frames,
         Flows(q, t, s), f.kind # "text"
  PROVE  Flows(Append(q, f), t, s)
<1> DEFINE r == Append(q, f)
<1>1. /\ Len(q) \in Nat /\ Len(t) \in Nat /\ Len(s) \in Nat
  BY FlowLengths
<1>2. /\ Len(r) = Len(q) + 1 /\ r[Len(q) + 1] = f
      /\ \A j \in 1..Len(q) : r[j] = q[j]
  BY AppendProperties DEF Queues
<1> HIDE DEF r
<1>3. Len(t) <= Len(s) /\ Len(s) - Len(t) <= Len(q) /\ Len(s) - Len(t) <= Len(r)
  BY <1>1, <1>2 DEF Flows
<1>4. ASSUME NEW j \in 1..Len(r)
      PROVE  IF j <= Len(s) - Len(t) THEN r[j] = Text(s[Len(t) + j]) ELSE r[j].kind # "text"
  <2>1. CASE j = Len(q) + 1
    <3>1. ~(j <= Len(s) - Len(t))
      BY <1>1, <1>3, <2>1
    <3> QED
      BY <1>2, <2>1, <3>1
  <2>2. CASE j # Len(q) + 1
    <3>1. j \in 1..Len(q)
      BY <1>1, <1>2, <2>2
    <3>2. r[j] = q[j]
      BY <1>2, <3>1
    <3> QED
      BY <3>1, <3>2 DEF Flows
  <2> QED
    BY <2>1, <2>2
<1>5. \A i \in 1..Len(t) : t[i] = s[i]
  BY DEF Flows
<1>6. Flows(r, t, s)
  BY <1>3, <1>4, <1>5 DEF Flows
<1> QED
  BY <1>6 DEF r

\* The client takes a unit: it is the next one said.
LEMMA FlowsTaken ==
  ASSUME NEW q \in Queues, NEW t \in Texts, NEW s \in Texts, NEW u \in Units,
         Flows(q, t, s), q # <<>>, q[1] = Text(u)
  PROVE  /\ Flows(Tail(q), Append(t, u), s)
         /\ Len(Tail(q)) = Len(q) - 1 /\ Len(Append(t, u)) = Len(t) + 1
<1> DEFINE r == Tail(q) z == Append(t, u)
<1>1. /\ Len(q) \in Nat /\ Len(t) \in Nat /\ Len(s) \in Nat /\ Len(q) >= 1
  BY FlowLengths, EmptySeq DEF Queues
<1>2. Len(r) = Len(q) - 1 /\ \A j \in 1..Len(r) : r[j] = q[j + 1]
  BY HeadTailProperties DEF Queues
<1>3. /\ Len(z) = Len(t) + 1 /\ z[Len(t) + 1] = u
      /\ \A j \in 1..Len(t) : z[j] = t[j]
  BY AppendProperties DEF Texts
<1>4. 1 \in 1..Len(q) /\ q[1].kind = "text" /\ q[1].unit = u
  BY <1>1, FrameTypes
<1>5. Len(s) - Len(t) >= 1 /\ q[1] = Text(s[Len(t) + 1])
  BY <1>1, <1>4 DEF Flows
<1>6. s[Len(t) + 1] = u
  <2>1. Len(t) + 1 \in 1..Len(s)
    BY <1>1, <1>5
  <2>2. s[Len(t) + 1] \in Units
    BY <2>1, ElementOfSeq DEF Texts
  <2> QED
    BY <1>4, <1>5, <2>2, FrameTypes
<1> HIDE DEF r, z
<1>7. Len(z) <= Len(s) /\ Len(s) - Len(z) <= Len(r)
  BY <1>1, <1>2, <1>3, <1>5 DEF Flows
<1>8. ASSUME NEW i \in 1..Len(z) PROVE z[i] = s[i]
  <2>1. CASE i = Len(t) + 1
    BY <1>3, <1>6, <2>1
  <2>2. CASE i # Len(t) + 1
    <3>1. i \in 1..Len(t)
      BY <1>1, <1>3, <2>2
    <3> QED
      BY <1>3, <3>1 DEF Flows
  <2> QED
    BY <2>1, <2>2
<1>9. ASSUME NEW j \in 1..Len(r)
      PROVE  IF j <= Len(s) - Len(z) THEN r[j] = Text(s[Len(z) + j]) ELSE r[j].kind # "text"
  <2>1. j + 1 \in 1..Len(q) /\ r[j] = q[j + 1] /\ Len(z) + j = Len(t) + (j + 1)
    BY <1>1, <1>2, <1>3
  <2>2. j <= Len(s) - Len(z) <=> j + 1 <= Len(s) - Len(t)
    BY <1>1, <1>3
  <2> QED
    BY <2>1, <2>2 DEF Flows
<1>10. Flows(r, z, s)
  BY <1>7, <1>8, <1>9 DEF Flows
<1> QED
  BY <1>2, <1>3, <1>10 DEF r, z

\* It has all that was said when there is no unit at the head of what is on its way.
LEMMA FlowsAll ==
  ASSUME NEW q \in Queues, NEW t \in Texts, NEW s \in Texts,
         Flows(q, t, s), q = <<>> \/ q[1].kind # "text"
  PROVE  Len(t) = Len(s) /\ t = s
<1>1. Len(q) \in Nat /\ Len(t) \in Nat /\ Len(s) \in Nat
  BY FlowLengths
<1>2. Len(t) = Len(s)
  <2>1. CASE q = <<>>
    BY <1>1, <2>1, EmptySeq DEF Flows
  <2>2. CASE q # <<>>
    <3>1. 1 \in 1..Len(q) /\ q[1].kind # "text"
      BY <1>1, <2>2, EmptySeq DEF Queues
    <3>2. CASE Len(s) - Len(t) >= 1
      <4>1. q[1] = Text(s[Len(t) + 1])
        BY <1>1, <3>1, <3>2 DEF Flows
      <4> QED
        BY <3>1, <4>1 DEF Text
    <3> QED
      BY <1>1, <3>2 DEF Flows
  <2> QED
    BY <2>1, <2>2
<1>3. \A i \in 1..Len(t) : t[i] = s[i]
  BY DEF Flows
<1> QED
  BY <1>2, <1>3, SeqEqual DEF Texts

\* A frame of another kind leaves.
LEMMA FlowsSkips ==
  ASSUME NEW q \in Queues, NEW t \in Texts, NEW s \in Texts,
         Flows(q, t, s), q # <<>>, q[1].kind # "text"
  PROVE  Flows(Tail(q), t, s) /\ Len(q) # Len(s) - Len(t)
<1>1. Len(t) = Len(s)
  BY FlowsAll
<1>2. Len(q) \in Nat /\ Len(t) \in Nat /\ Len(s) \in Nat /\ Len(q) >= 1
  BY FlowLengths, EmptySeq DEF Queues
<1>3. Len(Tail(q)) = Len(q) - 1 /\ \A j \in 1..Len(Tail(q)) : Tail(q)[j] = q[j + 1]
  BY HeadTailProperties DEF Queues
<1>4. ASSUME NEW j \in 1..Len(Tail(q))
      PROVE  ~(j <= Len(s) - Len(t)) /\ Tail(q)[j].kind # "text"
  <2>1. j + 1 \in 1..Len(q) /\ ~(j + 1 <= Len(s) - Len(t)) /\ ~(j <= Len(s) - Len(t))
    BY <1>1, <1>2, <1>3
  <2>2. q[j + 1].kind # "text"
    BY <2>1 DEF Flows
  <2> QED
    BY <1>3, <2>1, <2>2
<1>5. Len(t) <= Len(s) /\ Len(s) - Len(t) <= Len(Tail(q)) /\ \A i \in 1..Len(t) : t[i] = s[i]
  BY <1>1, <1>2, <1>3 DEF Flows
<1>6. Flows(Tail(q), t, s)
  BY <1>4, <1>5 DEF Flows
<1> QED
  BY <1>1, <1>2, <1>6

\* The socket and the buffer as one queue.
LEMMA QueueIs ==
  ASSUME NEW h \in Queues, NEW w \in Queues
  PROVE  /\ h \o w \in Queues /\ Len(h \o w) = Len(h) + Len(w)
         /\ \A f \in Frames : h \o Append(w, f) = Append(h \o w, f)
         /\ h # <<>> => /\ h \o w # <<>> /\ (h \o w)[1] = h[1] /\ h[1] \in Frames
                        /\ Tail(h) \in Queues /\ Tail(h) \o w = Tail(h \o w)
         /\ h = <<>> => h \o w = w \o <<>>
<1>1. h \o w \in Queues /\ Len(h \o w) = Len(h) + Len(w) /\ Len(h) \in Nat /\ Len(w) \in Nat
  BY ConcatProperties, LenProperties DEF Queues
<1>2. ASSUME NEW f \in Frames PROVE h \o Append(w, f) = Append(h \o w, f)
  <2>1. <<f>> \in Seq(Frames) /\ Append(w, f) = w \o <<f>>
    BY AppendIsConcat DEF Queues
  <2>2. Append(h \o w, f) = (h \o w) \o <<f>>
    BY <1>1, AppendIsConcat DEF Queues
  <2> QED
    BY <2>1, <2>2, ConcatAssociative DEF Queues
<1>3. ASSUME h # <<>>
      PROVE  /\ h \o w # <<>> /\ (h \o w)[1] = h[1] /\ h[1] \in Frames
             /\ Tail(h) \in Queues /\ Tail(h) \o w = Tail(h \o w)
  <2>1. Len(h) >= 1 /\ h[1] \in Frames
    BY <1>1, <1>3, EmptySeq, ElementOfSeq DEF Queues
  <2>2. \A i \in 1..Len(h \o w) : (h \o w)[i] = IF i <= Len(h) THEN h[i] ELSE w[i - Len(h)]
    BY ConcatProperties DEF Queues
  <2>3. h \o w # <<>> /\ (h \o w)[1] = h[1]
    <3>1. 1 \in 1..Len(h \o w) /\ 1 <= Len(h)
      BY <1>1, <2>1
    <3> QED
      BY <2>2, <3>1, EmptySeq
  <2>4. /\ Tail(h) \in Queues /\ Len(Tail(h)) = Len(h) - 1
        /\ \A i \in 1..Len(Tail(h)) : Tail(h)[i] = h[i + 1]
    BY <1>3, HeadTailProperties DEF Queues
  <2>5. /\ Tail(h \o w) \in Queues /\ Len(Tail(h \o w)) = Len(h \o w) - 1
        /\ \A i \in 1..Len(Tail(h \o w)) : Tail(h \o w)[i] = (h \o w)[i + 1]
    BY <1>1, <2>3, HeadTailProperties DEF Queues
  <2>6. /\ Tail(h) \o w \in Queues /\ Len(Tail(h) \o w) = Len(Tail(h)) + Len(w)
        /\ \A i \in 1..Len(Tail(h) \o w) :
              (Tail(h) \o w)[i] = IF i <= Len(Tail(h)) THEN Tail(h)[i] ELSE w[i - Len(Tail(h))]
    BY <2>4, ConcatProperties DEF Queues
  <2>7. Len(Tail(h) \o w) = Len(Tail(h \o w))
    <3> DEFINE n == Len(h) m == Len(w) k == Len(Tail(h)) both == Len(h \o w)
               left == Len(Tail(h) \o w) right == Len(Tail(h \o w))
    <3>1. k = n - 1 /\ right = both - 1
      BY <2>4, <2>5
    <3>2. left = k + m
      BY <2>6
    <3>3. both = n + m /\ n \in Nat /\ m \in Nat
      BY <1>1
    <3> HIDE DEF n, m, k, both, left, right
    <3>4. left = right
      BY <3>1, <3>2, <3>3
    <3> QED
      BY <3>4 DEF left, right
  <2>8. ASSUME NEW i \in 1..Len(Tail(h) \o w)
        PROVE  (Tail(h) \o w)[i] = Tail(h \o w)[i]
    <3>1. i + 1 \in 1..Len(h \o w) /\ i \in 1..Len(Tail(h \o w))
      BY <1>1, <2>1, <2>4, <2>5, <2>6, <2>7
    <3>2. Tail(h \o w)[i] = (h \o w)[i + 1]
      BY <2>5, <3>1
    <3>3. CASE i <= Len(h) - 1
      <4>1. i \in 1..Len(Tail(h)) /\ i + 1 <= Len(h)
        BY <1>1, <2>4, <3>1, <3>3
      <4> QED
        BY <2>2, <2>4, <2>6, <3>1, <3>2, <4>1
    <3>4. CASE ~(i <= Len(h) - 1)
      <4>1. ~(i <= Len(Tail(h))) /\ ~(i + 1 <= Len(h)) /\ i - Len(Tail(h)) = (i + 1) - Len(h)
        <5> DEFINE n == Len(h) k == Len(Tail(h))
        <5>1. k = n - 1 /\ n \in Nat /\ i \in Nat /\ ~(i <= n - 1)
          BY <1>1, <2>4, <3>1, <3>4
        <5> HIDE DEF n, k
        <5>2. ~(i <= k) /\ ~(i + 1 <= n) /\ i - k = (i + 1) - n
          BY <5>1
        <5> QED
          BY <5>2 DEF n, k
      <4> QED
        BY <2>2, <2>6, <3>1, <3>2, <4>1
    <3> QED
      BY <3>3, <3>4
  <2>9. Tail(h) \o w = Tail(h \o w)
    BY <2>5, <2>6, <2>7, <2>8, SeqEqual DEF Queues
  <2> QED
    BY <2>1, <2>3, <2>4, <2>9
<1>4. h = <<>> => h \o w = w \o <<>>
  BY ConcatEmptySeq DEF Queues
<1> QED
  BY <1>1, <1>2, <1>3, <1>4


\* The server's steps.
LEMMA ServerFlows ==
  ASSUME TypeInv, FlowInv, ServerStep
  PROVE  FlowInv'
<1> SUFFICES ASSUME pc = "answer", ~broken'
             PROVE  /\ Flows(held' \o wire', text', said')
                    /\ opened' = 0 /\ phase' = "reply"
                          => Len(held' \o wire') = Len(said') - Len(text')
  BY DEF ServerStep, turnVars, FlowInv
<1> DEFINE q == held \o wire
<1>0. /\ held \in Queues /\ wire \in Queues /\ text \in Texts /\ said \in Texts
      /\ ServerSteps /\ text' = text /\ (opened = 0 => ~partial)
  BY DEF TypeInv, TypeOK, StreamTypeOK, StreamLinked, ServerStep, turnVars, Queues, Texts
<1>1. q \in Queues /\ \A f \in Frames : held \o Append(wire, f) = Append(q, f)
  BY <1>0, QueueIs
<1>2. ASSUME ~broken
      PROVE  Flows(q, text, said)
             /\ (opened = 0 /\ phase = "reply" => Len(q) = Len(said) - Len(text))
  BY <1>2 DEF FlowInv
<1> HIDE DEF q
<1>3. ASSUME NEW f \in Frames, Sends(f)
      PROVE  held' \o wire' = Append(q, f) /\ ~broken
  BY <1>1, <1>3 DEF Sends
<1>4. CASE ServerText
  <2>1. PICK u \in Units : Sends(Text(u)) /\ said' = Append(said, u)
    BY <1>4 DEF ServerText
  <2>2. held' \o wire' = Append(q, Text(u)) /\ ~broken
    BY <1>3, <2>1, FrameTypes
  <2>3. phase = "reply" /\ opened = 0
    BY <1>4 DEF ServerText
  <2>4. Flows(q, text, said) /\ Len(q) = Len(said) - Len(text)
    BY <1>2, <2>2, <2>3
  <2>5. /\ Flows(Append(q, Text(u)), text, Append(said, u))
        /\ Len(Append(q, Text(u))) = Len(Append(said, u)) - Len(text)
    BY <1>0, <1>1, <2>4, FlowsSaid
  <2> QED
    BY <1>0, <2>1, <2>2, <2>5
<1>5. ASSUME NEW f \in Frames, Sends(f), f.kind # "text", said' = said,
             opened' # 0 \/ phase' # "reply"
      PROVE  /\ Flows(held' \o wire', text', said')
             /\ opened' = 0 /\ phase' = "reply"
                   => Len(held' \o wire') = Len(said') - Len(text')
  <2>1. Flows(Append(q, f), text, said)
    BY <1>0, <1>1, <1>2, <1>3, <1>5, FlowsSent
  <2> QED
    BY <1>0, <1>3, <1>5, <2>1
<1>6. CASE ServerCall
  <2>1. opened + 1 # 0
    BY DEF TypeInv, TypeOK, StreamTypeOK
  <2> QED
    BY <1>5, <1>6, <2>1, FrameTypes DEF ServerCall
<1>7. CASE ServerArgs
  BY <1>0, <1>5, <1>7, FrameTypes DEF ServerArgs
<1>8. CASE ServerFinish
  <2>1. PICK r \in {"stop", "length"} : Sends(Reason(r))
    BY <1>8 DEF ServerFinish
  <2> QED
    BY <1>5, <1>8, <2>1, FrameTypes DEF ServerFinish
<1>9. CASE ServerDone
  BY <1>5, <1>9, FrameTypes DEF ServerDone
<1>10. CASE ServerCloses
  <2>1. UNCHANGED <<held, wire, said, opened, phase, broken>>
    BY <1>10 DEF ServerCloses
  <2> QED
    BY <1>0, <1>2, <2>1 DEF q
<1>11. CASE ServerBreaks
  BY <1>11 DEF ServerBreaks
<1> QED
  BY <1>0, <1>4, <1>6, <1>7, <1>8, <1>9, <1>10, <1>11 DEF ServerSteps

\* The client's.
LEMMA ClientFlows ==
  ASSUME TypeInv, FlowInv, TextEvent \/ FrameTaken \/ BufferFilled \/ RequestAccepted
  PROVE  FlowInv'
<1> SUFFICES ASSUME pc = "answer", ~broken
             PROVE  /\ Flows(held' \o wire', text', said')
                    /\ opened' = 0 /\ phase' = "reply"
                          => Len(held' \o wire') = Len(said') - Len(text')
  <2>1. pc' = pc /\ broken' = broken
    BY DEF TextEvent, FrameTaken, BufferFilled, RequestAccepted, turnVars, Takes, Fills,
           Accepted, server
  <2> QED
    BY <2>1 DEF FlowInv
<1> DEFINE q == held \o wire
<1>0. /\ held \in Queues /\ wire \in Queues /\ text \in Texts /\ said \in Texts
      /\ (conn # "open" => held = <<>>)
  BY DEF TypeInv, TypeOK, StreamTypeOK, StreamLinked, Queues, Texts
<1>1. q \in Queues
  BY <1>0, QueueIs
<1>2. Flows(q, text, said) /\ (opened = 0 /\ phase = "reply" => Len(q) = Len(said) - Len(text))
  BY DEF FlowInv
<1>3. CASE BufferFilled \/ RequestAccepted
  <2>1. held = <<>> /\ held' = wire /\ wire' = <<>> /\ UNCHANGED <<server, text>>
    BY <1>0, <1>3 DEF BufferFilled, RequestAccepted, Fills, Accepted, turnVars
  <2>2. held' \o wire' = q
    BY <1>0, <2>1, QueueIs
  <2> QED
    BY <1>2, <2>1, <2>2 DEF server
<1>4. CASE TextEvent
  <2>1. PICK u \in Units : held[1] = Text(u) /\ text' = Append(text, u)
    BY <1>4, TextTaken
  <2>2. held # <<>> /\ held' = Tail(held) /\ UNCHANGED <<server, wire>>
    BY <1>4 DEF TextEvent, Takes
  <2>3. q # <<>> /\ q[1] = Text(u) /\ held' \o wire' = Tail(q)
    BY <1>0, <2>1, <2>2, QueueIs
  <2> HIDE DEF q
  <2>4. Flows(Tail(q), Append(text, u), said)
        /\ Len(Tail(q)) = Len(q) - 1 /\ Len(Append(text, u)) = Len(text) + 1
    BY <1>0, <1>1, <1>2, <2>3, FlowsTaken
  <2> DEFINE n == Len(q) m == Len(said) k == Len(text) n1 == Len(Tail(q)) k1 == Len(Append(text, u))
  <2>5. n \in Nat /\ m \in Nat /\ k \in Nat /\ n1 = n - 1 /\ k1 = k + 1
    BY <1>0, <1>1, <2>4, FlowLengths
  <2>6. n = m - k => n1 = m - k1
    <3> HIDE DEF n, m, k, n1, k1
    <3> QED
      BY <2>5
  <2> QED
    BY <1>2, <2>1, <2>2, <2>3, <2>4, <2>6 DEF server
<1>5. CASE FrameTaken
  <2>1. PICK f \in Range(held) : f.kind \in {"call", "args", "finish"} /\ Takes(f)
    BY <1>5 DEF FrameTaken
  <2>2. held # <<>> /\ f = Head(held) /\ held' = Tail(held) /\ UNCHANGED <<server, wire, text>>
    BY <1>5, <2>1 DEF FrameTaken, Takes, turnVars
  <2>3. f = held[1] /\ held[1].kind # "text"
    BY <1>0, <2>1, <2>2, HeadTailProperties DEF Queues
  <2>4. q # <<>> /\ q[1].kind # "text" /\ held' \o wire' = Tail(q)
    BY <1>0, <2>2, <2>3, QueueIs
  <2> HIDE DEF q
  <2>5. Flows(Tail(q), text, said) /\ Len(q) # Len(said) - Len(text)
    BY <1>0, <1>1, <1>2, <2>4, FlowsSkips
  <2> QED
    BY <1>2, <2>2, <2>4, <2>5 DEF server
<1> QED
  BY <1>3, <1>4, <1>5

\* An answer request begins with nothing said and nothing on its way.
LEMMA RequestFlows ==
  ASSUME TypeInv, AnswerRequest
  PROVE  FlowInv'
<1>1. text' = <<>>
  BY DEF AnswerRequest, TypeInv, TurnLinked
<1>2. held' = <<>> /\ wire' = <<>> /\ said' = <<>>
  BY DEF AnswerRequest, Asks, ResetStream
<1>3. <<>> \o <<>> = <<>> /\ Len(<<>>) = 0
  OBVIOUS
<1>4. Flows(<<>>, <<>>, <<>>)
  BY <1>3 DEF Flows
<1>5. Len(<<>>) = Len(<<>>) - Len(<<>>)
  BY <1>3
<1> QED
  BY <1>1, <1>2, <1>3, <1>4, <1>5 DEF FlowInv

\* A stream that is over is no answer's any more.
LEMMA StreamOverLeaves ==
  ASSUME pc \in Streaming, NEW reason, StreamOver(reason)
  PROVE  pc' # "answer"
<1>1. CASE pc = "answer"
  BY <1>1 DEF StreamOver, AnswerEnds, TurnOver
<1>2. CASE pc # "answer"
  BY <1>2 DEF StreamOver
<1> QED
  BY <1>1, <1>2

\* Every step.
LEMMA FlowStep == TypeInv /\ FlowInv /\ [Next]_vars => FlowInv'
<1> SUFFICES ASSUME TypeInv, FlowInv, [Next]_vars PROVE FlowInv'
  OBVIOUS
<1>1. CASE pc' # "answer"
  BY <1>1 DEF FlowInv
<1>2. CASE UNCHANGED <<pc, broken, held, wire, text, said, opened, phase>>
  BY <1>2 DEF FlowInv
<1>3. CASE TextEvent \/ FrameTaken \/ BufferFilled \/ RequestAccepted
  BY <1>3, ClientFlows
<1>4. CASE AnswerRequest
  BY <1>4, RequestFlows
<1>5. CASE ServerStep
  BY <1>5, ServerFlows
<1>6. CASE StreamStopped \/ StreamDone \/ StreamCut
  <2>1. pc \in Streaming /\ \E reason : StreamOver(reason)
    BY <1>6 DEF StreamStopped, StreamDone, StreamCut
  <2> QED
    BY <1>1, <2>1, StreamOverLeaves
<1>7. CASE StartTurn \/ LoopCancelled \/ ForcedRequest \/ RequestRefused \/ StreamRaises
           \/ DispatchCancelled \/ DispatchOther \/ DispatchCalc \/ Calculating \/ CalcReturns
  BY <1>1, <1>7 DEF StartTurn, LoopCancelled, ForcedRequest, RequestRefused, StreamRaises,
     DispatchCancelled, DispatchOther, DispatchCalc, Calculating, CalcReturns, TurnOver,
     EndCall, turnVars
<1>8. CASE Stop \/ ClockStep \/ ChildStep \/ UNCHANGED vars
  BY <1>2, <1>8 DEF Stop, ClockStep, ChildStep, vars, turnVars, streamVars, server
<1> QED
  BY <1>3, <1>4, <1>5, <1>6, <1>7, <1>8 DEF Next, TurnStep

\* The answer that is kept when an answer's stream ends.
LEMMA AnswerKept ==
  ASSUME TypeInv, FlowInv, WholeAnswer, StreamStopped \/ StreamDone \/ StreamCut
  PROVE  WholeAnswer'
<1>0. /\ TypeOK /\ TurnLinked /\ held \in Queues /\ wire \in Queues
      /\ text \in Texts /\ said \in Texts
  BY DEF TypeInv, TypeOK, StreamTypeOK, Queues, Texts
<1>1. CASE UNCHANGED answer
  BY <1>1 DEF WholeAnswer
<1>2. CASE answer' = NoAnswer
  BY <1>2 DEF WholeAnswer, NoAnswer
<1> DEFINE shown == IF kept > 0 THEN SubSeq(text, 1, kept) ELSE text
           a == [shown |-> shown, sent |-> said, trimmed |-> kept > 0,
                 complete |-> phase = "done" /\ ~broken /\ ~cancel]
<1>3. ASSUME NEW reason, StreamOver(reason), answer' # NoAnswer, answer' # answer
      PROVE  pc = "answer" /\ answer' = a /\ ~(reason = "cancelled" /\ cancel)
  <2>1. pc = "answer" /\ AnswerEnds(reason)
    BY <1>3 DEF StreamOver
  <2> QED
    BY <1>3, <2>1, Zenon DEF AnswerEnds, TurnOver
<1>4. ASSUME pc = "answer", ~broken,
             \/ held = <<>> /\ wire = <<>>
             \/ held # <<>> /\ Head(held).kind = "done"
      PROVE  text = said
  <2>1. Flows(held \o wire, text, said) /\ held \o wire \in Queues
    BY <1>0, <1>4, QueueIs DEF FlowInv
  <2>2. held \o wire = <<>> \/ (held \o wire)[1].kind # "text"
    <3>1. CASE held = <<>> /\ wire = <<>>
      BY <3>1
    <3>2. CASE held # <<>> /\ Head(held).kind = "done"
      <4>1. Head(held) = held[1]
        BY <1>0, <3>2, HeadTailProperties DEF Queues
      <4> QED
        BY <1>0, <3>2, <4>1, QueueIs
    <3> QED
      BY <1>4, <3>1, <3>2
  <2> QED
    BY <1>0, <2>1, <2>2, FlowsAll
<1>5. ASSUME NEW reason, StreamOver(reason),
             \/ reason = "cancelled" /\ StreamCancelled
             \/ held = <<>> /\ wire = <<>>
             \/ held # <<>> /\ Head(held).kind = "done"
      PROVE  WholeAnswer'
  <2>1. CASE answer' # NoAnswer /\ answer' # answer
    <3>1. pc = "answer" /\ answer' = a /\ ~(reason = "cancelled" /\ cancel)
      BY <1>3, <1>5, <2>1
    <3>2. a.complete /\ ~a.trimmed => a.shown = a.sent
      <4> SUFFICES ASSUME a.complete, ~a.trimmed PROVE a.shown = a.sent
        OBVIOUS
      <4>1. ~broken /\ ~cancel /\ ~(kept > 0)
        OBVIOUS
      <4>2. ~guard /\ ~StreamCancelled
        BY <1>0, <4>1 DEF TurnLinked, StreamCancelled
      <4>3. text = said
        <5>1. \/ held = <<>> /\ wire = <<>>
              \/ held # <<>> /\ Head(held).kind = "done"
          BY <1>5, <4>2
        <5> QED
          BY <1>4, <3>1, <4>1, <5>1
      <4> QED
        BY <4>1, <4>3
    <3> HIDE DEF a
    <3> QED
      BY <3>1, <3>2 DEF WholeAnswer
  <2> QED
    BY <1>1, <1>2, <2>1
<1> QED
  BY <1>5 DEF StreamStopped, StreamDone, StreamCut, AtEnd

\* An answer that the server completed, and that neither Stop nor the guard cut, is
\* shown as it was sent, to the last unit, however the frames were read.
THEOREM WholeAnswerHolds == Spec => []WholeAnswer
<1>1. Init => FlowInv /\ WholeAnswer
  BY DEF Init, FlowInv, WholeAnswer, NoAnswer
<1>2. TypeInv /\ FlowInv /\ WholeAnswer /\ [Next]_vars => WholeAnswer'
  <2> SUFFICES ASSUME TypeInv, FlowInv, WholeAnswer, [Next]_vars PROVE WholeAnswer'
    OBVIOUS
  <2>1. CASE UNCHANGED answer
    BY <2>1 DEF WholeAnswer
  <2>2. CASE answer' = NoAnswer
    BY <2>2 DEF WholeAnswer, NoAnswer
  <2>3. CASE StreamStopped \/ StreamDone \/ StreamCut
    BY <2>3, AnswerKept
  <2> QED
    BY <2>1, <2>2, <2>3
    DEF Next, TurnStep, vars, turnVars, StartTurn, LoopCancelled, AnswerRequest, ForcedRequest,
        RequestRefused, RequestAccepted, TextEvent, FrameTaken, BufferFilled, StreamRaises,
        DispatchCancelled, DispatchOther, DispatchCalc, Calculating, CalcReturns, Stop,
        ServerStep, ClockStep, ChildStep, TurnOver, EndCall
<1>3. Spec => []TypeInv
  BY InitType, TypeStep, PTL DEF Spec
<1> QED
  BY <1>1, <1>2, <1>3, FlowStep, PTL DEF Spec

=============================================================================
