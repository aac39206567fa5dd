--------------------------- MODULE TutorTurnProofs ---------------------------
(***************************************************************************)
(* Proofs about TutorTurn and the PromptLog it works on, for any library,  *)
(* packet size, budget, settings and bounds.  First the operators of       *)
(* PromptLog: every method takes logs to logs, and what render, rebuild,   *)
(* repair and evict leave is made of messages.  Then the turn loop: its    *)
(* types, the order of its log, what its requests carry, what its steps    *)
(* may never do, and that no text is shown twice.                          *)
(***************************************************************************)
EXTENDS TutorTurn, FiniteSetTheorems, SequenceTheorems, WellFoundedInduction, TLAPS

-----------------------------------------------------------------------------
(* The operators of PromptLog *)

\* A finite library has finitely many shown passages, so a set of them can be listed.
LEMMA ShownFinite == IsFiniteSet(Shown)
<1> DEFINE Triples == Passages \X (Labels \X BOOLEAN)
           triple == [s \in Shown |-> <<s.id, <<s.label, s.full>>>>]
<1>1. IsFiniteSet(Triples)
  <2>1. IsFiniteSet(Labels)
    BY PromptLogAssumption, FS_Interval DEF Labels
  <2>2. IsFiniteSet({TRUE}) /\ IsFiniteSet({TRUE} \cup {FALSE})
    BY FS_Singleton, FS_AddElement, Zenon
  <2>3. BOOLEAN = {TRUE} \cup {FALSE}
    OBVIOUS
  <2>4. IsFiniteSet(BOOLEAN)
    BY <2>2, <2>3, Zenon
  <2> HIDE DEF Triples
  <2> QED
    BY <2>1, <2>4, PromptLogAssumption, FS_Product DEF Triples
<1>2. triple \in Injection(Shown, Triples)
  BY DEF Injection, IsInjective, Shown
<1> QED
  BY <1>1, <1>2, FS_Injection

-----------------------------------------------------------------------------
(* Sequences and enumerations *)

\* A function on 1..n is a sequence of length n.
LEMMA FcnIsSeq ==
  ASSUME NEW S, NEW n \in Nat, NEW f \in [1..n -> S]
  PROVE  f \in Seq(S) /\ Len(f) = n /\ DOMAIN f = 1..n
<1>1. f \in Seq(S)
  BY SeqDef, Zenon
<1> QED
  BY <1>1, LenProperties

\* A segment of a sequence is a sequence over the same set.
LEMMA SubSeqType ==
  ASSUME NEW S, NEW s \in Seq(S), NEW m \in Nat \ {0}, NEW n \in 0..Len(s)
  PROVE  /\ SubSeq(s, m, n) \in Seq(S)
         /\ Len(SubSeq(s, m, n)) = IF m <= n THEN n - m + 1 ELSE 0
         /\ \A i \in 1..(n - m + 1) : SubSeq(s, m, n)[i] = s[m + i - 1]
<1>1. \A i \in m..n : s[i] \in S
  BY ElementOfSeq, LenProperties
<1> QED
  BY <1>1, SubSeqProperties, LenProperties

\* What a sequence over S lists is in S.
LEMMA EntryRange ==
  ASSUME NEW S, NEW s \in Seq(S)
  PROVE  Range(s) \in SUBSET S
  BY LenProperties, ElementOfSeq DEF Range

\* SetToSeq enumerates a finite set.
LEMMA SetToSeqType ==
  ASSUME NEW S, IsFiniteSet(S)
  PROVE  /\ Cardinality(S) \in Nat
         /\ SetToSeq(S) \in [1..Cardinality(S) -> S]
         /\ \A a, b \in 1..Cardinality(S) : SetToSeq(S)[a] = SetToSeq(S)[b] => a = b
<1>1. Cardinality(S) \in Nat /\ ExistsBijection(1..Cardinality(S), S)
  BY FS_CardinalityType
<1>2. PICK f \in Bijection(1..Cardinality(S), S) : TRUE
  BY <1>1 DEF ExistsBijection
<1>3. f \in [1..Cardinality(S) -> S] /\ IsInjective(f)
  BY <1>2 DEF Bijection, Injection
<1>4. SetToSeq(S) \in [1..Cardinality(S) -> S] /\ IsInjective(SetToSeq(S))
  BY <1>3, Zenon DEF SetToSeq
<1> QED
  BY <1>1, <1>4 DEF IsInjective

\* Every set of natural numbers has a least element.
LEMMA LeastElement ==
  ASSUME NEW T \in SUBSET Nat, T # {}
  PROVE  \E x \in T : \A y \in T : x <= y
<1> DEFINE Less == {ss \in Nat \X Nat : ss[1] < ss[2]}
<1>1. IsWellFoundedOn(Less, Nat)
  BY NatLessThanWellFounded DEF OpToRel
<1> HIDE DEF Less
<1>2. PICK x \in T : \A y \in T : ~(<<y, x>> \in Less)
  BY <1>1, WFMin
<1>3. \A y, z \in Nat : y < z => <<y, z>> \in Less
  BY DEF Less
<1>4. \A y \in T : ~(y < x)
  BY <1>2, <1>3
<1> QED
  BY <1>4

-----------------------------------------------------------------------------
(* Types: messages *)

\* Every kind of message is a message.
LEMMA MessageType ==
  ASSUME NEW kind \in Kinds
  PROVE  Message(kind) \in Messages
  BY DEF Message, Messages, NoId

\* The constructors build messages.
LEMMA MessageTypes ==
  /\ \A w \in Nat : UserMsg(w) \in Messages
  /\ \A cites \in SUBSET Labels : AnswerMsg(cites) \in Messages
  /\ \A ids \in SUBSET CallIds : CallsMsg(ids) \in Messages
  /\ \A ps \in SUBSET Shown : EvidenceMsg(ps) \in Messages
  /\ \A id \in CallIds, pasted \in SUBSET Passages : ResultMsg(id, pasted) \in Messages
  BY MessageType DEF Messages, UserMsg, AnswerMsg, CallsMsg, EvidenceMsg, ResultMsg, Message,
                     Kinds, ToolKinds, NoId

\* The parts of the messages in a list.
LEMMA EntryType ==
  ASSUME NEW es \in Seq(Messages)
  PROVE  /\ Len(es) \in Nat /\ DOMAIN es = 1..Len(es)
         /\ \A i \in DOMAIN es :
               /\ es[i] \in Messages
               /\ es[i].ids \subseteq CallIds
               /\ es[i].shown \subseteq Shown
               /\ es[i].cites \subseteq Labels
<1>1. Len(es) \in Nat /\ DOMAIN es = 1..Len(es)
  BY LenProperties
<1>2. \A i \in DOMAIN es : es[i] \in Messages
  BY <1>1, ElementOfSeq
<1> QED
  BY <1>1, <1>2 DEF Messages

\* A message has finitely many call ids.
LEMMA CallIdsFinite ==
  ASSUME NEW ids \in SUBSET CallIds
  PROVE  IsFiniteSet(ids)
<1>1. IsFiniteSet(CallIds)
  BY PromptLogAssumption, FS_Interval DEF CallIds
<1> QED
  BY <1>1, FS_Subset

\* What stage 1 of evict writes in place of an evidence message is a message.
LEMMA CitedOnlyType ==
  ASSUME NEW m \in Messages, NEW needed
  PROVE  CitedOnly(m, needed) \in Messages
  BY MessageType DEF CitedOnly, Messages, Kinds, ToolKinds

-----------------------------------------------------------------------------
(* Types: the methods that append *)

\* A new lesson has a log.
LEMMA EmptyLogType == EmptyLog \in Logs
  BY DEF EmptyLog, Logs

\* append_system.
LEMMA AppendSystemType ==
  ASSUME NEW l \in Logs
  PROVE  AppendSystem(l) \in Logs
  BY DEF AppendSystem, Logs

\* append_user, append_assistant, append_assistant_tool_calls, append_tool_result.
LEMMA AppendMsgType ==
  ASSUME NEW l \in Logs, NEW m \in Messages
  PROVE  AppendMsg(l, m) \in Logs
  BY AppendProperties DEF AppendMsg, Logs

\* mark_held.
LEMMA MarkHeldType ==
  ASSUME NEW l \in Logs, NEW ids \in SUBSET Passages
  PROVE  MarkHeld(l, ids) \in Logs
  BY DEF MarkHeld, Logs

\* A packet no longer than MaxPacket is numbered with labels.
LEMMA LabelledType ==
  ASSUME NEW ids \in Packets, NEW n \in 0..Len(ids)
  PROVE  Labelled(SubSeq(ids, 1, n)) \in SUBSET Shown
<1>1. PICK k \in 0..MaxPacket : ids \in [1..k -> Passages]
  BY PromptLogAssumption DEF Packets, BoundedSeq, SeqOf
<1>2. ids \in Seq(Passages) /\ Len(ids) = k /\ k \in Nat
  BY <1>1, FcnIsSeq, PromptLogAssumption
<1>3. /\ SubSeq(ids, 1, n) \in Seq(Passages)
      /\ Len(SubSeq(ids, 1, n)) <= MaxPacket
  BY <1>1, <1>2, SubSeqType, PromptLogAssumption
<1>4. \A i \in DOMAIN SubSeq(ids, 1, n) : i \in Labels /\ SubSeq(ids, 1, n)[i] \in Passages
  BY <1>3, LenProperties, ElementOfSeq, PromptLogAssumption DEF Labels
<1>5. SUFFICES ASSUME NEW i \in DOMAIN SubSeq(ids, 1, n)
               PROVE  [id |-> SubSeq(ids, 1, n)[i], label |-> i, full |-> TRUE] \in Shown
  BY Zenon DEF Labelled
<1> QED
  BY <1>4, <1>5 DEF Shown

\* A packet lists passages of the library.
LEMMA PacketType ==
  ASSUME NEW ids \in Packets
  PROVE  ids \in Seq(Passages) /\ Range(ids) \in SUBSET Passages
<1>1. PICK k \in 0..MaxPacket : ids \in [1..k -> Passages]
  BY PromptLogAssumption DEF Packets, BoundedSeq, SeqOf
<1> QED
  BY <1>1, FcnIsSeq, PromptLogAssumption DEF Range

\* append_evidence.
LEMMA AppendEvidenceType ==
  ASSUME NEW l \in Logs, NEW ps \in SUBSET Shown, NEW reuse \in BOOLEAN
  PROVE  AppendEvidence(l, ps, reuse) \in Logs
<1>1. Display(ps, l.seen, reuse) \in SUBSET Shown
  BY DEF Display, Shown
<1>2. AppendMsg(l, EvidenceMsg(Display(ps, l.seen, reuse))) \in Logs
  BY <1>1, MessageTypes, AppendMsgType
<1>3. IdsOf(ps) \in SUBSET Passages
  BY DEF IdsOf, Shown
<1> QED
  BY <1>2, <1>3, MarkHeldType DEF AppendEvidence

-----------------------------------------------------------------------------
(* Types: render, rebuild, repair, evict *)

\* render gives a message list.
LEMMA RenderType ==
  ASSUME NEW l \in Logs
  PROVE  Render(l) \in Seq(Messages)
<1> DEFINE n == Cardinality(l.protected)
           lead == [i \in 1..n |-> EvidenceMsg({SetToSeq(l.protected)[i]})]
           system == IF l.system THEN <<Message("system")>> ELSE <<>>
<1>1. IsFiniteSet(l.protected) /\ l.protected \subseteq Shown
  BY ShownFinite, FS_Subset DEF Logs
<1>2. n \in Nat /\ lead \in [1..n -> Messages]
  BY <1>1, SetToSeqType, MessageTypes
<1>3. lead \in Seq(Messages)
  BY <1>2, FcnIsSeq
<1>4. system \in Seq(Messages)
  BY MessageType, EmptySeq DEF Kinds
<1>5. l.entries \in Seq(Messages)
  BY DEF Logs
<1> HIDE DEF lead, system, n
<1>6. (system \o lead) \o l.entries \in Seq(Messages)
  BY <1>3, <1>4, <1>5, ConcatProperties
<1> QED
  BY <1>6 DEF Render, lead, system, n

\* _rebuild_prompt_log gives a log, whatever message list it is given.
LEMMA RebuildType ==
  ASSUME NEW ms \in Seq(Messages)
  PROVE  Rebuild(ms) \in Logs
<1> DEFINE first == IF ms # <<>> /\ ms[1].kind = "system" THEN 2 ELSE 1
           leads == {n \in first..Len(ms) : \A i \in first..n : ms[i].kind = "evidence"}
           seen == UNION {IdsOf(ms[i].shown) : i \in DOMAIN ms}
<1>1. /\ Len(ms) \in Nat /\ DOMAIN ms = 1..Len(ms)
      /\ \A i \in DOMAIN ms : ms[i] \in Messages /\ ms[i].shown \subseteq Shown
  BY EntryType
<1>2. first \in {1, 2} /\ first <= Len(ms) + 1
  BY <1>1, EmptySeq
<1>3. Cardinality(leads) \in Nat
  <2>1. IsFiniteSet(first..Len(ms))
    BY <1>1, <1>2, FS_Interval
  <2> QED
    BY <2>1, FS_Subset, FS_CardinalityType
<1>4. UNION {ms[i].shown : i \in leads} \subseteq Shown
  BY <1>1, <1>2
<1>5. seen \subseteq Passages
  BY <1>1 DEF IdsOf, Shown
<1>6. SubSeq(ms, first + Cardinality(leads), Len(ms)) \in Seq(Messages)
  <2> HIDE DEF first, leads
  <2>1. first + Cardinality(leads) \in Nat \ {0} /\ Len(ms) \in 0..Len(ms)
    BY <1>1, <1>2, <1>3
  <2> QED
    BY <2>1, SubSeqType
<1> QED
  BY <1>2, <1>4, <1>5, <1>6 DEF Rebuild, Logs

\* The results repair adds are messages.
LEMMA FillType ==
  ASSUME NEW es \in Seq(Messages), NEW ids \in SUBSET CallIds
  PROVE  Fill(es, ids) \in Seq(Messages)
<1> DEFINE n == Cardinality(ids)
           results == [k \in 1..n |-> ResultMsg(SetToSeq(ids)[k], {})]
<1>1. IsFiniteSet(ids)
  BY CallIdsFinite
<1>2. n \in Nat /\ results \in [1..n -> Messages]
  BY <1>1, SetToSeqType, MessageTypes
<1>3. results \in Seq(Messages)
  BY <1>2, FcnIsSeq
<1> QED
  BY <1>3, ConcatProperties DEF Fill

\* repair.
LEMMA RepairType ==
  ASSUME NEW l \in Logs
  PROVE  Repair(l) \in Logs
<1>1. l.entries \in Seq(Messages)
  BY DEF Logs
<1>2. \A i \in DOMAIN l.entries : l.entries[i].ids \subseteq CallIds
  BY <1>1, EntryType
<1>3. UNION {Missing(l.entries, i) : i \in LastCalls(l.entries)} \subseteq CallIds
  BY <1>2 DEF Missing, LastCalls
<1> QED
  BY <1>1, <1>3, FillType DEF Repair, Logs

\* Stage 1 of evict leaves as many messages as there were.
LEMMA DropAtType ==
  ASSUME NEW es \in Seq(Messages), NEW positions
  PROVE  /\ DropAt(es, positions) \in Seq(Messages)
         /\ Len(DropAt(es, positions)) = Len(es)
         /\ \A i \in DOMAIN es :
               DropAt(es, positions)[i] =
                  IF i \in positions THEN CitedOnly(es[i], CitedLabels(es)) ELSE es[i]
<1>1. DropAt(es, positions) \in [1..Len(es) -> Messages]
  BY EntryType, CitedOnlyType DEF DropAt
<1> QED
  BY <1>1, EntryType, FcnIsSeq DEF DropAt

\* Stage 2 keeps some of them.
LEMMA KeepCountType ==
  ASSUME NEW es \in Seq(Messages), NEW protected
  PROVE  KeepCount(protected, es) \in 0..Len(es)
<1>1. Len(es) \in Nat /\ DOMAIN es = 1..Len(es)
  BY EntryType
<1>2. IsFiniteSet(1..Len(es)) /\ Cardinality(1..Len(es)) = Len(es)
  BY <1>1, FS_Interval
<1>3. Kept(protected, es) \in SUBSET (1..Len(es))
  BY <1>1 DEF Kept
<1>4. Cardinality(Kept(protected, es)) \in Nat /\ Cardinality(Kept(protected, es)) <= Len(es)
  BY <1>2, <1>3, FS_Subset, FS_CardinalityType
<1> QED
  BY <1>1, <1>4 DEF KeepCount

\* What evict leaves when it changes the log: a tail of the messages of stage 1, and
\* more protected passages.
LEMMA EvictParts ==
  ASSUME NEW l \in Logs, Evict(l) # l
  PROVE  \E es \in Seq(Messages), cut \in Nat, D \in SUBSET DOMAIN l.entries :
            LET kept      == SubSeq(es, cut + 1, Len(es))
                protected == l.protected
                             \cup Reprefill(SubSeq(es, 1, cut), CitedLabels(kept),
                                            LabelsOf(l.protected \cup ShownIn(kept)))
            IN  /\ es = DropAt(l.entries, D)
                /\ cut <= Len(es) /\ Len(es) = Len(l.entries)
                /\ Evict(l) = [l EXCEPT !.entries = kept, !.protected = protected,
                                        !.seen = IdsOf(protected \cup ShownIn(kept))]
<1> DEFINE D == Dropped(l.protected, l.entries)
           es == DropAt(l.entries, D)
           cut == Len(es) - KeepCount(l.protected, es)
<1>1. l.entries \in Seq(Messages)
  BY DEF Logs
<1>2. es \in Seq(Messages) /\ Len(es) = Len(l.entries) /\ Len(es) \in Nat
  BY <1>1, DropAtType, EntryType
<1>3. cut \in Nat /\ cut <= Len(es)
  <2>1. KeepCount(l.protected, es) \in 0..Len(es)
    BY <1>2, KeepCountType
  <2> QED
    BY <1>2, <2>1
<1>4. D \in SUBSET DOMAIN l.entries
  BY DEF Dropped, Droppable
<1>5. LET kept      == SubSeq(es, cut + 1, Len(es))
          protected == l.protected
                       \cup Reprefill(SubSeq(es, 1, cut), CitedLabels(kept),
                                      LabelsOf(l.protected \cup ShownIn(kept)))
      IN  Evict(l) = [l EXCEPT !.entries = kept, !.protected = protected,
                               !.seen = IdsOf(protected \cup ShownIn(kept))]
  BY Zenon DEF Evict, SeenAfter
<1> HIDE DEF D, es, cut
<1> QED
  BY <1>2, <1>3, <1>4, <1>5 DEF es

\* evict.
LEMMA EvictType ==
  ASSUME NEW l \in Logs
  PROVE  Evict(l) \in Logs
<1> SUFFICES ASSUME Evict(l) # l PROVE Evict(l) \in Logs
  OBVIOUS
<1>1. PICK es \in Seq(Messages), cut \in Nat :
         LET kept      == SubSeq(es, cut + 1, Len(es))
             protected == l.protected
                          \cup Reprefill(SubSeq(es, 1, cut), CitedLabels(kept),
                                         LabelsOf(l.protected \cup ShownIn(kept)))
         IN  /\ cut <= Len(es)
             /\ Evict(l) = [l EXCEPT !.entries = kept, !.protected = protected,
                                     !.seen = IdsOf(protected \cup ShownIn(kept))]
  BY EvictParts
<1> DEFINE kept == SubSeq(es, cut + 1, Len(es))
           removed == SubSeq(es, 1, cut)
           put == Reprefill(removed, CitedLabels(kept),
                            LabelsOf(l.protected \cup ShownIn(kept)))
<1>2. kept \in Seq(Messages) /\ removed \in Seq(Messages)
  <2>1. Len(es) \in Nat
    BY EntryType
  <2> QED
    BY <1>1, <2>1, SubSeqType
<1> HIDE DEF kept, removed
<1>3. put \in SUBSET Shown
  BY <1>2, EntryType DEF Reprefill
<1>4. ShownIn(kept) \subseteq Shown
  BY <1>2, EntryType DEF ShownIn
<1>5. l.protected \cup put \in SUBSET Shown
  BY <1>3 DEF Logs
<1>6. IdsOf((l.protected \cup put) \cup ShownIn(kept)) \in SUBSET Passages
  BY <1>4, <1>5 DEF IdsOf, Shown
<1>7. Evict(l) = [l EXCEPT !.entries = kept, !.protected = l.protected \cup put,
                           !.seen = IdsOf((l.protected \cup put) \cup ShownIn(kept))]
  BY <1>1 DEF kept, removed
<1> HIDE DEF put
<1> QED
  BY <1>2, <1>5, <1>6, <1>7 DEF Logs

-----------------------------------------------------------------------------
(* Replayable lists: every tool-calls message is followed by its results *)

\* validate, of a list of messages.
ListValid(es) ==
    \A i \in DOMAIN es : es[i].kind = "calls" => AnsweredAt(es, i)

\* The newest calls message, one of n calls, has k results so far: the j-th message
\* after it answers its j-th call, by name or as an evidence packet.
Answering(es, k, n) ==
    LET c == Len(es) - k
    IN  /\ k \in 0..n /\ c \in DOMAIN es /\ es[c].kind = "calls" /\ es[c].ids = 1..n
        /\ \A j \in 1..k : es[c + j].kind \in ToolKinds /\ es[c + j].id \in {NoId, j}
        /\ \A i \in 1..(c - 1) : es[i].kind = "calls" => AnsweredAt(es, i)

\* Whether a calls message is answered depends on its ids and on the ids in the run of
\* results after it, not on where the message stands.
LEMMA AnsweredShift ==
  ASSUME NEW es \in Seq(Messages), NEW t \in Seq(Messages), NEW i \in Nat, NEW d \in Nat,
         t[i].ids = es[i + d].ids,
         \A j \in Nat : j \in Answers(t, i) <=> j + d \in Answers(es, i + d),
         \A j \in Answers(t, i) : t[j].id = es[j + d].id
  PROVE  AnsweredAt(t, i) <=> AnsweredAt(es, i + d)
<1>1. Len(es) \in Nat /\ Len(t) \in Nat
  BY LenProperties
<1>2. \A x \in Answers(es, i + d) : \E j \in Answers(t, i) : x = j + d
  <2> TAKE x \in Answers(es, i + d)
  <2>1. x - d \in Nat /\ x = (x - d) + d
    BY <1>1 DEF Answers
  <2> QED
    BY <2>1
<1>3. Answers(t, i) \subseteq Nat /\ Answers(t, i) \subseteq (i + 1)..Len(t)
  BY <1>1 DEF Answers
<1>4. Named(t, i) = Named(es, i + d)
  <2>1. ASSUME NEW x \in Named(t, i) PROVE x \in Named(es, i + d)
    <3>1. PICK j \in Answers(t, i) : t[j].id # NoId /\ x = t[j].id
      BY DEF Named
    <3>2. j + d \in Answers(es, i + d) /\ es[j + d].id = x /\ es[j + d].id # NoId
      BY <1>3, <3>1
    <3> QED
      BY <3>2 DEF Named
  <2>2. ASSUME NEW x \in Named(es, i + d) PROVE x \in Named(t, i)
    <3>1. PICK y \in Answers(es, i + d) : es[y].id # NoId /\ x = es[y].id
      BY DEF Named
    <3>2. PICK j \in Answers(t, i) : y = j + d
      BY <1>2
    <3> QED
      BY <3>1, <3>2 DEF Named
  <2> QED
    BY <2>1, <2>2
<1>5. Cardinality(Unnamed(t, i)) = Cardinality(Unnamed(es, i + d))
  <2> DEFINE f == [j \in Unnamed(t, i) |-> j + d]
  <2>1. IsFiniteSet((i + 1)..Len(t))
    BY <1>1, FS_Interval
  <2>2. IsFiniteSet(Unnamed(t, i))
    BY <1>3, <2>1, FS_Subset DEF Unnamed
  <2>3. f \in [Unnamed(t, i) -> Unnamed(es, i + d)]
    BY <1>3 DEF Unnamed
  <2>4. \A a, b \in Unnamed(t, i) : f[a] = f[b] => a = b
    <3>1. d \in Int /\ \A j \in Unnamed(t, i) : j \in Int
      BY <1>1, <1>3 DEF Unnamed
    <3>2. ASSUME NEW a \in Unnamed(t, i), NEW b \in Unnamed(t, i), a + d = b + d
          PROVE  a = b
      BY <3>1, <3>2
    <3>3. \A j \in Unnamed(t, i) : f[j] = j + d
      OBVIOUS
    <3> HIDE DEF f
    <3> QED
      BY <3>2, <3>3
  <2>5. \A x \in Unnamed(es, i + d) : \E j \in Unnamed(t, i) : f[j] = x
    BY <1>2 DEF Unnamed
  <2> HIDE DEF f
  <2>6. f \in Bijection(Unnamed(t, i), Unnamed(es, i + d))
    BY <2>3, <2>4, <2>5 DEF Bijection, Injection, Surjection, IsInjective
  <2> QED
    BY <2>2, <2>6, FS_Bijection DEF ExistsBijection
<1> QED
  BY <1>4, <1>5 DEF AnsweredAt

\* The same at the same place.
LEMMA AnsweredSame ==
  ASSUME NEW es \in Seq(Messages), NEW t \in Seq(Messages), NEW i \in Nat,
         t[i].ids = es[i].ids,
         \A j \in Nat : j \in Answers(t, i) <=> j \in Answers(es, i),
         \A j \in Answers(t, i) : t[j].id = es[j].id
  PROVE  AnsweredAt(t, i) <=> AnsweredAt(es, i)
<1>1. i + 0 = i /\ 0 \in Nat
  OBVIOUS
<1>2. Answers(t, i) \subseteq Nat
  BY LenProperties DEF Answers
<1>3. \A j \in Nat : j + 0 = j
  OBVIOUS
<1>4. \A j \in Nat : j \in Answers(t, i) <=> j + 0 \in Answers(es, i + 0)
  BY <1>1, <1>3
<1>5. \A j \in Answers(t, i) : t[j].id = es[j + 0].id
  BY <1>2, <1>3
<1>6. t[i].ids = es[i + 0].ids
  BY <1>1
<1>7. AnsweredAt(t, i) <=> AnsweredAt(es, i + 0)
  BY <1>1, <1>4, <1>5, <1>6, AnsweredShift, Zenon
<1> QED
  BY <1>1, <1>7

\* A message that is not a call, put where it cannot join a run of results, leaves
\* every call answered.
LEMMA AppendValid ==
  ASSUME NEW es \in Seq(Messages), ListValid(es), NEW m \in Messages, m.kind # "calls",
         m.kind \in ToolKinds => /\ es # <<>>
                                 /\ es[Len(es)].kind \notin ToolKinds \cup {"calls"}
  PROVE  ListValid(Append(es, m))
<1> DEFINE t == Append(es, m)
<1>1. /\ t \in Seq(Messages) /\ Len(t) = Len(es) + 1 /\ Len(es) \in Nat
      /\ DOMAIN es = 1..Len(es) /\ DOMAIN t = 1..(Len(es) + 1)
      /\ t[Len(es) + 1] = m /\ \A i \in 1..Len(es) : t[i] = es[i]
  BY AppendProperties, LenProperties
<1> HIDE DEF t
<1>2. SUFFICES ASSUME NEW i \in 1..Len(es), es[i].kind = "calls"
               PROVE  AnsweredAt(t, i)
  <2>1. \A i \in DOMAIN t : t[i].kind = "calls" => i \in 1..Len(es) /\ es[i].kind = "calls"
    BY <1>1
  <2> QED
    BY <1>2, <2>1 DEF ListValid, t
<1>3. AnsweredAt(es, i)
  BY <1>1, <1>2 DEF ListValid
<1>4. Len(es) + 1 \notin Answers(t, i)
  <2>1. SUFFICES ASSUME Len(es) + 1 \in Answers(t, i) PROVE FALSE
    OBVIOUS
  <2>2. \A k \in (i + 1)..(Len(es) + 1) : t[k].kind \in ToolKinds
    BY <2>1 DEF Answers
  <2>3. m.kind \in ToolKinds
    BY <1>1, <2>2
  <2>4. i # Len(es)
    BY <1>2, <2>3
  <2>5. t[Len(es)].kind \in ToolKinds
    <3>1. Len(es) \in Nat
      BY <1>1
    <3>2. i \in Nat /\ i <= Len(es)
      BY <3>1
    <3>3. Len(es) \in (i + 1)..(Len(es) + 1)
      BY <2>4, <3>1, <3>2
    <3> QED
      BY <2>2, <3>3
  <2> QED
    BY <1>1, <1>2, <2>3, <2>5
<1>5. \A j \in Nat : j \in Answers(t, i) <=> j \in Answers(es, i)
  BY <1>1, <1>4 DEF Answers
<1>6. \A j \in Answers(t, i) : t[j].id = es[j].id
  BY <1>1, <1>4 DEF Answers
<1>7. t[i].ids = es[i].ids /\ i \in Nat
  BY <1>1
<1> QED
  BY <1>1, <1>3, <1>5, <1>6, <1>7, AnsweredSame

\* Nor does a new calls message: it cuts off the run of results before it.
LEMMA CallsOpen ==
  ASSUME NEW es \in Seq(Messages), ListValid(es), NEW n \in CallIds
  PROVE  Answering(Append(es, CallsMsg(1..n)), 0, n)
<1> DEFINE m == CallsMsg(1..n)
           t == Append(es, m)
<1>0. n \in Nat /\ 1..n \in SUBSET CallIds
  BY PromptLogAssumption DEF CallIds
<1>1. m \in Messages /\ m.kind = "calls" /\ m.ids = 1..n /\ "calls" \notin ToolKinds
  BY <1>0, MessageTypes DEF CallsMsg, Message, ToolKinds
<1>2. /\ t \in Seq(Messages) /\ Len(t) = Len(es) + 1 /\ Len(es) \in Nat
      /\ DOMAIN es = 1..Len(es) /\ DOMAIN t = 1..(Len(es) + 1)
      /\ t[Len(es) + 1] = m /\ \A i \in 1..Len(es) : t[i] = es[i]
  BY <1>1, AppendProperties, LenProperties
<1> HIDE DEF t, m
<1>3. ASSUME NEW i \in 1..Len(es), es[i].kind = "calls"
      PROVE  AnsweredAt(t, i)
  <2>1. AnsweredAt(es, i)
    BY <1>2, <1>3 DEF ListValid
  <2>2. \A j \in Nat : j \in Answers(t, i) <=> j \in Answers(es, i)
    BY <1>1, <1>2 DEF Answers
  <2>3. \A j \in Answers(t, i) : t[j].id = es[j].id
    BY <1>1, <1>2 DEF Answers
  <2>4. t[i].ids = es[i].ids /\ i \in Nat
    BY <1>2
  <2> QED
    BY <1>2, <2>1, <2>2, <2>3, <2>4, AnsweredSame
<1> QED
  BY <1>0, <1>1, <1>2, <1>3 DEF Answering, t, m

\* What is appended after a calls message does not touch the calls before it.
LEMMA EarlierAnswered ==
  ASSUME NEW es \in Seq(Messages), NEW t \in Seq(Messages), Len(es) <= Len(t),
         \A x \in 1..Len(es) : t[x] = es[x],
         NEW c \in DOMAIN es, es[c].kind = "calls",
         NEW i \in 1..(c - 1), AnsweredAt(es, i)
  PROVE  AnsweredAt(t, i)
<1>1. /\ Len(es) \in Nat /\ Len(t) \in Nat /\ c \in 1..Len(es) /\ DOMAIN es = 1..Len(es)
      /\ i \in Nat /\ i < c
  BY LenProperties
<1>2. t[c] = es[c] /\ es[c].kind \notin ToolKinds /\ t[i] = es[i]
  BY <1>1 DEF ToolKinds
<1>3. ASSUME NEW j \in Nat
      PROVE  j \in Answers(t, i) <=> j \in Answers(es, i)
  <2>1. j \in Answers(t, i) => j < c
    BY <1>1, <1>2 DEF Answers
  <2>2. j \in Answers(es, i) => j < c
    BY <1>1, <1>2 DEF Answers
  <2>3. ASSUME j < c PROVE j \in Answers(t, i) <=> j \in Answers(es, i)
    <3>1. \A x \in (i + 1)..j : t[x] = es[x]
      BY <1>1, <2>3
    <3>2. j <= Len(es) /\ j <= Len(t)
      BY <1>1, <2>3
    <3>3. j \in (i + 1)..Len(t) <=> j \in (i + 1)..Len(es)
      BY <1>1, <3>2
    <3>4. (\A x \in (i + 1)..j : t[x].kind \in ToolKinds)
            <=> (\A x \in (i + 1)..j : es[x].kind \in ToolKinds)
      BY <3>1
    <3> QED
      BY <3>3, <3>4 DEF Answers
  <2> QED
    BY <2>1, <2>2, <2>3
<1>4. \A j \in Answers(t, i) : t[j].id = es[j].id
  <2>1. Answers(t, i) \subseteq Nat /\ Answers(es, i) \subseteq 1..Len(es)
    BY <1>1 DEF Answers
  <2>2. \A j \in Answers(t, i) : j \in 1..Len(es)
    BY <1>3, <2>1
  <2> QED
    BY <2>2
<1> QED
  BY <1>1, <1>2, <1>3, <1>4, AnsweredSame

\* The results that follow answer the calls one after the other.
LEMMA ResultsAnswer ==
  ASSUME NEW es \in Seq(Messages), NEW n \in CallIds, NEW k, Answering(es, k, n),
         NEW rest \in Seq(Messages), k + Len(rest) <= n,
         \A j \in 1..Len(rest) : /\ rest[j].kind \in ToolKinds
                                 /\ rest[j].id \in {NoId, k + j}
  PROVE  Answering(es \o rest, k + Len(rest), n)
<1> DEFINE t == es \o rest
           c == Len(es) - k
           h == Len(rest)
<1>1. /\ n \in Nat /\ k \in Nat /\ k <= n /\ h \in Nat /\ Len(es) \in Nat
      /\ c \in 1..Len(es) /\ DOMAIN es = 1..Len(es)
  BY PromptLogAssumption, LenProperties DEF CallIds, Answering
<1>2. /\ t \in Seq(Messages) /\ Len(t) = Len(es) + h /\ DOMAIN t = 1..(Len(es) + h)
      /\ \A i \in 1..Len(es) : t[i] = es[i]
      /\ \A j \in 1..h : t[Len(es) + j] = rest[j]
  BY <1>1, ConcatProperties, LenProperties
<1>3. /\ es[c].kind = "calls" /\ es[c].ids = 1..n
      /\ \A j \in 1..k : es[c + j].kind \in ToolKinds /\ es[c + j].id \in {NoId, j}
      /\ \A i \in 1..(c - 1) : es[i].kind = "calls" => AnsweredAt(es, i)
  BY DEF Answering
<1>4. Len(t) - (k + h) = c
  BY <1>1, <1>2
<1> HIDE DEF t, h
<1>5. Len(es) = c + k
  BY <1>1
<1> HIDE DEF c
<1>6. ASSUME NEW j \in 1..(k + h)
      PROVE  t[c + j].kind \in ToolKinds /\ t[c + j].id \in {NoId, j}
  <2>1. CASE j <= k
    BY <1>1, <1>2, <1>3, <1>5, <2>1
  <2>2. CASE j > k
    <3>1. j - k \in 1..h /\ c + j = Len(es) + (j - k) /\ k + (j - k) = j
      BY <1>1, <1>5, <2>2
    <3>2. t[c + j] = rest[j - k]
      BY <1>2, <3>1
    <3> QED
      BY <3>1, <3>2 DEF h
  <2> QED
    BY <1>1, <2>1, <2>2
<1>7. ASSUME NEW i \in 1..(c - 1), t[i].kind = "calls"
      PROVE  AnsweredAt(t, i)
  <2>1. t[i] = es[i] /\ AnsweredAt(es, i)
    BY <1>1, <1>2, <1>3, <1>7
  <2>2. Len(es) <= Len(t) /\ c \in DOMAIN es /\ es[c].kind = "calls"
    BY <1>1, <1>2, <1>3
  <2> QED
    BY <1>2, <2>1, <2>2, EarlierAnswered
<1>8. /\ c \in DOMAIN t /\ t[c].kind = "calls" /\ t[c].ids = 1..n /\ k + h \in 0..n
  BY <1>1, <1>2, <1>3 DEF h
<1> QED
  BY <1>4, <1>6, <1>7, <1>8 DEF Answering, t, h

\* The k-th result after the newest calls message answers its k-th call.
LEMMA ResultAnswers ==
  ASSUME NEW es \in Seq(Messages), NEW n \in CallIds, NEW k, Answering(es, k, n), k < n,
         NEW m \in Messages, m.kind \in ToolKinds, m.id \in {NoId, k + 1}
  PROVE  Answering(Append(es, m), k + 1, n)
<1>1. <<m>> \in Seq(Messages) /\ Len(<<m>>) = 1 /\ <<m>>[1] = m
  OBVIOUS
<1>2. k \in Nat /\ n \in Nat /\ k + 1 <= n
  BY PromptLogAssumption DEF Answering, CallIds
<1>3. Append(es, m) = es \o <<m>>
  BY AppendIsConcat
<1>4. \A j \in 1..Len(<<m>>) : /\ <<m>>[j].kind \in ToolKinds
                               /\ <<m>>[j].id \in {NoId, k + j}
  BY <1>1
<1> DEFINE rest == <<m>>
<1> HIDE DEF rest
<1>5. Answering(es \o rest, k + Len(rest), n)
  BY <1>1, <1>2, <1>4, ResultsAnswer DEF rest
<1> QED
  BY <1>1, <1>3, <1>5 DEF rest

\* With a result for each of its calls, the list can be sent.
LEMMA AnsweredValid ==
  ASSUME NEW es \in Seq(Messages), NEW n \in CallIds, Answering(es, n, n)
  PROVE  ListValid(es)
<1> DEFINE c == Len(es) - n
<1>1. /\ n \in Nat /\ Len(es) \in Nat /\ DOMAIN es = 1..Len(es) /\ c \in 1..Len(es)
      /\ es[c].kind = "calls" /\ es[c].ids = 1..n
      /\ \A j \in 1..n : es[c + j].kind \in ToolKinds /\ es[c + j].id \in {NoId, j}
      /\ \A i \in 1..(c - 1) : es[i].kind = "calls" => AnsweredAt(es, i)
  BY PromptLogAssumption, LenProperties DEF CallIds, Answering
<1>2. Len(es) = c + n
  BY <1>1
<1> HIDE DEF c
<1>3. \A j \in (c + 1)..Len(es) : es[j].kind \in ToolKinds /\ es[j].id \in {NoId, j - c}
  <2> TAKE j \in (c + 1)..Len(es)
  <2>1. j - c \in 1..n /\ c + (j - c) = j
    BY <1>1, <1>2
  <2> QED
    BY <1>1, <2>1
<1>4. Answers(es, c) = (c + 1)..Len(es)
  BY <1>1, <1>3 DEF Answers
<1>5. AnsweredAt(es, c)
  <2> DEFINE A == (c + 1)..Len(es)
             U == {j \in A : es[j].id = NoId}
             B == A \ U
             f == [j \in B |-> j - c]
  <2>0. c \in Nat /\ Len(es) \in Nat /\ n \in Nat /\ c + 1 \in Int /\ Len(es) \in Int
    BY <1>1
  <2>1. IsFiniteSet(A) /\ Cardinality(A) = n
    <3>1. IsFiniteSet(A) /\ Cardinality(A) = IF c + 1 > Len(es) THEN 0 ELSE Len(es) - (c + 1) + 1
      BY <2>0, FS_Interval
    <3> QED
      BY <1>2, <2>0, <3>1
  <2>2. IsFiniteSet(B) /\ Cardinality(B) + Cardinality(U) = n
    <3>1. IsFiniteSet(U) /\ U \subseteq A
      BY <2>1, FS_Subset
    <3>2. IsFiniteSet(B) /\ B \cap U = {} /\ B \cup U = A
      BY <2>1, FS_Subset
    <3>3. Cardinality(B \cup U) = Cardinality(B) + Cardinality(U) - Cardinality(B \cap U)
      <4> HIDE DEF A, U, B
      <4> QED
        BY <3>1, <3>2, FS_Union
    <3>4. Cardinality(B \cap U) = 0
      BY <3>2, FS_EmptySet
    <3>5. Cardinality(B) \in Nat /\ Cardinality(U) \in Nat
      BY <3>1, <3>2, FS_CardinalityType
    <3> HIDE DEF A, U, B
    <3>6. Cardinality(A) = Cardinality(B) + Cardinality(U) - 0
      BY <3>2, <3>3, <3>4, Zenon
    <3> QED
      BY <2>1, <3>2, <3>5, <3>6
  <2>3. Named(es, c) = {es[j].id : j \in B} /\ Unnamed(es, c) = U
    BY <1>4 DEF Named, Unnamed
  <2>4. \A j \in B : es[j].id = j - c /\ j - c \in 1..n
    BY <1>1, <1>2, <1>3
  <2>5. f \in Bijection(B, Named(es, c))
    <3>1. f \in [B -> Named(es, c)]
      BY <2>3, <2>4
    <3>2. \A a, b \in B : f[a] = f[b] => a = b
      BY <1>1
    <3>3. \A x \in Named(es, c) : \E j \in B : f[j] = x
      BY <2>3, <2>4
    <3> HIDE DEF f, B
    <3> QED
      BY <3>1, <3>2, <3>3 DEF Bijection, Injection, Surjection, IsInjective
  <2>6. Cardinality(Named(es, c)) = Cardinality(B)
    <3> HIDE DEF B, f
    <3> QED
      BY <2>2, <2>5, FS_Bijection DEF ExistsBijection
  <2>7. Named(es, c) \subseteq 1..n
    BY <2>3, <2>4
  <2>8. Cardinality(1..n) = n
    BY <1>1, FS_Interval
  <2> HIDE DEF A, U, B, f
  <2> QED
    BY <1>1, <2>2, <2>3, <2>6, <2>7, <2>8 DEF AnsweredAt
<1>6. \A i \in DOMAIN es : es[i].kind = "calls" => i <= c
  BY <1>1, <1>3 DEF ToolKinds
<1> QED
  BY <1>1, <1>5, <1>6 DEF ListValid

\* What a list holds from a message on.
LEMMA SuffixIs ==
  ASSUME NEW S, NEW es \in Seq(S), NEW d \in 0..Len(es)
  PROVE  LET t == SubSeq(es, d + 1, Len(es))
         IN  /\ t \in Seq(S) /\ Len(t) = Len(es) - d /\ DOMAIN t = 1..(Len(es) - d)
             /\ \A i \in 1..(Len(es) - d) : t[i] = es[i + d]
<1> DEFINE t == SubSeq(es, d + 1, Len(es))
<1>1. Len(es) \in Nat /\ d \in Nat /\ d <= Len(es)
  BY LenProperties
<1>2. d + 1 \in Nat \ {0} /\ Len(es) \in 0..Len(es)
  BY <1>1
<1>3. /\ t \in Seq(S)
      /\ Len(t) = IF d + 1 <= Len(es) THEN Len(es) - (d + 1) + 1 ELSE 0
      /\ \A i \in 1..(Len(es) - (d + 1) + 1) : t[i] = es[d + 1 + i - 1]
  BY <1>2, SubSeqType
<1> HIDE DEF t
<1>4. Len(t) = Len(es) - d
  <2>1. Len(t) = IF d + 1 <= Len(es) THEN Len(es) - (d + 1) + 1 ELSE 0
    BY <1>3
  <2> QED
    BY <1>1, <2>1
<1>5. DOMAIN t = 1..Len(t)
  BY <1>3, LenProperties
<1>6. \A i \in 1..(Len(es) - d) : t[i] = es[i + d]
  <2> TAKE i \in 1..(Len(es) - d)
  <2>1. i \in 1..(Len(es) - (d + 1) + 1) /\ d + 1 + i - 1 = i + d
    BY <1>1
  <2> QED
    BY <1>3, <2>1
<1> QED
  BY <1>3, <1>4, <1>5, <1>6 DEF t

\* A replayable list is replayable from any message on.
LEMMA SuffixValid ==
  ASSUME NEW es \in Seq(Messages), ListValid(es), NEW d \in 0..Len(es)
  PROVE  ListValid(SubSeq(es, d + 1, Len(es)))
<1> DEFINE t == SubSeq(es, d + 1, Len(es))
<1>1. Len(es) \in Nat /\ DOMAIN es = 1..Len(es) /\ d \in Nat /\ d <= Len(es)
  BY LenProperties
<1>2. /\ t \in Seq(Messages) /\ Len(t) = Len(es) - d /\ DOMAIN t = 1..(Len(es) - d)
      /\ \A i \in 1..(Len(es) - d) : t[i] = es[i + d]
  BY SuffixIs
<1> HIDE DEF t
<1>3. ASSUME NEW i \in DOMAIN t, t[i].kind = "calls"
      PROVE  AnsweredAt(t, i)
  <2>1. i \in Nat /\ 1 <= i /\ i <= Len(es) - d
    BY <1>1, <1>2
  <2>2. i + d \in DOMAIN es /\ t[i] = es[i + d]
    BY <1>1, <1>2, <2>1
  <2>3. AnsweredAt(es, i + d)
    BY <1>3, <2>2 DEF ListValid
  <2>4. \A x \in 1..Len(t) : t[x] = es[x + d]
    BY <1>2
  <2>5. ASSUME NEW j \in Nat
        PROVE  j \in Answers(t, i) <=> j + d \in Answers(es, i + d)
    <3>1. j \in (i + 1)..Len(t) <=> j + d \in (i + d + 1)..Len(es)
      BY <1>1, <1>2, <2>1
    <3>2. ASSUME j \in (i + 1)..Len(t), \A k \in (i + 1)..j : t[k].kind \in ToolKinds
          PROVE  \A k \in (i + d + 1)..(j + d) : es[k].kind \in ToolKinds
      <4> TAKE k \in (i + d + 1)..(j + d)
      <4>1. k - d \in (i + 1)..j /\ k - d \in 1..Len(t) /\ (k - d) + d = k
        BY <1>1, <1>2, <2>1, <3>2
      <4> QED
        BY <2>4, <3>2, <4>1
    <3>3. ASSUME j \in (i + 1)..Len(t), \A k \in (i + d + 1)..(j + d) : es[k].kind \in ToolKinds
          PROVE  \A k \in (i + 1)..j : t[k].kind \in ToolKinds
      <4> TAKE k \in (i + 1)..j
      <4>1. k + d \in (i + d + 1)..(j + d) /\ k \in 1..Len(t)
        BY <1>1, <1>2, <2>1, <3>3
      <4> QED
        BY <2>4, <3>3, <4>1
    <3> QED
      BY <3>1, <3>2, <3>3 DEF Answers
  <2>6. \A j \in Answers(t, i) : t[j].id = es[j + d].id
    BY <1>2, <2>1, <2>4 DEF Answers
  <2> QED
    BY <1>1, <1>2, <2>1, <2>2, <2>3, <2>5, <2>6, AnsweredShift
<1> QED
  BY <1>3 DEF ListValid, t

\* Only evidence messages show passages, and none of them names a call.
Shaped(es) ==
    \A i \in DOMAIN es : es[i].shown # {} => es[i].kind = "evidence" /\ es[i].id = NoId

\* The passages of ps that an answer in the list cites.
CitedOf(ps, es) == {p \in ps : p.label \in CitedLabels(es)}

\* Stage 1 of evict rewrites evidence messages only: what is left in their place shows
\* the passages an answer cites, and counts among the results as they did.
LEMMA DropAtShape ==
  ASSUME NEW es \in Seq(Messages), Shaped(es), NEW D \in SUBSET Droppable(es),
         NEW i \in DOMAIN es
  PROVE  LET m == DropAt(es, D)[i] IN
         /\ i \notin D => m = es[i]
         /\ i \in D => /\ es[i].kind = "evidence" /\ es[i].id = NoId
                      /\ m.kind \in {"evidence", "stub"} /\ m.id = NoId
                      /\ m.cites \subseteq es[i].cites
                      /\ m.shown = CitedOf(es[i].shown, es)
<1> DEFINE m == DropAt(es, D)[i]
           cited == CitedOf(es[i].shown, es)
<1>1. m = IF i \in D THEN CitedOnly(es[i], CitedLabels(es)) ELSE es[i]
  BY DropAtType
<1>2. ASSUME i \in D PROVE es[i].kind = "evidence" /\ es[i].id = NoId
  <2>1. es[i].shown # {}
    BY <1>2 DEF Droppable, LabelsOf
  <2> QED
    BY <2>1 DEF Shaped
<1>3. CASE i \in D /\ cited = {}
  <2>1. m = Message("stub")
    BY <1>1, <1>3 DEF CitedOnly, CitedOf
  <2> QED
    BY <1>2, <1>3, <2>1 DEF Message
<1>4. CASE i \in D /\ cited # {}
  <2>1. m = [es[i] EXCEPT !.shown = cited]
    BY <1>1, <1>4 DEF CitedOnly, CitedOf
  <2>2. es[i] \in Messages
    BY EntryType
  <2> HIDE DEF m, cited
  <2>3. /\ m.kind = es[i].kind /\ m.id = es[i].id /\ m.cites = es[i].cites
        /\ m.shown = cited
    BY <2>1, <2>2 DEF Messages
  <2> QED
    BY <1>2, <1>4, <2>3 DEF m, cited
<1>5. CASE i \notin D
  BY <1>1, <1>5
<1> QED
  BY <1>3, <1>4, <1>5

\* So it leaves every call answered.
LEMMA DropAtValid ==
  ASSUME NEW es \in Seq(Messages), Shaped(es), ListValid(es), NEW D \in SUBSET Droppable(es)
  PROVE  ListValid(DropAt(es, D)) /\ Shaped(DropAt(es, D))
<1> DEFINE t == DropAt(es, D)
<1>1. t \in Seq(Messages) /\ Len(t) = Len(es) /\ Len(es) \in Nat
      /\ DOMAIN es = 1..Len(es) /\ DOMAIN t = 1..Len(es)
  BY DropAtType, LenProperties
<1>2. \A i \in DOMAIN es :
        /\ i \notin D => t[i] = es[i]
        /\ i \in D => /\ es[i].kind = "evidence" /\ es[i].id = NoId
                     /\ t[i].kind \in {"evidence", "stub"} /\ t[i].id = NoId
                     /\ t[i].shown = CitedOf(es[i].shown, es)
  <2> TAKE i \in DOMAIN es
  <2> QED
    BY DropAtShape
<1>3. \A i \in DOMAIN es :
        /\ t[i].id = es[i].id
        /\ t[i].kind \in ToolKinds <=> es[i].kind \in ToolKinds
        /\ t[i].kind = "calls" => t[i] = es[i]
  BY <1>2 DEF ToolKinds
<1> HIDE DEF t
<1>4. ASSUME NEW i \in DOMAIN t, t[i].kind = "calls" PROVE AnsweredAt(t, i)
  <2>0. i \in DOMAIN es /\ i \in Nat /\ i >= 1
    BY <1>1
  <2>1. t[i] = es[i] /\ AnsweredAt(es, i)
    BY <1>3, <1>4, <2>0 DEF ListValid
  <2>2. ASSUME NEW j \in Nat
        PROVE  /\ j \in Answers(t, i) <=> j \in Answers(es, i)
               /\ j \in Answers(t, i) => t[j].id = es[j].id
    <3>1. CASE j \in (i + 1)..Len(es)
      <4>1. \A k \in (i + 1)..j : k \in DOMAIN es
        BY <1>1, <2>0, <3>1
      <4>2. j \in DOMAIN es
        BY <1>1, <2>0, <3>1
      <4> QED
        BY <1>1, <1>3, <3>1, <4>1, <4>2 DEF Answers
    <3> QED
      BY <1>1, <3>1 DEF Answers
  <2>3. Answers(t, i) \subseteq Nat
    BY <1>1, <2>0 DEF Answers
  <2> QED
    BY <1>1, <2>0, <2>1, <2>2, <2>3, AnsweredSame
<1>5. Shaped(t)
  <2> SUFFICES ASSUME NEW i \in DOMAIN t, t[i].shown # {}
               PROVE  t[i].kind = "evidence" /\ t[i].id = NoId
    BY DEF Shaped
  <2>1. CASE i \notin D
    BY <1>1, <1>2, <2>1 DEF Shaped
  <2>2. CASE i \in D
    <3>1. CitedOf(es[i].shown, es) # {}
      BY <1>1, <1>2, <2>2
    <3>3. t[i] = CitedOnly(es[i], CitedLabels(es))
      BY <1>1, <2>2, DropAtType DEF t
    <3>4. es[i] \in Messages
      BY <1>1, EntryType
    <3> QED
      BY <1>1, <1>2, <2>2, <3>1, <3>3, <3>4 DEF CitedOnly, CitedOf, Messages
  <2> QED
    BY <2>1, <2>2
<1> QED
  BY <1>4, <1>5 DEF ListValid, t

\* A list with a user message has a last one.
LEMMA LastStartExists ==
  ASSUME NEW es \in Seq(Messages), Starts(es) # {}
  PROVE  \E s \in Starts(es) : IsLastStart(es, s)
<1> DEFINE n == Len(es)
           T == {k \in Nat : k <= n /\ n - k \in Starts(es)}
<1>1. n \in Nat /\ DOMAIN es = 1..n
  BY LenProperties
<1>2. Starts(es) \subseteq 1..n
  BY <1>1 DEF Starts
<1> HIDE DEF n
<1>3. T # {}
  <2>1. PICK s \in Starts(es) : TRUE
    OBVIOUS
  <2>2. n - s \in Nat /\ n - s <= n /\ n - (n - s) = s
    BY <1>1, <1>2, <2>1
  <2> QED
    BY <2>1, <2>2
<1>4. PICK x \in T : \A y \in T : x <= y
  <2> HIDE DEF T
  <2>1. T \in SUBSET Nat
    BY DEF T
  <2> QED
    BY <1>3, <2>1, LeastElement
<1>5. ASSUME NEW r \in Starts(es) PROVE r <= n - x
  <2>1. n - r \in Nat /\ n - r <= n /\ n - (n - r) = r
    BY <1>1, <1>2, <1>5
  <2>2. x <= n - r
    BY <1>4, <1>5, <2>1
  <2> QED
    BY <1>1, <1>2, <1>4, <1>5, <2>2
<1> QED
  BY <1>4, <1>5 DEF IsLastStart

\* Stage 2 of evict cuts the log at the start of a turn: of the last one, or of one from
\* which it is short enough.
LEMMA CutAtStart ==
  ASSUME NEW es \in Seq(Messages), Starts(es) # {}, NEW protected
  PROVE  LET cut == Len(es) - KeepCount(protected, es)
         IN  \/ cut = 0 /\ ~OverCeiling(protected, es)
             \/ /\ cut + 1 \in Starts(es)
                /\ \/ IsLastStart(es, cut + 1)
                   \/ ~OverCeiling(protected, SubSeq(es, cut + 1, Len(es)))
<1> DEFINE n == Len(es)
           T == {s \in Starts(es) : \/ IsLastStart(es, s)
                                    \/ ~OverCeiling(protected, SubSeq(es, s, Len(es)))}
<1>1. n \in Nat /\ DOMAIN es = 1..n
  BY LenProperties
<1>2. T # {}
  BY LastStartExists
<1>3. T \in SUBSET (1..n) /\ T \subseteq Starts(es)
  BY <1>1 DEF Starts
<1>4. Kept(protected, es) = {i \in 1..n : \E s \in T : s <= i}
  BY <1>1 DEF Kept
<1>5. \A s \in T : s \in Starts(es) /\ (IsLastStart(es, s) \/ ~OverCeiling(protected, SubSeq(es, s, Len(es))))
  OBVIOUS
<1> HIDE DEF T
<1>6. PICK m \in T : \A s \in T : m <= s
  BY <1>1, <1>2, <1>3, LeastElement
<1>7. m \in 1..n /\ m \in Nat
  BY <1>1, <1>3
<1>8. Kept(protected, es) = m..n
  BY <1>1, <1>3, <1>4, <1>6, <1>7
<1>9. Cardinality(m..n) = n - m + 1
  <2>1. Cardinality(m..n) = IF m > n THEN 0 ELSE n - m + 1
    BY <1>1, <1>7, FS_Interval
  <2> QED
    BY <1>1, <1>7, <2>1
<1>10. CASE OverCeiling(protected, es)
  <2>1. KeepCount(protected, es) = n - m + 1
    BY <1>8, <1>9, <1>10 DEF KeepCount
  <2>2. n - KeepCount(protected, es) + 1 = m
    BY <1>1, <1>7, <2>1
  <2> QED
    BY <1>5, <1>6, <2>2
<1>11. CASE ~OverCeiling(protected, es)
  BY <1>1, <1>11 DEF KeepCount
<1> QED
  BY <1>10, <1>11

\* What evict leaves when it changes the log, with the reason for the cut: the messages
\* of stage 1 are cut nowhere, or at a start.
LEMMA EvictCut ==
  ASSUME NEW l \in Logs, Starts(l.entries) # {}, Shaped(l.entries)
  PROVE  \/ Evict(l) = l /\ ~OverCeiling(l.protected, l.entries)
         \/ \E D \in SUBSET Droppable(l.entries), cut \in 0..Len(l.entries) :
              LET es        == DropAt(l.entries, D)
                  kept      == SubSeq(es, cut + 1, Len(es))
                  protected == l.protected
                               \cup Reprefill(SubSeq(es, 1, cut), CitedLabels(kept),
                                              LabelsOf(l.protected \cup ShownIn(kept)))
              IN  /\ \/ cut = 0 /\ ~OverCeiling(l.protected, es)
                     \/ /\ cut + 1 \in Starts(es)
                        /\ \/ IsLastStart(es, cut + 1)
                           \/ ~OverCeiling(l.protected, kept)
                  /\ \/ Evict(l) = l /\ kept = l.entries
                     \/ Evict(l) = [l EXCEPT !.entries = kept, !.protected = protected,
                                             !.seen = IdsOf(protected \cup ShownIn(kept))]
<1> DEFINE D == Dropped(l.protected, l.entries)
           es == DropAt(l.entries, D)
           cut == Len(es) - KeepCount(l.protected, es)
           kept == SubSeq(es, cut + 1, Len(es))
           protected == l.protected
                        \cup Reprefill(SubSeq(es, 1, cut), CitedLabels(kept),
                                       LabelsOf(l.protected \cup ShownIn(kept)))
<1>1. l.entries \in Seq(Messages)
  BY DEF Logs
<1>2. es \in Seq(Messages) /\ Len(es) = Len(l.entries) /\ Len(es) \in Nat /\ DOMAIN es = DOMAIN l.entries
  BY <1>1, DropAtType, EntryType
<1>3. D \in SUBSET Droppable(l.entries)
  BY DEF Dropped
<1>4. cut \in 0..Len(l.entries)
  <2>1. KeepCount(l.protected, es) \in 0..Len(es)
    BY <1>2, KeepCountType
  <2> HIDE DEF es
  <2> QED
    BY <1>2, <2>1
<1>5. \/ Evict(l) = l /\ ~OverCeiling(l.protected, l.entries)
      \/ Evict(l) = l /\ kept = l.entries
      \/ Evict(l) = [l EXCEPT !.entries = kept, !.protected = protected,
                              !.seen = IdsOf(protected \cup ShownIn(kept))]
  BY Zenon DEF Evict, SeenAfter
<1>6. Starts(es) # {}
  <2>1. PICK i \in DOMAIN l.entries : l.entries[i].kind = "user"
    BY DEF Starts
  <2>2. es[i] = l.entries[i]
    BY <1>1, <1>3, <2>1, DropAtShape
  <2> HIDE DEF es
  <2> QED
    BY <1>2, <2>1, <2>2 DEF Starts
<1>7. \/ cut = 0 /\ ~OverCeiling(l.protected, es)
      \/ /\ cut + 1 \in Starts(es)
         /\ \/ IsLastStart(es, cut + 1)
            \/ ~OverCeiling(l.protected, kept)
  <2> HIDE DEF es, D
  <2> QED
    BY <1>2, <1>6, CutAtStart
<1> HIDE DEF D, es, cut
<1>8. CASE Evict(l) = l /\ ~OverCeiling(l.protected, l.entries)
  BY <1>8
<1>9. CASE ~(Evict(l) = l /\ ~OverCeiling(l.protected, l.entries))
  BY <1>3, <1>4, <1>5, <1>7, <1>9 DEF es
<1> QED
  BY <1>8, <1>9

-----------------------------------------------------------------------------
(* Logs in order *)

\* An answer is the last message of its turn.
Closes(es) ==
    \A i \in DOMAIN es : es[i].kind = "answer" => i = Len(es) \/ es[i + 1].kind = "user"

\* A log begins with a turn; nothing is protected before there is one.
Headed(l) ==
    IF l.entries = <<>> THEN l.protected = {} ELSE l.entries[1].kind = "user"

\* A held passage is named by a message.
Names(l) ==
    l.seen \subseteq IdsOf(l.protected \cup ShownIn(l.entries))
                     \cup UNION {l.entries[i].pasted : i \in DOMAIN l.entries}

Good(l) == l \in Logs /\ Shaped(l.entries) /\ Closes(l.entries) /\ Headed(l) /\ Names(l)

\* The newest turn has no answer yet.
InTurn(l) == l.entries # <<>> /\ l.entries[Len(l.entries)].kind # "answer"

\* A new lesson.
LEMMA EmptyLogGood == Good(EmptyLog) /\ IsValid(EmptyLog)
  BY EmptyLogType DEF Good, EmptyLog, Shaped, Closes, Headed, Names, IsValid

\* append_system.
LEMMA AppendSystemGood ==
  ASSUME NEW l, Good(l)
  PROVE  LET k == AppendSystem(l)
         IN  Good(k) /\ k.entries = l.entries /\ k.protected = l.protected
<1> DEFINE k == AppendSystem(l)
<1>1. k \in Logs /\ l \in Logs
  BY AppendSystemType DEF Good
<1>2. k.entries = l.entries /\ k.protected = l.protected /\ k.seen = l.seen
  BY <1>1 DEF AppendSystem, Logs
<1> HIDE DEF k
<1> QED
  BY <1>1, <1>2 DEF Good, Headed, Names, k

\* A message that shows nothing: one of the student's at any time, any other only while
\* the newest turn has no answer.
LEMMA AppendMsgGood ==
  ASSUME NEW l, Good(l), NEW m \in Messages, m.shown = {},
         m.kind = "user" \/ InTurn(l)
  PROVE  LET k == AppendMsg(l, m)
         IN  /\ Good(k) /\ k.entries = Append(l.entries, m) /\ k.entries # <<>>
             /\ m.kind # "answer" => InTurn(k)
<1> DEFINE es == l.entries
           k == AppendMsg(l, m)
           t == Append(es, m)
<1>1. /\ l \in Logs /\ k \in Logs /\ k.entries = t /\ k.protected = l.protected
      /\ k.seen = l.seen /\ es \in Seq(Messages)
  BY AppendMsgType DEF Good, AppendMsg, Logs
<1>2. /\ t \in Seq(Messages) /\ Len(t) = Len(es) + 1 /\ Len(es) \in Nat
      /\ DOMAIN es = 1..Len(es) /\ DOMAIN t = 1..(Len(es) + 1)
      /\ t[Len(es) + 1] = m /\ \A i \in 1..Len(es) : t[i] = es[i]
  BY <1>1, AppendProperties, LenProperties
<1>3. es = <<>> <=> Len(es) = 0
  BY <1>1, EmptySeq
<1> HIDE DEF t
<1>4. Shaped(t)
  BY <1>2 DEF Good, Shaped
<1>5. Closes(t)
  <2> SUFFICES ASSUME NEW i \in DOMAIN t, t[i].kind = "answer", i # Len(t)
               PROVE  t[i + 1].kind = "user"
    BY DEF Closes
  <2>1. i \in 1..Len(es) /\ es[i].kind = "answer" /\ i \in Nat
    BY <1>2
  <2>2. CASE i = Len(es)
    <3>1. m.kind = "user"
      BY <2>1, <2>2 DEF InTurn
    <3> QED
      BY <1>2, <2>2, <3>1
  <2>3. CASE i # Len(es)
    <3>1. es[i + 1].kind = "user" /\ i + 1 \in 1..Len(es)
      BY <1>2, <2>1, <2>3 DEF Good, Closes
    <3> QED
      BY <1>2, <3>1
  <2> QED
    BY <2>2, <2>3
<1>6. t[1].kind = "user" /\ t # <<>>
  <2>1. CASE es = <<>>
    BY <1>2, <1>3, <2>1 DEF InTurn
  <2>2. CASE es # <<>>
    <3>1. es[1].kind = "user" /\ 1 \in 1..Len(es)
      BY <1>2, <1>3, <2>2 DEF Good, Headed
    <3> QED
      BY <1>2, <3>1
  <2> QED
    BY <2>1, <2>2
<1>7. Headed(k)
  BY <1>1, <1>6 DEF Headed
<1>8. Names(k)
  <2>1. ShownIn(es) \subseteq ShownIn(t)
    BY <1>2 DEF ShownIn
  <2>2. UNION {es[i].pasted : i \in DOMAIN es} \subseteq UNION {t[i].pasted : i \in DOMAIN t}
    BY <1>2
  <2>3. IdsOf(l.protected \cup ShownIn(es)) \subseteq IdsOf(k.protected \cup ShownIn(t))
    BY <1>1, <2>1 DEF IdsOf
  <2> QED
    BY <1>1, <2>2, <2>3 DEF Good, Names
<1>9. m.kind # "answer" => InTurn(k)
  BY <1>1, <1>2, <1>6 DEF InTurn
<1> HIDE DEF k
<1> QED
  BY <1>1, <1>4, <1>5, <1>6, <1>7, <1>8, <1>9 DEF Good, k, t

\* append_evidence, while the newest turn has no answer: a passage of the packet that
\* the message does not show is held already.
LEMMA AppendEvidenceGood ==
  ASSUME NEW l, Good(l), InTurn(l), NEW ps \in SUBSET Shown, NEW reuse \in BOOLEAN
  PROVE  LET k == AppendEvidence(l, ps, reuse)
             m == EvidenceMsg(Display(ps, l.seen, reuse))
         IN  /\ Good(k) /\ InTurn(k) /\ k.entries = Append(l.entries, m)
             /\ k.protected = l.protected /\ k.system = l.system
             /\ m \in Messages /\ m.kind = "evidence" /\ m.id = NoId
<1> DEFINE es == l.entries
           shown == Display(ps, l.seen, reuse)
           m == EvidenceMsg(shown)
           k == AppendEvidence(l, ps, reuse)
           t == Append(es, m)
<1>0. shown \in SUBSET Shown
  BY DEF Display, Shown
<1>1. m \in Messages /\ m.kind = "evidence" /\ m.id = NoId /\ m.shown = shown
  BY <1>0, MessageTypes DEF EvidenceMsg, Message
<1>2. /\ l \in Logs /\ k \in Logs /\ k.entries = t /\ k.protected = l.protected
      /\ k.system = l.system /\ k.seen = l.seen \cup IdsOf(ps) /\ es \in Seq(Messages)
  BY AppendEvidenceType DEF Good, AppendEvidence, MarkHeld, AppendMsg, Logs
<1>3. /\ t \in Seq(Messages) /\ Len(t) = Len(es) + 1 /\ Len(es) \in Nat
      /\ DOMAIN es = 1..Len(es) /\ DOMAIN t = 1..(Len(es) + 1)
      /\ t[Len(es) + 1] = m /\ \A i \in 1..Len(es) : t[i] = es[i]
  BY <1>1, <1>2, AppendProperties, LenProperties
<1>4. es # <<>> /\ Len(es) # 0 /\ es[Len(es)].kind # "answer"
  BY <1>2, EmptySeq DEF InTurn
<1>5. IdsOf(ps) \subseteq l.seen \cup IdsOf(shown)
  <2> SUFFICES ASSUME NEW p \in ps PROVE p.id \in l.seen \cup IdsOf(shown)
    BY DEF IdsOf
  <2>1. CASE reuse
    <3> DEFINE q == [p EXCEPT !.full = p.id \notin l.seen]
    <3>1. p \in Shown /\ shown = {[r EXCEPT !.full = r.id \notin l.seen] : r \in ps}
      BY <2>1 DEF Display
    <3>2. q \in shown /\ q.id = p.id
      BY <3>1 DEF Shown
    <3> QED
      BY <3>2 DEF IdsOf
  <2>2. CASE ~reuse
    <3>1. shown = {r \in ps : r.id \notin l.seen}
      BY <2>2 DEF Display
    <3> QED
      BY <3>1 DEF IdsOf
  <2> QED
    BY <2>1, <2>2
<1> HIDE DEF t, m, shown
<1>6. Shaped(t)
  BY <1>1, <1>3 DEF Good, Shaped
<1>7. Closes(t)
  <2> SUFFICES ASSUME NEW i \in DOMAIN t, t[i].kind = "answer", i # Len(t)
               PROVE  t[i + 1].kind = "user"
    BY DEF Closes
  <2>1. i \in 1..Len(es) /\ es[i].kind = "answer" /\ i \in Nat /\ i # Len(es)
    BY <1>3, <1>4
  <2>2. es[i + 1].kind = "user" /\ i + 1 \in 1..Len(es)
    BY <1>3, <2>1 DEF Good, Closes
  <2> QED
    BY <1>3, <2>2
<1>8. t[1].kind = "user" /\ t # <<>>
  <2>1. es[1].kind = "user" /\ 1 \in 1..Len(es)
    BY <1>3, <1>4 DEF Good, Headed
  <2> QED
    BY <1>3, <2>1
<1>9. Names(k)
  <2>1. ShownIn(es) \cup shown \subseteq ShownIn(t)
    BY <1>1, <1>3 DEF ShownIn
  <2>2. UNION {es[i].pasted : i \in DOMAIN es} \subseteq UNION {t[i].pasted : i \in DOMAIN t}
    BY <1>3
  <2>3. IdsOf(l.protected \cup ShownIn(es)) \cup IdsOf(shown) \subseteq IdsOf(k.protected \cup ShownIn(t))
    BY <1>2, <2>1 DEF IdsOf
  <2> QED
    BY <1>2, <1>5, <2>2, <2>3 DEF Good, Names
<1>10. InTurn(k) /\ Headed(k)
  BY <1>1, <1>2, <1>3, <1>8 DEF InTurn, Headed
<1> HIDE DEF k
<1> QED
  BY <1>1, <1>2, <1>6, <1>7, <1>9, <1>10 DEF Good, k, t, m, shown

-----------------------------------------------------------------------------
(* What an eviction leaves *)

\* The rewritten messages from a start on are in order when the log was.
LEMMA KeptInOrder ==
  ASSUME NEW es \in Seq(Messages), Shaped(es), Closes(es), ListValid(es),
         NEW D \in SUBSET Droppable(es), NEW cut \in 0..Len(es),
         cut + 1 \in Starts(DropAt(es, D))
  PROVE  LET t    == DropAt(es, D)
             kept == SubSeq(t, cut + 1, Len(t))
         IN  /\ kept \in Seq(Messages) /\ kept # <<>> /\ kept[1].kind = "user"
             /\ Shaped(kept) /\ Closes(kept) /\ ListValid(kept)
             /\ es[Len(es)].kind # "answer" => kept[Len(kept)].kind # "answer"
<1> DEFINE t == DropAt(es, D)
           n == Len(es)
           kept == SubSeq(t, cut + 1, Len(t))
<1>1. /\ t \in Seq(Messages) /\ Len(t) = n /\ n \in Nat /\ DOMAIN es = 1..n /\ DOMAIN t = 1..n
      /\ cut \in Nat /\ cut <= n
  BY DropAtType, LenProperties
<1>2. \A i \in 1..n : t[i].kind = es[i].kind \/ (es[i].kind = "evidence" /\ t[i].kind = "stub")
  <2> TAKE i \in 1..n
  <2>1. i \in DOMAIN es
    BY <1>1
  <2>2. /\ i \notin D => t[i] = es[i]
        /\ i \in D => es[i].kind = "evidence" /\ t[i].kind \in {"evidence", "stub"}
    BY <2>1, DropAtShape
  <2> QED
    BY <2>2
<1>3. ListValid(t) /\ Shaped(t)
  BY DropAtValid
<1>4. cut + 1 \in 1..n /\ t[cut + 1].kind = "user"
  BY <1>1 DEF Starts
<1> HIDE DEF t
<1>5. /\ kept \in Seq(Messages) /\ Len(kept) = n - cut /\ DOMAIN kept = 1..(n - cut)
      /\ \A i \in 1..(n - cut) : kept[i] = t[i + cut]
  <2>1. cut \in 0..Len(t)
    BY <1>1
  <2>2. /\ kept \in Seq(Messages) /\ Len(kept) = Len(t) - cut /\ DOMAIN kept = 1..(Len(t) - cut)
        /\ \A i \in 1..(Len(t) - cut) : kept[i] = t[i + cut]
    BY <1>1, <2>1, SuffixIs
  <2> QED
    BY <1>1, <2>2
<1>6. ListValid(kept)
  BY <1>1, <1>3, SuffixValid
<1> HIDE DEF kept, n
<1>7. \A i \in 1..(n - cut) : i + cut \in 1..n /\ kept[i] = t[i + cut] /\ i \in Nat
  BY <1>1, <1>5
<1>8. Shaped(kept)
  <2> SUFFICES ASSUME NEW i \in 1..(n - cut), kept[i].shown # {}
               PROVE  kept[i].kind = "evidence" /\ kept[i].id = NoId
    BY <1>5 DEF Shaped
  <2>1. i + cut \in DOMAIN t /\ kept[i] = t[i + cut]
    BY <1>1, <1>7
  <2> QED
    BY <1>3, <2>1 DEF Shaped
<1>9. Closes(kept)
  <2> SUFFICES ASSUME NEW i \in 1..(n - cut), kept[i].kind = "answer", i # n - cut
               PROVE  kept[i + 1].kind = "user"
    BY <1>5 DEF Closes
  <2>1. i + cut \in 1..n /\ t[i + cut].kind = "answer" /\ i + cut # n
    BY <1>1, <1>7
  <2>2. es[i + cut].kind = "answer"
    BY <1>2, <2>1
  <2>3. es[i + cut + 1].kind = "user"
    BY <1>1, <2>1, <2>2 DEF Closes, n
  <2>4. i + cut + 1 \in 1..n /\ i + 1 \in 1..(n - cut) /\ (i + 1) + cut = i + cut + 1
    BY <1>1, <2>1
  <2>5. t[i + cut + 1].kind = "user"
    BY <1>2, <2>3, <2>4
  <2> QED
    BY <1>7, <2>4, <2>5
<1>10. kept[1].kind = "user" /\ kept # <<>>
  <2>1. 1 \in 1..(n - cut) /\ 1 + cut = cut + 1
    BY <1>1, <1>4
  <2> QED
    BY <1>4, <1>5, <1>7, <2>1
<1>11. es[n].kind # "answer" => kept[Len(kept)].kind # "answer"
  <2>1. n - cut \in 1..(n - cut) /\ n - cut + cut = n /\ n \in 1..n
    BY <1>1, <1>4
  <2> QED
    BY <1>2, <1>5, <1>7, <2>1
<1> QED
  BY <1>5, <1>6, <1>8, <1>9, <1>10, <1>11 DEF kept, t, n

\* evict keeps a log in order, and the turn it is in.
LEMMA EvictGood ==
  ASSUME NEW l, Good(l), IsValid(l), l.entries # <<>>
  PROVE  LET k == Evict(l)
         IN  /\ Good(k) /\ IsValid(k) /\ k.entries # <<>> /\ k.system = l.system
             /\ InTurn(l) => InTurn(k)
             /\ OverCeiling(k.protected, k.entries) =>
                   k.protected # {} \/ Cardinality(Starts(k.entries)) = 1
<1> DEFINE k == Evict(l)
           old == l.entries
<1>1. l \in Logs /\ k \in Logs /\ old \in Seq(Messages) /\ Len(old) \in Nat /\ DOMAIN old = 1..Len(old)
  BY EvictType, LenProperties DEF Good, Logs
<1>2. Len(old) # 0 /\ old[1].kind = "user" /\ 1 \in DOMAIN old
  BY <1>1, EmptySeq DEF Good, Headed
<1>3. Starts(old) # {} /\ Shaped(old) /\ Closes(old) /\ ListValid(old)
  BY <1>2 DEF Starts, Good, IsValid, ListValid
<1>4. CASE k = l /\ ~OverCeiling(l.protected, old)
  BY <1>4
<1>5. CASE ~(k = l /\ ~OverCeiling(l.protected, old))
  <2>1. PICK D \in SUBSET Droppable(old), cut \in 0..Len(old) :
              LET es        == DropAt(old, D)
                  kept      == SubSeq(es, cut + 1, Len(es))
                  protected == l.protected
                               \cup Reprefill(SubSeq(es, 1, cut), CitedLabels(kept),
                                              LabelsOf(l.protected \cup ShownIn(kept)))
              IN  /\ \/ cut = 0 /\ ~OverCeiling(l.protected, es)
                     \/ /\ cut + 1 \in Starts(es)
                        /\ \/ IsLastStart(es, cut + 1)
                           \/ ~OverCeiling(l.protected, kept)
                  /\ \/ k = l /\ kept = old
                     \/ k = [l EXCEPT !.entries = kept, !.protected = protected,
                                      !.seen = IdsOf(protected \cup ShownIn(kept))]
    BY <1>1, <1>3, <1>5, EvictCut
  <2> DEFINE es == DropAt(old, D)
             kept == SubSeq(es, cut + 1, Len(es))
             put == Reprefill(SubSeq(es, 1, cut), CitedLabels(kept),
                              LabelsOf(l.protected \cup ShownIn(kept)))
             protected == l.protected \cup put
  <2>2. es \in Seq(Messages) /\ Len(es) = Len(old) /\ DOMAIN es = 1..Len(old)
    BY <1>1, DropAtType, LenProperties
  <2>3. 1 \in Starts(es)
    <3>1. es[1] = old[1]
      BY <1>1, <1>2, <1>3, DropAtShape
    <3> HIDE DEF es
    <3> QED
      BY <1>1, <1>2, <2>2, <3>1 DEF Starts
  <2>4. cut + 1 \in Starts(es)
    <3>1. cut = 0 \/ cut + 1 \in Starts(es)
      BY <2>1
    <3>2. cut \in Nat /\ (cut = 0 => cut + 1 = 1)
      BY <1>1
    <3> HIDE DEF es
    <3> QED
      BY <2>3, <3>1, <3>2
  <2>5. /\ kept \in Seq(Messages) /\ kept # <<>> /\ kept[1].kind = "user"
        /\ Shaped(kept) /\ Closes(kept) /\ ListValid(kept)
        /\ old[Len(old)].kind # "answer" => kept[Len(kept)].kind # "answer"
    BY <1>1, <1>3, <2>4, KeptInOrder
  <2>6. \/ k = l /\ kept = old
        \/ k = [l EXCEPT !.entries = kept, !.protected = protected,
                         !.seen = IdsOf(protected \cup ShownIn(kept))]
    BY <2>1
  <2> HIDE DEF kept, put
  <2>7. /\ k.entries = kept /\ k.system = l.system
        /\ k = l \/ (k.protected = protected /\ k.seen = IdsOf(protected \cup ShownIn(kept)))
    BY <1>1, <2>6 DEF Logs
  <2>8. Names(k)
    BY <2>7 DEF Good, Names
  <2>9. Headed(k) /\ Shaped(k.entries) /\ Closes(k.entries) /\ IsValid(k)
    BY <2>5, <2>7 DEF Headed, IsValid, ListValid
  <2>10. InTurn(l) => InTurn(k)
    BY <2>5, <2>7 DEF InTurn
  <2>11. ASSUME OverCeiling(k.protected, kept), k.protected = {}
         PROVE  Cardinality(Starts(kept)) = 1
    <3>1. l.protected = {}
      BY <2>7, <2>11
    <3>2. OverCeiling(l.protected, kept)
      BY <2>11, <3>1
    <3>3. IsLastStart(es, cut + 1)
      <4>1. cut = 0 => kept = es
        <5>1. cut = 0 => cut + 1 = 1
          OBVIOUS
        <5>2. SubSeq(es, 1, Len(es)) = es
          BY <2>2, SubSeqProperties, SeqDef
        <5> QED
          BY <5>1, <5>2, Zenon DEF kept
      <4>2. \/ cut = 0 /\ ~OverCeiling(l.protected, es)
            \/ IsLastStart(es, cut + 1) \/ ~OverCeiling(l.protected, kept)
        BY <2>1 DEF kept
      <4> HIDE DEF es
      <4> QED
        BY <3>2, <4>1, <4>2
    <3>4. /\ Len(kept) = Len(old) - cut /\ DOMAIN kept = 1..(Len(old) - cut)
          /\ \A i \in 1..(Len(old) - cut) : kept[i] = es[i + cut]
      BY <2>2, SuffixIs DEF kept
    <3> HIDE DEF es
    <3>5. \A i \in Starts(kept) : i = 1
      <4> TAKE i \in Starts(kept)
      <4>1. i \in 1..(Len(old) - cut) /\ kept[i].kind = "user" /\ cut \in Nat
        BY <1>1, <3>4 DEF Starts
      <4>2. i + cut \in 1..Len(old) /\ es[i + cut].kind = "user"
        BY <1>1, <3>4, <4>1
      <4>3. i + cut \in Starts(es)
        BY <2>2, <4>2 DEF Starts
      <4>4. i + cut <= cut + 1
        BY <3>3, <4>3 DEF IsLastStart
      <4> QED
        BY <1>1, <4>1, <4>4
    <3>6. 1 \in Starts(kept)
      <4>1. 1 \in DOMAIN kept
        BY <2>5, EmptySeq, LenProperties
      <4> QED
        BY <2>5, <4>1 DEF Starts
    <3>7. Starts(kept) = {1}
      BY <3>5, <3>6
    <3> QED
      BY <3>7, FS_Singleton
  <2>12. Good(k)
    BY <1>1, <2>8, <2>9 DEF Good
  <2>13. k.entries # <<>> /\ k.entries = kept /\ k.system = l.system
    BY <2>5, <2>7
  <2> HIDE DEF k
  <2> QED
    BY <2>9, <2>10, <2>11, <2>12, <2>13 DEF k
<1> QED
  BY <1>3, <1>4, <1>5

\* Putting back: a wanted label that a removed message shows, and nothing else does, is
\* shown by what is put back.
LEMMA ReprefillShows ==
  ASSUME NEW removed \in Seq(Messages), NEW needed, NEW have, NEW x \in needed, x \notin have,
         NEW i \in DOMAIN removed, x \in LabelsOf(removed[i].shown)
  PROVE  x \in LabelsOf(Reprefill(removed, needed, have))
<1> DEFINE T == {j \in DOMAIN removed : x \in LabelsOf(removed[j].shown)}
<1>1. Len(removed) \in Nat /\ DOMAIN removed = 1..Len(removed)
  BY LenProperties
<1>2. T \in SUBSET Nat /\ T # {} /\ T \subseteq DOMAIN removed
  BY <1>1
<1>3. \A j \in T : x \in LabelsOf(removed[j].shown)
  OBVIOUS
<1>4. \A j \in DOMAIN removed : x \in LabelsOf(removed[j].shown) => j \in T
  OBVIOUS
<1> HIDE DEF T
<1>5. PICK j \in T : \A y \in T : j <= y
  BY <1>2, LeastElement
<1>6. PICK p \in removed[j].shown : p.label = x
  BY <1>3 DEF LabelsOf
<1>7. j \in DOMAIN removed /\ j \in Nat
  BY <1>2
<1>8. \A y \in 1..(j - 1) : p.label \notin LabelsOf(removed[y].shown)
  <2> TAKE y \in 1..(j - 1)
  <2>1. y \in DOMAIN removed /\ ~(j <= y)
    BY <1>1, <1>7
  <2> QED
    BY <1>4, <1>5, <1>6, <2>1
<1>9. p \in Reprefill(removed, needed, have)
  BY <1>6, <1>7, <1>8 DEF Reprefill
<1> QED
  BY <1>6, <1>9 DEF LabelsOf

\* evict keeps every passage that an answer it leaves cites by its label.
LEMMA EvictCites ==
  ASSUME NEW l, Good(l), l.entries # <<>>
  PROVE  LET k == Evict(l)
         IN  CitedLabels(k.entries) \cap LabelsOf(l.protected \cup ShownIn(l.entries))
                \subseteq LabelsOf(k.protected \cup ShownIn(k.entries))
<1> DEFINE k == Evict(l)
           old == l.entries
<1>1. l \in Logs /\ k \in Logs /\ old \in Seq(Messages) /\ Len(old) \in Nat /\ DOMAIN old = 1..Len(old)
  BY EvictType, LenProperties DEF Good, Logs
<1>2. Starts(old) # {} /\ Shaped(old)
  <2>1. old[1].kind = "user" /\ 1 \in DOMAIN old
    BY <1>1, EmptySeq DEF Good, Headed
  <2> QED
    BY <2>1 DEF Starts, Good
<1>3. CASE k = l
  BY <1>3
<1>4. CASE k # l
  <2>1. PICK D \in SUBSET Droppable(old), cut \in 0..Len(old) :
              LET es        == DropAt(old, D)
                  kept      == SubSeq(es, cut + 1, Len(es))
                  protected == l.protected
                               \cup Reprefill(SubSeq(es, 1, cut), CitedLabels(kept),
                                              LabelsOf(l.protected \cup ShownIn(kept)))
              IN  k = [l EXCEPT !.entries = kept, !.protected = protected,
                                !.seen = IdsOf(protected \cup ShownIn(kept))]
    BY <1>1, <1>2, <1>4, EvictCut
  <2> DEFINE es == DropAt(old, D)
             kept == SubSeq(es, cut + 1, Len(es))
             removed == SubSeq(es, 1, cut)
             have == LabelsOf(l.protected \cup ShownIn(kept))
             put == Reprefill(removed, CitedLabels(kept), have)
  <2>2. es \in Seq(Messages) /\ Len(es) = Len(old) /\ DOMAIN es = 1..Len(old)
    BY <1>1, DropAtType, LenProperties
  <2>3. \A i \in 1..Len(old) : es[i].cites \subseteq old[i].cites
    <3> TAKE i \in 1..Len(old)
    <3>1. i \in DOMAIN old
      BY <1>1
    <3>2. (i \notin D => es[i] = old[i]) /\ (i \in D => es[i].cites \subseteq old[i].cites)
      BY <1>1, <1>2, <3>1, DropAtShape
    <3> QED
      BY <3>2
  <2>4. k.entries = kept /\ k.protected = l.protected \cup put
    BY <1>1, <2>1 DEF Logs
  <2>5. ASSUME NEW i \in 1..Len(old), NEW p \in old[i].shown, p.label \in CitedLabels(old)
        PROVE  p \in es[i].shown
    <3>1. i \in DOMAIN old
      BY <1>1
    <3>2. (i \notin D => es[i] = old[i]) /\ (i \in D => es[i].shown = CitedOf(old[i].shown, old))
      BY <1>1, <1>2, <3>1, DropAtShape
    <3> QED
      BY <2>5, <3>2 DEF CitedOf
  <2> HIDE DEF es
  <2>6. cut \in 0..Len(es) /\ cut \in Nat /\ cut <= Len(old)
    BY <1>1, <2>2
  <2>7. /\ kept \in Seq(Messages) /\ DOMAIN kept = 1..(Len(old) - cut)
        /\ \A i \in 1..(Len(old) - cut) : kept[i] = es[i + cut]
    BY <2>2, <2>6, SuffixIs
  <2>8. /\ removed \in Seq(Messages) /\ DOMAIN removed = 1..cut
        /\ \A i \in 1..cut : removed[i] = es[i]
    <3>1. /\ removed \in Seq(Messages)
          /\ Len(removed) = IF 1 <= cut THEN cut - 1 + 1 ELSE 0
          /\ \A i \in 1..(cut - 1 + 1) : removed[i] = es[1 + i - 1]
      <4>1. 1 \in Nat \ {0}
        OBVIOUS
      <4> QED
        BY <2>2, <2>6, <4>1, SubSeqType
    <3> HIDE DEF removed
    <3>2. Len(removed) = cut
      BY <2>6, <3>1
    <3>3. \A i \in 1..cut : removed[i] = es[i]
      <4> TAKE i \in 1..cut
      <4>1. i \in 1..(cut - 1 + 1) /\ 1 + i - 1 = i
        BY <2>6
      <4> QED
        BY <3>1, <4>1
    <3> QED
      BY <3>1, <3>2, <3>3, LenProperties
  <2> HIDE DEF kept, removed
  <2>9. CitedLabels(kept) \subseteq CitedLabels(old)
    <3> SUFFICES ASSUME NEW i \in DOMAIN kept, NEW x \in kept[i].cites
                 PROVE  x \in CitedLabels(old)
      BY DEF CitedLabels
    <3>1. i + cut \in 1..Len(old) /\ kept[i] = es[i + cut]
      BY <1>1, <2>6, <2>7
    <3> QED
      BY <1>1, <2>3, <3>1 DEF CitedLabels
  <2> SUFFICES ASSUME NEW x \in CitedLabels(kept), x \in LabelsOf(l.protected \cup ShownIn(old))
               PROVE  x \in LabelsOf((l.protected \cup put) \cup ShownIn(kept))
    BY <2>4
  <2>10. PICK p \in l.protected \cup ShownIn(old) : p.label = x
    BY DEF LabelsOf
  <2>11. CASE p \in l.protected
    BY <2>10, <2>11 DEF LabelsOf
  <2>12. CASE p \in ShownIn(old)
    <3>1. PICK i \in 1..Len(old) : p \in old[i].shown
      BY <1>1, <2>12 DEF ShownIn
    <3>2. p \in es[i].shown /\ i \in Nat
      BY <2>5, <2>9, <2>10, <3>1
    <3>3. CASE i > cut
      <4>1. i - cut \in 1..(Len(old) - cut) /\ (i - cut) + cut = i
        BY <1>1, <2>6, <3>2, <3>3
      <4>2. p \in ShownIn(kept)
        BY <2>7, <3>2, <4>1 DEF ShownIn
      <4> QED
        BY <2>10, <4>2 DEF LabelsOf
    <3>4. CASE i <= cut
      <4>1. i \in DOMAIN removed /\ removed[i] = es[i]
        BY <2>6, <2>8, <3>2, <3>4
      <4>2. x \in LabelsOf(removed[i].shown)
        BY <2>10, <3>2, <4>1 DEF LabelsOf
      <4>3. CASE x \in have
        BY <4>3 DEF LabelsOf
      <4>4. CASE x \notin have
        <5>1. x \in LabelsOf(put)
          <6> HIDE DEF have
          <6> QED
            BY <2>8, <4>1, <4>2, <4>4, ReprefillShows
        <5> QED
          BY <5>1 DEF LabelsOf
      <4> QED
        BY <4>3, <4>4
    <3> QED
      BY <2>6, <3>2, <3>3, <3>4
  <2> QED
    BY <2>10, <2>11, <2>12
<1> QED
  BY <1>3, <1>4

-----------------------------------------------------------------------------
(* Rendering *)

\* What render puts before the turns.
Preamble(l) ==
    (IF l.system THEN <<Message("system")>> ELSE <<>>)
    \o [i \in 1..Cardinality(l.protected) |-> EvidenceMsg({SetToSeq(l.protected)[i]})]

\* The preamble is the system message, if there is one, and each protected passage once.
LEMMA PreambleIs ==
  ASSUME NEW l \in Logs
  PROVE  LET c == IF l.system THEN 1 ELSE 0
             n == Cardinality(l.protected)
             p == Preamble(l)
         IN  /\ n \in Nat /\ p \in Seq(Messages) /\ Len(p) = c + n
             /\ c = 1 => p[1] = Message("system")
             /\ \A i \in 1..n : /\ p[c + i].kind = "evidence"
                                /\ \E s \in l.protected : p[c + i].shown = {s}
             /\ \A s \in l.protected : \E i \in 1..n : p[c + i].shown = {s}
<1> DEFINE n == Cardinality(l.protected)
           order == SetToSeq(l.protected)
           lead == [i \in 1..n |-> EvidenceMsg({order[i]})]
           system == IF l.system THEN <<Message("system")>> ELSE <<>>
           c == IF l.system THEN 1 ELSE 0
           p == Preamble(l)
<1>1. IsFiniteSet(l.protected) /\ l.protected \subseteq Shown /\ l.system \in BOOLEAN
  BY ShownFinite, FS_Subset DEF Logs
<1>2. /\ n \in Nat /\ order \in [1..n -> l.protected]
      /\ \A a, b \in 1..n : order[a] = order[b] => a = b
  BY <1>1, SetToSeqType
<1>3. \A s \in l.protected : \E i \in 1..n : order[i] = s
  <2> HIDE DEF order, n
  <2>1. order \in Injection(1..n, l.protected)
    BY <1>2 DEF Injection, IsInjective
  <2>2. Cardinality(1..n) = n
    <3>1. Cardinality(1..n) = IF 1 > n THEN 0 ELSE n - 1 + 1
      BY <1>2, FS_Interval
    <3> QED
      BY <1>2, <3>1
  <2>3. order \in Surjection(1..n, l.protected)
    <3>1. Cardinality(1..n) = Cardinality(l.protected)
      BY <2>2 DEF n
    <3> QED
      BY <1>1, <2>1, <3>1, FS_Injection
  <2> QED
    BY <2>3 DEF Surjection
<1>4. lead \in [1..n -> Messages]
      /\ \A i \in 1..n : lead[i].kind = "evidence" /\ lead[i].shown = {order[i]}
  BY <1>1, <1>2, MessageTypes DEF EvidenceMsg, Message
<1>5. lead \in Seq(Messages) /\ Len(lead) = n
  <2> HIDE DEF lead, n
  <2> QED
    BY <1>2, <1>4, FcnIsSeq
<1>6. /\ system \in Seq(Messages) /\ Len(system) = c
      /\ c = 1 => system[1] = Message("system")
  <2>1. Message("system") \in Messages
    BY MessageType DEF Kinds
  <2> QED
    BY <1>1, <2>1, EmptySeq
<1>7. p = system \o lead
  BY DEF Preamble
<1>8. c \in {0, 1}
  OBVIOUS
<1> HIDE DEF n, order, lead, system, p, c
<1>9. /\ p \in Seq(Messages) /\ Len(p) = c + n
      /\ \A i \in 1..(c + n) : p[i] = IF i <= c THEN system[i] ELSE lead[i - c]
  BY <1>5, <1>6, <1>7, ConcatProperties
<1>10. \A i \in 1..n : p[c + i] = lead[i]
  <2> TAKE i \in 1..n
  <2>1. c + i \in 1..(c + n) /\ ~(c + i <= c) /\ (c + i) - c = i
    BY <1>2, <1>8
  <2> QED
    BY <1>9, <2>1
<1>11. c = 1 => p[1] = Message("system")
  BY <1>2, <1>6, <1>9
<1>12. \A i \in 1..n : /\ p[c + i].kind = "evidence"
                       /\ \E s \in l.protected : p[c + i].shown = {s}
  BY <1>2, <1>4, <1>10
<1>13. \A s \in l.protected : \E i \in 1..n : p[c + i].shown = {s}
  BY <1>3, <1>4, <1>10
<1> QED
  BY <1>2, <1>9, <1>11, <1>12, <1>13 DEF n, c, p

\* Lists of messages are joined in any grouping.
LEMMA Regroup ==
  ASSUME NEW a \in Seq(Messages), NEW b \in Seq(Messages), NEW c \in Seq(Messages)
  PROVE  (a \o b) \o c = a \o (b \o c)
  BY ConcatAssociative

\* The rendered list is the preamble and the turns.
LEMMA RenderIs ==
  ASSUME NEW l \in Logs
  PROVE  /\ Preamble(l) \in Seq(Messages) /\ l.entries \in Seq(Messages)
         /\ Render(l) = Preamble(l) \o l.entries
<1>1. Preamble(l) \in Seq(Messages)
  BY PreambleIs
<1>2. l.entries \in Seq(Messages)
  BY DEF Logs
<1>3. /\ (IF l.system THEN <<Message("system")>> ELSE <<>>) \in Seq(Messages)
      /\ [i \in 1..Cardinality(l.protected) |-> EvidenceMsg({SetToSeq(l.protected)[i]})]
            \in Seq(Messages)
  <2>1. Message("system") \in Messages
    BY MessageType DEF Kinds
  <2>2. IsFiniteSet(l.protected) /\ l.protected \subseteq Shown
    BY ShownFinite, FS_Subset DEF Logs
  <2>3. /\ Cardinality(l.protected) \in Nat
        /\ SetToSeq(l.protected) \in [1..Cardinality(l.protected) -> l.protected]
    BY <2>2, SetToSeqType
  <2>4. [i \in 1..Cardinality(l.protected) |-> EvidenceMsg({SetToSeq(l.protected)[i]})]
           \in [1..Cardinality(l.protected) -> Messages]
    BY <2>2, <2>3, MessageTypes
  <2>5. [i \in 1..Cardinality(l.protected) |-> EvidenceMsg({SetToSeq(l.protected)[i]})]
            \in Seq(Messages)
    BY <2>3, <2>4, FcnIsSeq
  <2> QED
    BY <2>1, <2>5, EmptySeq
<1>4. Render(l) = Preamble(l) \o l.entries
  BY <1>2, <1>3, ConcatAssociative DEF Render, Preamble
<1> QED
  BY <1>1, <1>2, <1>4

\* A list is a prefix of what is appended to it.
LEMMA PrefixOfConcat ==
  ASSUME NEW S, NEW s \in Seq(S), NEW u \in Seq(S)
  PROVE  IsPrefix(s, s \o u)
<1>1. /\ Len(s) \in Nat /\ Len(u) \in Nat /\ s \o u \in Seq(S)
      /\ Len(s \o u) = Len(s) + Len(u)
  BY LenProperties, ConcatProperties
<1>2. SubSeq(s, 1, Len(s)) = SubSeq(s \o u, 1, Len(s))
  <2>1. CASE Len(s) = 0
    <3>1. SubSeq(s, 1, 0) = <<>> /\ SubSeq(s \o u, 1, 0) = <<>>
      BY SubSeqEmpty
    <3> QED
      BY <2>1, <3>1
  <2>2. CASE Len(s) # 0
    <3>1. 1 \in 1..Len(s) /\ Len(s) \in 1..Len(s)
      BY <1>1, <2>2
    <3> QED
      BY <3>1, SubSeqOfConcat1
  <2> QED
    BY <2>1, <2>2
<1> QED
  BY <1>1, <1>2 DEF IsPrefix

\* k is l with more messages at its end, or with its system message put first.
Extends(l, k) ==
    /\ k \in Logs /\ k.protected = l.protected
    /\ \E u \in Seq(Messages) : k.entries = l.entries \o u
    /\ k.system = l.system \/ (~l.system /\ l.entries = <<>> /\ l.protected = {})

\* Then the list sent for l is a prefix of the one sent for k.
LEMMA ExtendsPrefix ==
  ASSUME NEW l \in Logs, NEW k, Extends(l, k)
  PROVE  IsPrefix(Render(l), Render(k))
<1>1. PICK u \in Seq(Messages) : k.entries = l.entries \o u
  BY DEF Extends
<1>2. k \in Logs /\ k.protected = l.protected
  BY DEF Extends
<1>3. CASE k.system = l.system
  <2>1. Preamble(k) = Preamble(l)
    BY <1>2, <1>3 DEF Preamble
  <2>2. Render(k) = Render(l) \o u
    <3>1. /\ Preamble(l) \in Seq(Messages) /\ l.entries \in Seq(Messages)
          /\ Render(l) = Preamble(l) \o l.entries /\ Render(k) = Preamble(k) \o k.entries
      BY <1>2, RenderIs
    <3>2. (Preamble(l) \o l.entries) \o u = Preamble(l) \o (l.entries \o u)
      BY <3>1, Regroup
    <3> QED
      BY <1>1, <2>1, <3>1, <3>2
  <2> QED
    BY <2>2, RenderType, PrefixOfConcat
<1>4. CASE ~l.system /\ l.entries = <<>> /\ l.protected = {}
  <2>1. Preamble(l) \in Seq(Messages) /\ Len(Preamble(l)) = 0
    <3>1. Cardinality(l.protected) = 0
      BY <1>4, FS_EmptySet
    <3> QED
      BY <1>4, <3>1, PreambleIs
  <2>2. Preamble(l) = <<>>
    BY <2>1, EmptySeq
  <2>3. Render(l) = <<>>
    BY <1>4, <2>2, RenderIs, ConcatEmptySeq
  <2>4. Render(k) = <<>> \o Render(k) /\ Render(k) \in Seq(Messages)
    BY <1>2, RenderType, ConcatEmptySeq
  <2>5. <<>> \in Seq(Messages)
    BY EmptySeq
  <2>6. IsPrefix(<<>>, <<>> \o Render(k))
    BY <2>4, <2>5, PrefixOfConcat
  <2> QED
    BY <2>3, <2>4, <2>6
<1> QED
  BY <1>3, <1>4 DEF Extends

\* A log extends itself.
LEMMA ExtendsSelf ==
  ASSUME NEW l \in Logs
  PROVE  Extends(l, l)
<1>1. l.entries = l.entries \o <<>> /\ <<>> \in Seq(Messages)
  BY ConcatEmptySeq, EmptySeq DEF Logs
<1> QED
  BY <1>1 DEF Extends

\* append_system on a log in order.
LEMMA ExtendsSystem ==
  ASSUME NEW l, Good(l)
  PROVE  Extends(l, AppendSystem(l))
<1>1. l \in Logs /\ AppendSystem(l) \in Logs
  BY AppendSystemType DEF Good
<1>2. CASE l.entries = <<>> /\ ~l.system
  <2>1. l.protected = {}
    BY <1>2 DEF Good, Headed
  <2>2. l.entries = l.entries \o <<>> /\ <<>> \in Seq(Messages)
    BY <1>1, ConcatEmptySeq, EmptySeq DEF Logs
  <2>3. AppendSystem(l) = [l EXCEPT !.system = TRUE]
    BY <1>2 DEF AppendSystem
  <2>4. AppendSystem(l).entries = l.entries /\ AppendSystem(l).protected = l.protected
    BY <1>1, <2>3 DEF Logs
  <2> QED
    BY <1>1, <1>2, <2>1, <2>2, <2>4 DEF Extends
<1>3. CASE ~(l.entries = <<>> /\ ~l.system)
  <2>1. AppendSystem(l) = l
    BY <1>1, <1>3 DEF AppendSystem, Logs
  <2> QED
    BY <1>1, <2>1, ExtendsSelf
<1> QED
  BY <1>2, <1>3

\* More messages.
LEMMA ExtendsMore ==
  ASSUME NEW l \in Logs, NEW k, Extends(l, k), NEW h \in Logs, NEW more \in Seq(Messages),
         h.entries = k.entries \o more, h.protected = k.protected, h.system = k.system
  PROVE  Extends(l, h)
<1>1. PICK u \in Seq(Messages) : k.entries = l.entries \o u
  BY DEF Extends
<1>2. u \o more \in Seq(Messages)
  BY ConcatProperties
<1>3. l.entries \in Seq(Messages)
  BY DEF Logs
<1>4. h.entries = l.entries \o (u \o more)
  <2>1. (l.entries \o u) \o more = l.entries \o (u \o more)
    BY <1>3, Regroup
  <2> QED
    BY <1>1, <2>1
<1> QED
  BY <1>2, <1>4 DEF Extends

\* append_user, append_assistant, append_assistant_tool_calls, append_tool_result.
LEMMA ExtendsMsg ==
  ASSUME NEW l \in Logs, NEW k, Extends(l, k), NEW m \in Messages
  PROVE  Extends(l, AppendMsg(k, m))
<1> DEFINE h == AppendMsg(k, m)
<1>1. k \in Logs
  BY DEF Extends
<1>2. h \in Logs
  BY <1>1, AppendMsgType
<1>3. /\ h.entries = Append(k.entries, m) /\ h.protected = k.protected
      /\ h.system = k.system /\ k.entries \in Seq(Messages)
  BY <1>1 DEF AppendMsg, Logs
<1> HIDE DEF h
<1>4. h.entries = k.entries \o <<m>> /\ <<m>> \in Seq(Messages)
  BY <1>3, AppendIsConcat
<1>5. Extends(l, h)
  BY <1>2, <1>3, <1>4, ExtendsMore
<1> QED
  BY <1>5 DEF h

\* mark_held.
LEMMA ExtendsHeld ==
  ASSUME NEW l \in Logs, NEW k, Extends(l, k), NEW ids \in SUBSET Passages
  PROVE  Extends(l, MarkHeld(k, ids))
<1>1. k \in Logs
  BY DEF Extends
<1>2. MarkHeld(k, ids) \in Logs
  BY <1>1, MarkHeldType
<1>3. /\ MarkHeld(k, ids).entries = k.entries /\ MarkHeld(k, ids).system = k.system
      /\ MarkHeld(k, ids).protected = k.protected
  BY <1>1 DEF MarkHeld, Logs
<1> QED
  BY <1>2, <1>3 DEF Extends

\* append_evidence.
LEMMA ExtendsEvidence ==
  ASSUME NEW l \in Logs, NEW k, Extends(l, k), NEW ps \in SUBSET Shown, NEW reuse \in BOOLEAN
  PROVE  Extends(l, AppendEvidence(k, ps, reuse))
<1>1. Display(ps, k.seen, reuse) \in SUBSET Shown
  BY DEF Display, Shown
<1>2. IdsOf(ps) \in SUBSET Passages
  BY DEF IdsOf, Shown
<1>3. Extends(l, AppendMsg(k, EvidenceMsg(Display(ps, k.seen, reuse))))
  BY <1>1, MessageTypes, ExtendsMsg
<1> QED
  BY <1>2, <1>3, ExtendsHeld DEF AppendEvidence

-----------------------------------------------------------------------------
(* Rebuilding *)

\* The log that a stored list is rebuilt to: the stored one, with the held ids read off
\* the messages.
Reseen(l) == [l EXCEPT !.seen = IdsOf(l.protected \cup ShownIn(l.entries))]

\* _rebuild_prompt_log undoes render, for a log with a turn in it.
LEMMA RebuildRender ==
  ASSUME NEW l, Good(l), l.entries # <<>>
  PROVE  Rebuild(Render(l)) = Reseen(l)
<1> DEFINE c == IF l.system THEN 1 ELSE 0
           n == Cardinality(l.protected)
           p == Preamble(l)
           es == l.entries
           ms == Render(l)
           first == IF ms # <<>> /\ ms[1].kind = "system" THEN 2 ELSE 1
           leads == {x \in first..Len(ms) : \A i \in first..x : ms[i].kind = "evidence"}
           k == Rebuild(ms)
<1>1. l \in Logs /\ l.system \in BOOLEAN /\ c \in {0, 1}
  BY DEF Good, Logs
<1>2. /\ n \in Nat /\ p \in Seq(Messages) /\ Len(p) = c + n
      /\ c = 1 => p[1] = Message("system")
      /\ \A i \in 1..n : /\ p[c + i].kind = "evidence"
                         /\ \E s \in l.protected : p[c + i].shown = {s}
      /\ \A s \in l.protected : \E i \in 1..n : p[c + i].shown = {s}
  BY <1>1, PreambleIs
<1>3. ms = p \o es /\ es \in Seq(Messages) /\ Len(es) \in Nat /\ DOMAIN es = 1..Len(es)
  BY <1>1, RenderIs, LenProperties
<1>4. Len(es) # 0 /\ es[1].kind = "user"
  BY <1>3, EmptySeq DEF Good, Headed
<1>5. l.system <=> c = 1
  BY <1>1
<1> HIDE DEF c, n, p, es, ms
<1>6. /\ ms \in Seq(Messages) /\ Len(ms) = c + n + Len(es)
      /\ \A i \in 1..(c + n + Len(es)) : ms[i] = IF i <= c + n THEN p[i] ELSE es[i - (c + n)]
  <2>1. /\ p \o es \in Seq(Messages) /\ Len(p \o es) = Len(p) + Len(es)
        /\ \A i \in 1..(Len(p) + Len(es)) :
              (p \o es)[i] = IF i <= Len(p) THEN p[i] ELSE es[i - Len(p)]
    BY <1>2, <1>3, ConcatProperties
  <2> QED
    BY <1>2, <1>3, <2>1
<1>7. DOMAIN ms = 1..(c + n + Len(es)) /\ Len(ms) \in Nat
  BY <1>6, LenProperties
<1>8. /\ c = 1 => ms[1] = Message("system")
      /\ \A i \in 1..n : ms[c + i] = p[c + i]
      /\ \A i \in 1..Len(es) : ms[c + n + i] = es[i]
  <2>1. c = 1 => ms[1] = Message("system")
    BY <1>2, <1>3, <1>6
  <2>2. \A i \in 1..n : ms[c + i] = p[c + i]
    <3> TAKE i \in 1..n
    <3>1. c + i \in 1..(c + n + Len(es)) /\ c + i <= c + n
      BY <1>1, <1>2, <1>3
    <3> QED
      BY <1>6, <3>1
  <2>3. \A i \in 1..Len(es) : ms[c + n + i] = es[i]
    <3> TAKE i \in 1..Len(es)
    <3>1. c + n + i \in 1..(c + n + Len(es)) /\ ~(c + n + i <= c + n) /\ (c + n + i) - (c + n) = i
      BY <1>1, <1>2, <1>3
    <3> QED
      BY <1>6, <3>1
  <2> QED
    BY <2>1, <2>2, <2>3
<1>9. ms[c + n + 1] = es[1]
  <2>1. 1 \in 1..Len(es)
    BY <1>3, <1>4
  <2> QED
    BY <1>8, <2>1
<1>10. first = c + 1
  <2>1. ms # <<>>
    BY <1>1, <1>2, <1>3, <1>4, <1>6, EmptySeq
  <2>2. CASE c = 1
    BY <1>8, <2>1, <2>2 DEF Message
  <2>3. CASE c = 0 /\ n = 0
    BY <1>4, <1>9, <2>3
  <2>4. CASE c = 0 /\ n # 0
    <3>1. 1 \in 1..n /\ c + 1 = 1
      BY <1>2, <2>4
    <3>2. ms[1].kind = "evidence"
      BY <1>2, <1>8, <3>1
    <3> QED
      BY <2>4, <3>2
  <2> QED
    BY <1>1, <2>2, <2>3, <2>4
<1> HIDE DEF first
<1>11. leads = (c + 1)..(c + n)
  <2>1. ASSUME NEW x \in (c + 1)..(c + n) PROVE x \in leads
    <3>1. \A i \in first..x : ms[i].kind = "evidence"
      <4> TAKE i \in first..x
      <4>1. i - c \in 1..n /\ c + (i - c) = i
        BY <1>1, <1>2, <1>10
      <4> QED
        BY <1>2, <1>8, <4>1
    <3>2. x \in first..Len(ms)
      BY <1>1, <1>2, <1>3, <1>6, <1>10
    <3> QED
      BY <3>1, <3>2
  <2>2. ASSUME NEW x \in leads PROVE x \in (c + 1)..(c + n)
    <3>1. x \in (c + 1)..Len(ms) /\ \A i \in (c + 1)..x : ms[i].kind = "evidence"
      BY <1>10, <2>2
    <3>2. ms[c + n + 1].kind # "evidence"
      BY <1>4, <1>9
    <3>3. x \in Int /\ c + 1 <= x /\ c \in Int /\ n \in Nat
      BY <1>1, <1>2, <1>7, <3>1
    <3>4. ~(c + n + 1 <= x)
      <4>1. c + n + 1 <= x => c + n + 1 \in (c + 1)..x
        BY <3>3
      <4> QED
        BY <3>1, <3>2, <4>1
    <3> QED
      BY <3>3, <3>4
  <2> HIDE DEF leads
  <2> QED
    BY <2>1, <2>2
<1>12. Cardinality(leads) = n
  <2>1. Cardinality((c + 1)..(c + n)) = IF c + 1 > c + n THEN 0 ELSE c + n - (c + 1) + 1
    BY <1>1, <1>2, FS_Interval
  <2> HIDE DEF leads
  <2> QED
    BY <1>1, <1>2, <1>11, <2>1
<1>13. /\ k.system = (c + 1 = 2)
       /\ k.protected = UNION {ms[i].shown : i \in leads}
       /\ k.entries = SubSeq(ms, c + 1 + n, Len(ms))
       /\ k.seen = UNION {IdsOf(ms[i].shown) : i \in DOMAIN ms}
       /\ k \in Logs
  <2>1. /\ k.system = (first = 2)
        /\ k.protected = UNION {ms[i].shown : i \in leads}
        /\ k.entries = SubSeq(ms, first + Cardinality(leads), Len(ms))
        /\ k.seen = UNION {IdsOf(ms[i].shown) : i \in DOMAIN ms}
    BY DEF Rebuild, first
  <2> HIDE DEF k, leads
  <2>2. k \in Logs
    BY <1>6, RebuildType DEF k
  <2> QED
    BY <1>10, <1>12, <2>1, <2>2
<1> HIDE DEF k, leads
<1>14. k.system = l.system
  BY <1>1, <1>5, <1>13
<1>15. \A i \in 1..n : c + i \in leads /\ ms[c + i] = p[c + i]
  BY <1>1, <1>2, <1>8, <1>11
<1>16. k.protected = l.protected
  <2>1. ASSUME NEW x \in k.protected PROVE x \in l.protected
    <3>1. PICK i \in (c + 1)..(c + n) : x \in ms[i].shown
      BY <1>11, <1>13
    <3>2. i - c \in 1..n /\ c + (i - c) = i
      BY <1>1, <1>2
    <3> QED
      BY <1>2, <1>8, <3>1, <3>2
  <2>2. ASSUME NEW x \in l.protected PROVE x \in k.protected
    <3>1. PICK i \in 1..n : p[c + i].shown = {x}
      BY <1>2
    <3> QED
      BY <1>13, <1>15, <3>1
  <2> QED
    BY <2>1, <2>2
<1>17. k.entries = es
  <2>1. Len(ms) = c + n + Len(es) /\ c + n \in 0..Len(ms) /\ (c + n) + 1 = c + 1 + n
    BY <1>1, <1>2, <1>3, <1>6
  <2>2. Len(ms) - (c + n) = Len(es)
    BY <1>1, <1>2, <1>3, <1>6
  <2> DEFINE t == SubSeq(ms, (c + n) + 1, Len(ms))
             d == c + n
  <2>3. /\ t \in Seq(Messages) /\ Len(t) = Len(ms) - d
        /\ \A i \in 1..(Len(ms) - d) : t[i] = ms[i + d]
    <3>1. d \in 0..Len(ms)
      BY <2>1
    <3> HIDE DEF d
    <3> QED
      BY <1>6, <3>1, SuffixIs DEF d
  <2> HIDE DEF t
  <2>4. \A i \in 1..Len(es) : t[i] = es[i]
    <3> TAKE i \in 1..Len(es)
    <3>1. t[i] = ms[i + d]
      BY <2>2, <2>3
    <3>2. i + d = c + n + i
      BY <1>1, <1>2, <1>3
    <3> QED
      BY <1>8, <3>1, <3>2
  <2>5. t = es
    BY <1>3, <2>2, <2>3, <2>4, SeqEqual
  <2> QED
    BY <1>13, <2>1, <2>5 DEF t
<1>18. k.seen = IdsOf(l.protected \cup ShownIn(es))
  <2>1. ASSUME NEW x \in k.seen PROVE x \in IdsOf(l.protected \cup ShownIn(es))
    <3>1. PICK i \in DOMAIN ms : x \in IdsOf(ms[i].shown)
      BY <1>13
    <3>2. PICK q \in ms[i].shown : q.id = x
      BY <3>1 DEF IdsOf
    <3>3. i \in Nat /\ 1 <= i /\ i <= c + n + Len(es) /\ c \in Nat
      BY <1>1, <1>7
    <3>4. CASE i <= c
      <4>1. i = 1 /\ c = 1
        BY <1>1, <3>3, <3>4
      <4> QED
        BY <1>8, <3>2, <4>1 DEF Message
    <3>5. CASE c < i /\ i <= c + n
      <4>1. i \in leads
        BY <1>2, <1>11, <3>3, <3>5
      <4>2. q \in k.protected
        BY <1>13, <3>2, <4>1
      <4> QED
        BY <1>16, <3>2, <4>2 DEF IdsOf
    <3>6. CASE c + n < i
      <4>1. i - (c + n) \in 1..Len(es) /\ c + n + (i - (c + n)) = i
        BY <1>2, <1>3, <3>3, <3>6
      <4>2. ms[i] = es[i - (c + n)]
        BY <1>8, <4>1
      <4>3. q \in ShownIn(es)
        BY <1>3, <3>2, <4>1, <4>2 DEF ShownIn
      <4> QED
        BY <3>2, <4>3 DEF IdsOf
    <3> QED
      BY <1>2, <3>3, <3>4, <3>5, <3>6
  <2>2. ASSUME NEW q \in l.protected PROVE q.id \in k.seen
    <3>1. PICK i \in 1..n : p[c + i].shown = {q}
      BY <1>2
    <3>2. c + i \in DOMAIN ms /\ q \in ms[c + i].shown
      BY <1>1, <1>2, <1>3, <1>7, <1>8, <3>1
    <3> QED
      BY <1>13, <3>2 DEF IdsOf
  <2>3. ASSUME NEW q \in ShownIn(es) PROVE q.id \in k.seen
    <3>1. PICK i \in 1..Len(es) : q \in es[i].shown
      BY <1>3 DEF ShownIn
    <3>2. c + n + i \in DOMAIN ms /\ q \in ms[c + n + i].shown
      BY <1>1, <1>2, <1>3, <1>7, <1>8, <3>1
    <3> QED
      BY <1>13, <3>2 DEF IdsOf
  <2> QED
    BY <2>1, <2>2, <2>3 DEF IdsOf
<1>19. k = Reseen(l)
  <2>1. /\ Reseen(l).system = l.system /\ Reseen(l).protected = l.protected
        /\ Reseen(l).entries = es /\ Reseen(l).seen = IdsOf(l.protected \cup ShownIn(es))
        /\ Reseen(l) \in Logs
    <3>1. IdsOf(l.protected \cup ShownIn(es)) \in SUBSET Passages
      BY <1>13, <1>18 DEF Logs
    <3> QED
      BY <1>1, <3>1 DEF Reseen, Logs, es
  <2> HIDE DEF k, es
  <2> QED
    BY <1>13, <1>14, <1>16, <1>17, <1>18, <2>1 DEF Logs
<1> QED
  BY <1>19 DEF k, ms

\* It is the same to send, and in order.
LEMMA ReseenGood ==
  ASSUME NEW l, Good(l)
  PROVE  /\ Good(Reseen(l)) /\ Render(Reseen(l)) = Render(l)
         /\ Reseen(l).entries = l.entries /\ Reseen(l).protected = l.protected
         /\ Reseen(l).system = l.system
<1> DEFINE k == Reseen(l)
<1>1. l \in Logs
  BY DEF Good
<1>2. ShownIn(l.entries) \subseteq Shown /\ l.protected \subseteq Shown
  BY <1>1, EntryType DEF ShownIn, Logs
<1>3. IdsOf(l.protected \cup ShownIn(l.entries)) \in SUBSET Passages
  BY <1>2 DEF IdsOf, Shown
<1>4. /\ k \in Logs /\ k.entries = l.entries /\ k.protected = l.protected
      /\ k.system = l.system /\ k.seen = IdsOf(l.protected \cup ShownIn(l.entries))
  BY <1>1, <1>3 DEF Reseen, Logs
<1> HIDE DEF k
<1>5. Good(k)
  BY <1>4 DEF Good, Headed, Names
<1>6. Render(k) = Render(l)
  BY <1>4 DEF Render
<1> QED
  BY <1>4, <1>5, <1>6 DEF k

-----------------------------------------------------------------------------
(* Repairing *)

\* Results that show nothing, while the newest turn has no answer.
LEMMA AppendResultsGood ==
  ASSUME NEW l, Good(l), InTurn(l), NEW rest \in Seq(Messages),
         \A j \in 1..Len(rest) : rest[j].shown = {} /\ rest[j].kind \in ToolKinds
  PROVE  LET k == [l EXCEPT !.entries = @ \o rest]
         IN  Good(k) /\ k.entries = l.entries \o rest /\ k.entries # <<>> /\ Extends(l, k)
<1> DEFINE es == l.entries
           k == [l EXCEPT !.entries = @ \o rest]
           t == es \o rest
           n == Len(es)
           h == Len(rest)
<1>1. l \in Logs /\ es \in Seq(Messages) /\ n \in Nat /\ h \in Nat /\ DOMAIN es = 1..n
  BY LenProperties DEF Good, Logs
<1>2. /\ t \in Seq(Messages) /\ Len(t) = n + h
      /\ \A i \in 1..(n + h) : t[i] = IF i <= n THEN es[i] ELSE rest[i - n]
  BY <1>1, ConcatProperties
<1>3. DOMAIN t = 1..(n + h)
  BY <1>2, LenProperties
<1>4. n # 0 /\ es[1].kind = "user" /\ es[n].kind # "answer"
  BY <1>1, EmptySeq DEF InTurn, Good, Headed
<1>5. /\ k \in Logs /\ k.entries = t /\ k.protected = l.protected /\ k.seen = l.seen
      /\ k.system = l.system
  BY <1>1, <1>2 DEF Logs
<1> HIDE DEF t, n, h, es, k
<1>6. /\ \A i \in 1..n : i \in 1..(n + h) /\ t[i] = es[i]
      /\ \A i \in 1..(n + h) : i > n => /\ t[i].shown = {} /\ t[i].kind \in ToolKinds
  <2>1. ASSUME NEW i \in 1..n PROVE i \in 1..(n + h) /\ t[i] = es[i]
    BY <1>1, <1>2
  <2>2. ASSUME NEW i \in 1..(n + h), i > n
        PROVE  t[i].shown = {} /\ t[i].kind \in ToolKinds
    <3>1. ~(i <= n) /\ i - n \in 1..h
      BY <1>1, <2>2
    <3>2. t[i] = rest[i - n]
      BY <1>2, <3>1
    <3> QED
      BY <3>1, <3>2 DEF h
  <2> QED
    BY <2>1, <2>2
<1>7. \A i \in 1..(n + h) : i <= n => i \in 1..n
  BY <1>1
<1>8. Shaped(t)
  <2> SUFFICES ASSUME NEW i \in 1..(n + h), t[i].shown # {}
               PROVE  t[i].kind = "evidence" /\ t[i].id = NoId
    BY <1>3 DEF Shaped
  <2>1. i <= n
    BY <1>1, <1>6
  <2>2. i \in DOMAIN es /\ t[i] = es[i]
    BY <1>1, <1>6, <1>7, <2>1
  <2> QED
    BY <2>2 DEF Good, Shaped, es
<1>9. Closes(t)
  <2> SUFFICES ASSUME NEW i \in 1..(n + h), t[i].kind = "answer", i # n + h
               PROVE  t[i + 1].kind = "user"
    BY <1>2, <1>3 DEF Closes
  <2>1. i <= n
    BY <1>1, <1>6 DEF ToolKinds
  <2>2. i \in 1..n /\ t[i] = es[i]
    BY <1>6, <1>7, <2>1
  <2>3. i # n
    BY <1>4, <2>2
  <2>4. es[i + 1].kind = "user"
    BY <1>1, <2>2, <2>3 DEF Good, Closes, es, n
  <2>5. i + 1 \in 1..n
    BY <1>1, <2>2, <2>3
  <2> QED
    BY <1>6, <2>4, <2>5
<1>10. t # <<>> /\ t[1].kind = "user"
  <2>1. 1 \in 1..n
    BY <1>1, <1>4
  <2> QED
    BY <1>1, <1>2, <1>4, <1>6, <2>1, EmptySeq
<1>11. Names(k)
  <2>1. ShownIn(es) \subseteq ShownIn(t)
    BY <1>1, <1>3, <1>6 DEF ShownIn
  <2>2. UNION {es[i].pasted : i \in DOMAIN es} \subseteq UNION {t[i].pasted : i \in DOMAIN t}
    BY <1>1, <1>3, <1>6
  <2>3. IdsOf(l.protected \cup ShownIn(es)) \subseteq IdsOf(k.protected \cup ShownIn(t))
    BY <1>5, <2>1 DEF IdsOf
  <2> QED
    BY <1>5, <2>2, <2>3 DEF Good, Names, es
<1>12. Good(k)
  BY <1>5, <1>8, <1>9, <1>10, <1>11 DEF Good, Headed
<1>13. Extends(l, k)
  BY <1>5 DEF Extends, t, es
<1> QED
  BY <1>5, <1>10, <1>12, <1>13 DEF k, t, es

\* repair answers what the newest calls message lacks, when every result it has names one
\* of its calls and every earlier call is answered.
LEMMA RepairAnswers ==
  ASSUME NEW l, Good(l), NEW c \in DOMAIN l.entries, l.entries[c].kind = "calls",
         \A j \in (c + 1)..Len(l.entries) :
            l.entries[j].kind \in ToolKinds /\ l.entries[j].id \in l.entries[c].ids,
         \A i \in 1..(c - 1) : l.entries[i].kind = "calls" => AnsweredAt(l.entries, i)
  PROVE  LET k == Repair(l)
         IN  Good(k) /\ IsValid(k) /\ k.entries # <<>> /\ Extends(l, k)
<1> DEFINE es == l.entries
           n == Len(es)
           answered == {es[j].id : j \in (c + 1)..n}
           lacking == es[c].ids \ answered
           h == Cardinality(lacking)
           order == SetToSeq(lacking)
           rest == [j \in 1..h |-> ResultMsg(order[j], {})]
           t == es \o rest
           k == [l EXCEPT !.entries = @ \o rest]
<1>1. l \in Logs /\ es \in Seq(Messages) /\ n \in Nat /\ DOMAIN es = 1..n
  BY LenProperties DEF Good, Logs
<1>2. es # <<>>
  BY <1>1, EmptySeq
<1>3. CASE IsValid(l)
  <2>1. Repair(l) = l
    BY <1>3 DEF Repair
  <2> QED
    BY <1>1, <1>2, <1>3, <2>1, ExtendsSelf
<1>4. CASE ~IsValid(l)
  <2>1. c \in Nat /\ c >= 1 /\ c <= n
    BY <1>1
  <2>2. /\ es[c].ids \subseteq CallIds /\ es[c].kind = "calls" /\ NoId \notin CallIds
        /\ \A j \in (c + 1)..n : es[j].kind \in ToolKinds /\ es[j].id \in es[c].ids
    BY <1>1, EntryType DEF CallIds, NoId
  <2>3. LastCalls(es) = {c}
    <3>1. \A i \in (c + 1)..n : es[i].kind \notin {"calls", "user"}
      BY <2>2 DEF ToolKinds
    <3>2. c \in LastCalls(es)
      BY <2>2, <3>1 DEF LastCalls
    <3>3. ASSUME NEW i \in LastCalls(es) PROVE i = c
      <4>1. /\ i \in 1..n /\ es[i].kind = "calls"
            /\ \A j \in (i + 1)..n : es[j].kind \notin {"calls", "user"}
        BY <1>1 DEF LastCalls
      <4>2. ~(i > c)
        <5>1. i > c => i \in (c + 1)..n
          BY <2>1, <4>1
        <5> QED
          BY <3>1, <4>1, <5>1
      <4>3. ~(i < c)
        <5>1. i < c => c \in (i + 1)..n
          BY <2>1, <4>1
        <5> QED
          BY <2>2, <4>1, <5>1
      <4> QED
        BY <2>1, <4>1, <4>2, <4>3
    <3> QED
      BY <3>2, <3>3
  <2>4. Missing(es, c) = lacking
    <3>1. {j \in (c + 1)..Len(es) : es[j].kind \in ToolKinds} = (c + 1)..n
      BY <2>2
    <3>2. {j \in (c + 1)..n : es[j].id = NoId} = {}
      BY <2>2
    <3>3. Missing(es, c) = {x \in lacking : Cardinality({d \in lacking : d < x}) >= Cardinality({})}
      BY <3>1, <3>2, Zenon DEF Missing
    <3>4. lacking \in SUBSET CallIds
      BY <2>2
    <3> HIDE DEF lacking
    <3>5. ASSUME NEW x \in lacking PROVE Cardinality({d \in lacking : d < x}) >= 0
      <4>1. {d \in lacking : d < x} \in SUBSET CallIds
        BY <3>4
      <4>2. Cardinality({d \in lacking : d < x}) \in Nat
        BY <4>1, CallIdsFinite, FS_CardinalityType
      <4> QED
        BY <4>2
    <3> QED
      BY <3>3, <3>5, FS_EmptySet
  <2>5. Repair(l) = k
    <3>1. UNION {Missing(es, i) : i \in LastCalls(es)} = lacking
      BY <2>3, <2>4
    <3>2. Repair(l) = [l EXCEPT !.entries = Fill(@, UNION {Missing(@, i) : i \in LastCalls(@)})]
      BY <1>4 DEF Repair
    <3>3. Repair(l) = [l EXCEPT !.entries = Fill(es, lacking)]
      <4> HIDE DEF lacking
      <4> QED
        BY <1>1, <3>1, <3>2 DEF Logs
    <3> QED
      BY <1>1, <3>3 DEF Fill, Logs
  <2>6. lacking \in SUBSET CallIds
    BY <2>2
  <2> HIDE DEF lacking
  <2>7. /\ h \in Nat /\ order \in [1..h -> lacking]
        /\ \A x \in lacking : \E j \in 1..h : order[j] = x
    <3>1. IsFiniteSet(lacking)
      BY <2>6, CallIdsFinite
    <3>2. /\ h \in Nat /\ order \in [1..h -> lacking]
          /\ \A a, b \in 1..h : order[a] = order[b] => a = b
      BY <3>1, SetToSeqType
    <3> HIDE DEF order
    <3>3. order \in Injection(1..h, lacking)
      BY <3>2 DEF Injection, IsInjective
    <3>4. Cardinality(1..h) = h
      <4> HIDE DEF h
      <4>1. Cardinality(1..h) = IF 1 > h THEN 0 ELSE h - 1 + 1
        BY <3>2, FS_Interval
      <4> QED
        BY <3>2, <4>1
    <3>5. order \in Surjection(1..h, lacking)
      BY <3>1, <3>3, <3>4, FS_Injection
    <3> QED
      BY <3>2, <3>5 DEF Surjection
  <2> HIDE DEF h, order
  <2>8. /\ rest \in [1..h -> Messages]
        /\ \A j \in 1..h : /\ rest[j].id = order[j] /\ rest[j].shown = {}
                           /\ rest[j].kind \in ToolKinds
    BY <2>6, <2>7, MessageTypes DEF ResultMsg, Message, ToolKinds
  <2> HIDE DEF rest
  <2>9. rest \in Seq(Messages) /\ Len(rest) = h
    BY <2>7, <2>8, FcnIsSeq
  <2>10. InTurn(l)
    <3>1. n \in (c + 1)..n \/ n = c
      BY <1>1, <2>1
    <3> QED
      BY <1>2, <2>2, <3>1 DEF InTurn, ToolKinds
  <2>11. Good(k) /\ k.entries = t /\ k.entries # <<>> /\ Extends(l, k)
    BY <2>8, <2>9, <2>10, AppendResultsGood
  <2>12. /\ t \in Seq(Messages) /\ Len(t) = n + h
         /\ \A i \in 1..(n + h) : t[i] = IF i <= n THEN es[i] ELSE rest[i - n]
    BY <1>1, <2>9, ConcatProperties
  <2> HIDE DEF t, k, es, n
  <2>13. \A i \in 1..n : t[i] = es[i]
    BY <1>1, <2>7, <2>12
  <2>14. \A j \in (c + 1)..(n + h) : t[j].kind \in ToolKinds /\ t[j].id \in es[c].ids
    <3> TAKE j \in (c + 1)..(n + h)
    <3>1. CASE j <= n
      <4>1. j \in (c + 1)..n /\ j \in 1..n
        BY <1>1, <2>1, <3>1
      <4> QED
        BY <2>2, <2>13, <4>1
    <3>2. CASE ~(j <= n)
      <4>1. j - n \in 1..h /\ j \in 1..(n + h)
        BY <1>1, <2>1, <2>7, <3>2
      <4>2. t[j] = rest[j - n]
        BY <2>12, <3>2, <4>1
      <4>3. order[j - n] \in lacking
        BY <2>7, <4>1
      <4> QED
        BY <2>8, <4>1, <4>2, <4>3 DEF lacking
    <3> QED
      BY <3>1, <3>2
  <2>15. Answers(t, c) = (c + 1)..(n + h)
    BY <2>12, <2>14 DEF Answers
  <2>16. ASSUME NEW x \in es[c].ids PROVE \E j \in (c + 1)..(n + h) : t[j].id = x
    <3>1. CASE x \in answered
      <4>1. PICK j \in (c + 1)..n : es[j].id = x
        BY <3>1
      <4>2. j \in (c + 1)..(n + h) /\ j \in 1..n
        BY <1>1, <2>1, <2>7, <4>1
      <4> QED
        BY <2>13, <4>1, <4>2
    <3>2. CASE x \notin answered
      <4>1. x \in lacking
        BY <3>2 DEF lacking
      <4>2. PICK j \in 1..h : order[j] = x
        BY <2>7, <4>1
      <4>3. n + j \in (c + 1)..(n + h) /\ n + j \in 1..(n + h) /\ ~(n + j <= n) /\ (n + j) - n = j
        BY <1>1, <2>1, <2>7, <4>2
      <4>4. t[n + j] = rest[j]
        BY <2>12, <4>3
      <4> QED
        BY <2>8, <4>2, <4>3, <4>4
    <3> QED
      BY <3>1, <3>2
  <2>17. Named(t, c) = es[c].ids /\ Unnamed(t, c) = {}
    <3>1. \A j \in Answers(t, c) : t[j].id \in es[c].ids /\ t[j].id # NoId
      BY <2>2, <2>14, <2>15
    <3>2. \A x \in es[c].ids : \E j \in Answers(t, c) : t[j].id = x
      BY <2>15, <2>16
    <3> QED
      BY <3>1, <3>2 DEF Named, Unnamed
  <2>18. AnsweredAt(t, c)
    <3>1. t[c] = es[c]
      BY <2>1, <2>13
    <3>2. IsFiniteSet(es[c].ids)
      BY <2>2, CallIdsFinite
    <3>3. Cardinality(es[c].ids) \in Nat /\ Cardinality({}) = 0
      BY <3>2, FS_CardinalityType, FS_EmptySet
    <3> QED
      BY <2>17, <3>1, <3>3 DEF AnsweredAt
  <2>19. ASSUME NEW i \in DOMAIN t, t[i].kind = "calls" PROVE AnsweredAt(t, i)
    <3>1. i \in 1..(n + h)
      BY <2>12, LenProperties
    <3>2. ~(i > c)
      <4>1. i > c => i \in (c + 1)..(n + h)
        BY <2>1, <3>1
      <4> QED
        BY <2>14, <2>19, <4>1 DEF ToolKinds
    <3>3. CASE i = c
      BY <2>18, <3>3
    <3>4. CASE i < c
      <4>1. i \in 1..(c - 1) /\ i \in 1..n
        BY <2>1, <1>1, <3>1, <3>4
      <4>2. AnsweredAt(es, i)
        BY <2>13, <2>19, <4>1 DEF es
      <4>3. Len(es) <= Len(t) /\ \A x \in 1..Len(es) : t[x] = es[x]
        BY <1>1, <2>7, <2>12, <2>13 DEF n
      <4>4. c \in DOMAIN es
        BY <1>1, <2>1
      <4> QED
        BY <1>1, <2>2, <2>12, <4>1, <4>2, <4>3, <4>4, EarlierAnswered
    <3> QED
      BY <2>1, <3>1, <3>2, <3>3, <3>4
  <2>20. IsValid(k)
    BY <2>11, <2>19 DEF IsValid
  <2> QED
    BY <2>5, <2>11, <2>20
<1> QED
  BY <1>3, <1>4


-----------------------------------------------------------------------------
(* Type correctness *)

\* No clarify question is open, and no guess was tried.
LEMMA NoClarifyType ==
  NoClarify \in [round : 0..MaxOffers, described : BOOLEAN] /\ 0 \in 0..Notes
  BY DEF NoClarify, MaxOffers, Notes

\* A new lesson, or one that a dangling list was stored for.
LEMMA InitType == Init => TypeOK
<1> SUFFICES ASSUME Init PROVE TypeOK
  OBVIOUS
<1>1. log \in Logs
  BY EmptyLogType DEF Init
<1>2. saved \in Seq(Messages)
  <2>1. DanglingList \in Seq(Messages)
    <3>1. CallIds \in SUBSET CallIds /\ 1 \in CallIds /\ {} \in SUBSET Passages
      BY PromptLogAssumption DEF CallIds
    <3>2. /\ Message("system") \in Messages /\ UserMsg(1) \in Messages
          /\ CallsMsg(CallIds) \in Messages /\ ResultMsg(1, {}) \in Messages
      BY <3>1, MessageType, MessageTypes DEF Kinds
    <3> QED
      BY <3>2 DEF DanglingList
  <2> QED
    BY <2>1, EmptySeq DEF Init
<1> QED
  BY <1>1, <1>2, EmptySeq, NoClarifyType DEF Init, TypeOK, FreshLocals, Levels, Running

\* Every kind of turn begins alike.
LEMMA BeginType ==
  ASSUME TypeOK, NEW next \in Running, Begin(next), log' \in Logs,
         pending' \in [round : 0..MaxOffers, described : BOOLEAN],
         next = "resolve" => pending'.round < MaxOffers
  PROVE  TypeOK'
<1>1. /\ UNCHANGED <<settings, saved>>
      /\ UNCHANGED <<research, gates, tried, calc, todo, level, backfill, rounds>>
  BY DEF Begin, locals
<1>2. turns' = turns + 1 /\ cancel' = FALSE /\ pc' = next
  BY DEF Begin
<1>3. settings' \in Settings /\ saved' \in Seq(Messages)
  BY <1>1 DEF TypeOK
<1>4. /\ pc' \in Running \cup {"idle", "down"} /\ cancel' \in BOOLEAN
      /\ pc' = "resolve" => pending'.round < MaxOffers
  BY <1>2
<1>5. /\ research' \in Nat /\ gates' \in Nat /\ tried' \in 0..Notes
      /\ calc' \in Nat /\ rounds' \in Nat
  BY <1>1 DEF TypeOK
<1>6. turns' \in Nat
  BY <1>2 DEF TypeOK
<1>7. todo' \in Seq(CallIds) /\ level' \in Levels
  BY <1>1 DEF TypeOK
<1>8. backfill' \in Seq(Passages)
  BY <1>1 DEF TypeOK
<1> QED
  BY <1>3, <1>4, <1>5, <1>6, <1>7, <1>8 DEF TypeOK

\* An ordinary turn begins at once, or after a reply to a clarify question.
LEMMA BeginTextType ==
  ASSUME TypeOK, NEW next \in Running \ {"resolve"}, BeginText(next), log' \in Logs
  PROVE  TypeOK'
<1>1. pending' \in [round : 0..MaxOffers, described : BOOLEAN]
  BY NoClarifyType DEF BeginText
<1>2. CASE Begin(next)
  BY <1>1, <1>2, BeginType
<1>3. CASE /\ pc' = next /\ MaySearchName
           /\ UNCHANGED <<settings, saved, cancel, research, tried, calc, todo, level,
                          backfill, rounds, turns>>
  <2>1. gates' \in Nat
    BY <1>3 DEF MaySearchName, TypeOK
  <2> QED
    BY <1>1, <1>3, <2>1 DEF TypeOK
<1> QED
  BY <1>2, <1>3 DEF BeginText

\* What a step writes to the log is made of messages.
LEMMA StartTurnType == ASSUME TypeOK, StartTurn PROVE TypeOK'
<1>0. /\ AppendSystem(log) \in Logs
      /\ \A w \in UserWeights : UserMsg(w) \in Messages
      /\ UserMsg(1) \in Messages /\ AnswerMsg({}) \in Messages
      /\ CallsMsg({1}) \in Messages /\ ResultMsg(1, {}) \in Messages
  <2>1. {1} \in SUBSET CallIds /\ 1 \in CallIds
    BY PromptLogAssumption DEF CallIds
  <2> QED
    BY <2>1, AppendSystemType, MessageTypes, TutorTurnAssumption DEF TypeOK
<1>9. \A l \in Logs, w \in UserWeights : Exchange(l, w) \in Logs
  BY <1>0, AppendMsgType DEF Exchange
<1>10. log \in Logs /\ pending \in [round : 0..MaxOffers, described : BOOLEAN] /\ gates \in Nat
  BY DEF TypeOK
<1>1. CASE ActionTurn
  BY <1>0, <1>1, <1>10, AppendMsgType, BeginType DEF ActionTurn, Running
<1>2. CASE HostReply
  BY <1>0, <1>2, <1>9, BeginTextType DEF HostReply, Running
<1>3. CASE ChatTurn
  BY <1>0, <1>3, AppendMsgType, BeginTextType DEF ChatTurn, Running
<1>4. CASE QuestionTurn
  BY <1>0, <1>4, BeginTextType DEF QuestionTurn, Running
<1>5. CASE DescribeTurn
  <2>1. pending' \in [round : 0..MaxOffers, described : BOOLEAN]
    BY <1>5, <1>10 DEF DescribeTurn
  <2>2. log' \in Logs
    BY <1>5, <1>9, <1>10 DEF DescribeTurn
  <2> QED
    BY <1>5, <2>1, <2>2, BeginType DEF DescribeTurn, Running
<1>6. CASE ReplyTurn
  <2>1. pending' = pending /\ log' = log /\ pending.round < MaxOffers /\ Begin("resolve")
    BY <1>6, <1>10 DEF ReplyTurn, MaxOffers
  <2>2. "resolve" \in Running
    BY DEF Running
  <2> QED
    BY <1>10, <2>1, <2>2, BeginType
<1>7. CASE OfferAgain
  <2>1. gates' \in Nat
    BY <1>7, <1>10 DEF OfferAgain, MaySearchName
  <2>2. pending' \in [round : 0..MaxOffers, described : BOOLEAN]
    <3>1. pending.round + 1 \in 0..MaxOffers
      BY <1>7, <1>10 DEF OfferAgain, TypeOK, MaxOffers
    <3>2. PICK r \in 0..MaxOffers : r = pending.round + 1
      BY <3>1
    <3>3. CASE pending' = [round |-> pending.round + 1, described |-> FALSE]
      BY <3>2, <3>3
    <3>4. CASE pending' = [pending EXCEPT !.round = pending.round + 1]
      BY <1>10, <3>2, <3>4
    <3> QED
      BY <1>7, <3>3, <3>4 DEF OfferAgain
  <2>3. log' \in Logs
    BY <1>7, <1>9, <1>10 DEF OfferAgain
  <2> QED
    BY <1>7, <2>1, <2>2, <2>3 DEF OfferAgain, TypeOK, Running
<1> QED
  BY <1>1, <1>2, <1>3, <1>4, <1>5, <1>6, <1>7 DEF StartTurn

\* The steps after the pre-search.
LEMMA PresearchStepType == ASSUME TypeOK, Presearch PROVE TypeOK'
<1> USE DEF TypeOK
<1>0. /\ \A w \in UserWeights : UserMsg(w) \in Messages
      /\ AnswerMsg({}) \in Messages
  BY MessageTypes, TutorTurnAssumption
<1>1. ASSUME ClearLocals, log' \in Logs, pc' = "idle",
             UNCHANGED <<settings, saved, pending, turns>>
      PROVE  TypeOK'
  BY <1>1, EmptySeq, NoClarifyType DEF ClearLocals, Levels
<1>2. ASSUME NEW next \in Running \ {"resolve"}, Searched(next), log' \in Logs,
             level' \in Levels, backfill' \in Seq(Passages)
      PROVE  TypeOK'
  BY <1>2, NoClarifyType DEF Searched
<1>3. CASE TurnRaises
  BY <1>1, <1>3 DEF TurnRaises
<1>4. CASE GuessFails
  <2>1. gates' \in Nat /\ tried' \in 0..Notes
    BY <1>4 DEF GuessFails, MaySearchName, Notes
  <2> QED
    BY <1>4, <2>1 DEF GuessFails
<1>5. CASE PresearchAsks
  <2>1. log' \in Logs
    BY <1>0, <1>5, AppendMsgType DEF PresearchAsks, Exchange
  <2>2. pending' \in [round : 0..MaxOffers, described : BOOLEAN]
    BY <1>5 DEF PresearchAsks, MaxOffers
  <2>3. pc' = "return" /\ gates' = gates + 1 /\ research' = 1
    BY <1>5 DEF PresearchAsks
  <2>4. /\ UNCHANGED <<settings, saved, cancel, tried, calc>>
        /\ UNCHANGED <<todo, level, backfill, rounds, turns>>
    BY <1>5 DEF PresearchAsks
  <2> QED
    BY <2>1, <2>2, <2>3, <2>4 DEF Running
<1>6. CASE PresearchThenForced
  BY <1>0, <1>2, <1>6, AppendMsgType, PacketType
     DEF PresearchThenForced, Running, LevelOf, Levels
<1>7. CASE PresearchThenRewrite
  BY <1>0, <1>2, <1>7, AppendMsgType DEF PresearchThenRewrite, Running
<1>8. CASE PresearchThenShow
  <2>1. PICK ids \in Packets, w \in UserWeights :
          LET asked == AppendMsg(log, UserMsg(w))
              fits  == Trimmed(asked, ids, settings.reuse)
          IN  \/ /\ Searched("loop")
                 /\ \E n \in fits :
                       log' = AppendEvidence(asked, Labelled(SubSeq(ids, 1, n)),
                                             settings.reuse)
                 /\ UNCHANGED <<level, backfill>>
              \/ /\ log' = asked /\ pc' = "idle" /\ ClearLocals
                 /\ UNCHANGED <<settings, saved, pending, turns>>
    BY <1>8 DEF PresearchThenShow
  <2> DEFINE asked == AppendMsg(log, UserMsg(w))
  <2>2. asked \in Logs
    BY <1>0, AppendMsgType
  <2>3. settings.reuse \in BOOLEAN
    BY TutorTurnAssumption DEF SettingsType
  <2>4. \A n \in Trimmed(asked, ids, settings.reuse) :
           AppendEvidence(asked, Labelled(SubSeq(ids, 1, n)), settings.reuse) \in Logs
    BY <2>2, <2>3, LabelledType, AppendEvidenceType DEF Trimmed
  <2>5. CASE Searched("loop") /\ log' \in Logs /\ UNCHANGED <<level, backfill>>
    BY <1>2, <2>5 DEF Running
  <2>6. CASE /\ log' = asked /\ pc' = "idle" /\ ClearLocals
             /\ UNCHANGED <<settings, saved, pending, turns>>
    BY <1>1, <2>2, <2>6
  <2> QED
    BY <2>1, <2>4, <2>5, <2>6
<1> QED
  BY <1>3, <1>4, <1>5, <1>6, <1>7, <1>8 DEF Presearch

\* The forced rounds.
LEMMA ForcedRoundType == ASSUME TypeOK, ForcedRound PROVE TypeOK'
<1> DEFINE Rest == /\ UNCHANGED <<settings, saved, cancel, pending, gates>>
                   /\ UNCHANGED <<tried, calc, todo, rounds, turns>>
<1>1. ASSUME NEW lvl, EndRound(lvl), log' \in Logs, research' \in Nat
      PROVE  TypeOK'
  <2>1. pc' \in Running \ {"resolve"} /\ level' \in Levels /\ backfill' \in Seq(Passages)
    BY <1>1, EmptySeq DEF EndRound, AfterRound, Levels, Running
  <2>2. Rest
    BY <1>1 DEF EndRound
  <2> QED
    BY <1>1, <2>1, <2>2 DEF TypeOK
<1>2. ASSUME NEW ids \in SUBSET Passages PROVE CallAndResult(log, ids) \in Logs
  <2>1. {1} \in SUBSET CallIds /\ 1 \in CallIds
    BY PromptLogAssumption DEF CallIds
  <2>2. CallsMsg({1}) \in Messages /\ ResultMsg(1, ids) \in Messages
    BY <2>1, MessageTypes
  <2> QED
    BY <2>2, AppendMsgType DEF CallAndResult, TypeOK
<1>3. Range(backfill) \in SUBSET Passages
  BY EntryRange DEF TypeOK
<1>4. research \in Nat /\ log \in Logs
  BY DEF TypeOK
<1>5. CASE RoundSkipped
  BY <1>1, <1>2, <1>4, <1>5 DEF RoundSkipped
<1>6. CASE RoundUnusable
  BY <1>1, <1>2, <1>3, <1>4, <1>6 DEF RoundUnusable
<1>7. CASE RoundSearches
  <2>1. PICK ok \in 0..MaxQueries, lead \in Packets :
          LET merged == LeadWithBackfill(lead, IF pc = "forced" THEN backfill ELSE <<>>)
          IN  /\ research' = research + ok
              /\ \E lvl \in LevelOf(merged) :
                    /\ log' = IF lvl # "strong" THEN CallAndResult(log, {})
                              ELSE IF settings.reuse
                              THEN MarkHeld(CallAndResult(log, merged \ log.seen), merged)
                              ELSE CallAndResult(log, merged)
                    /\ EndRound(lvl)
    BY <1>7 DEF RoundSearches
  <2> DEFINE back == IF pc = "forced" THEN backfill ELSE <<>>
             merged == LeadWithBackfill(lead, back)
  <2>2. back \in Seq(Passages)
    BY EmptySeq DEF TypeOK
  <2>3. merged \in SUBSET Passages
    <3>1. \A i \in DOMAIN back : back[i] \in Passages
      BY <2>2, LenProperties, ElementOfSeq
    <3> HIDE DEF back
    <3> QED
      BY <3>1, PacketType DEF LeadWithBackfill
  <2> HIDE DEF merged
  <2>4. /\ CallAndResult(log, {}) \in Logs /\ CallAndResult(log, merged) \in Logs
        /\ CallAndResult(log, merged \ log.seen) \in Logs
    BY <1>2, <2>3
  <2>5. MarkHeld(CallAndResult(log, merged \ log.seen), merged) \in Logs
    BY <2>3, <2>4, MarkHeldType
  <2>6. log' \in Logs
    BY <2>1, <2>4, <2>5 DEF merged
  <2>7. research' \in Nat
    BY <1>4, <2>1, TutorTurnAssumption
  <2> QED
    BY <1>1, <2>1, <2>6, <2>7
<1> QED
  BY <1>5, <1>6, <1>7 DEF ForcedRound

\* The answer loop.
LEMMA AnswerType == ASSUME TypeOK, Answer PROVE TypeOK'
<1> USE DEF TypeOK
<1>1. CASE LoopCancelled
  <2>1. /\ UNCHANGED <<log, settings, saved, cancel, pending, turns>>
        /\ UNCHANGED <<research, gates, tried, calc, todo, level, backfill, rounds>>
        /\ pc' = "return"
    BY <1>1 DEF LoopCancelled, locals
  <2> QED
    BY <2>1 DEF Running
<1>2. CASE Request
  <2>1. /\ UNCHANGED <<settings, saved, cancel, pending, turns>>
        /\ UNCHANGED <<research, gates, tried, calc, todo, level, backfill, rounds>>
        /\ pc' = "stream"
    BY <1>2 DEF Request, locals
  <2>2. log' \in Logs
    BY <1>2, EvictType DEF Request
  <2> QED
    BY <2>1, <2>2 DEF Running
<1>3. CASE StreamEnds
  <2>1. /\ UNCHANGED <<log, settings, saved, cancel, pending, turns>>
        /\ UNCHANGED <<research, gates, tried, calc, todo, level, backfill, rounds>>
        /\ pc' = "return"
    BY <1>3 DEF StreamEnds, locals
  <2> QED
    BY <2>1 DEF Running
<1>4. CASE StreamAnswers
  <2>1. /\ UNCHANGED <<settings, saved, cancel, pending, turns>>
        /\ UNCHANGED <<research, gates, tried, calc, todo, level, backfill, rounds>>
        /\ pc' = "return"
    BY <1>4 DEF StreamAnswers, locals
  <2>2. log' \in Logs
    BY <1>4, AppendMsgType, MessageTypes DEF StreamAnswers
  <2> QED
    BY <2>1, <2>2 DEF Running
<1>5. CASE StreamCalls
  <2>1. PICK n \in 1..MaxCalls : log' = AppendMsg(log, CallsMsg(1..n)) /\ todo' = [i \in 1..n |-> i]
    BY <1>5 DEF StreamCalls
  <2>2. 1..n \in SUBSET CallIds /\ n \in Nat
    BY PromptLogAssumption DEF CallIds
  <2>3. log' \in Logs
    BY <2>1, <2>2, AppendMsgType, MessageTypes
  <2>4. todo' \in Seq(CallIds)
    <3>1. todo' \in [1..n -> CallIds]
      BY <2>1, <2>2
    <3> QED
      BY <2>2, <3>1, FcnIsSeq
  <2>5. /\ UNCHANGED <<settings, saved, cancel, pending, research, gates>>
        /\ UNCHANGED <<tried, calc, level, backfill, turns>>
        /\ rounds' = rounds + 1 /\ pc' = "dispatch"
    BY <1>5 DEF StreamCalls
  <2> QED
    BY <2>3, <2>4, <2>5 DEF Running
<1> QED
  BY <1>1, <1>2, <1>3, <1>4, <1>5 DEF Answer

\* The dispatch of tool calls.
LEMMA DispatchType == ASSUME TypeOK, Dispatch PROVE TypeOK'
<1> USE DEF TypeOK
<1>1. CASE DispatchCancelled
  <2> DEFINE results == [i \in DOMAIN todo |-> ResultMsg(todo[i], {})]
  <2>1. results \in Seq(Messages)
    <3>1. Len(todo) \in Nat /\ results \in [1..Len(todo) -> Messages]
      BY LenProperties, ElementOfSeq, MessageTypes
    <3> QED
      BY <3>1, FcnIsSeq
  <2>2. log.entries \o results \in Seq(Messages)
    BY <2>1, ConcatProperties DEF Logs
  <2>3. log' \in Logs
    BY <1>1, <2>2 DEF DispatchCancelled, Logs
  <2>4. /\ todo' = <<>> /\ pc' \in {"dispatch", "return", "idle"}
        /\ UNCHANGED <<settings, saved, cancel, pending, research, gates>>
        /\ UNCHANGED <<tried, calc, level, backfill, rounds, turns>>
    BY <1>1 DEF DispatchCancelled, AfterDispatch
  <2> QED
    BY <2>3, <2>4, EmptySeq DEF Running
<1>2. ASSUME todo # <<>>, EndCall, log' \in Logs, research' \in Nat, calc' \in Nat
      PROVE  TypeOK'
  <2>1. todo' \in Seq(CallIds)
    BY <1>2, HeadTailProperties DEF EndCall
  <2>2. /\ pc' \in {"dispatch", "loop", "idle"}
        /\ UNCHANGED <<settings, saved, cancel, pending, gates>>
        /\ UNCHANGED <<tried, level, backfill, rounds, turns>>
    BY <1>2 DEF EndCall, AfterDispatch
  <2> QED
    BY <1>2, <2>1, <2>2 DEF Running
<1>3. ASSUME todo # <<>> PROVE AppendMsg(log, ResultMsg(Head(todo), {})) \in Logs
  <2>1. Head(todo) \in CallIds
    BY <1>3, HeadTailProperties
  <2> QED
    BY <2>1, MessageTypes, AppendMsgType
<1>4. CASE DispatchRefused
  <2>1. research' = research \/ research' = research + 1
    BY <1>4 DEF DispatchRefused
  <2>2. /\ todo # <<>> /\ EndCall /\ calc' = calc
        /\ log' = AppendMsg(log, ResultMsg(Head(todo), {}))
    BY <1>4 DEF DispatchRefused
  <2> QED
    BY <1>2, <1>3, <2>1, <2>2
<1>5. CASE DispatchResearch
  <2>0. PICK ids \in Packets : \E n \in Trimmed(log, ids, settings.reuse) :
          log' = AppendEvidence(log, Labelled(SubSeq(ids, 1, n)), settings.reuse)
    BY <1>5 DEF DispatchResearch
  <2>1. PICK n \in Trimmed(log, ids, settings.reuse) :
          log' = AppendEvidence(log, Labelled(SubSeq(ids, 1, n)), settings.reuse)
    BY <2>0
  <2>2. n \in 0..Len(ids) /\ settings.reuse \in BOOLEAN
    BY TutorTurnAssumption DEF Trimmed, SettingsType
  <2>3. log' \in Logs
    BY <2>1, <2>2, LabelledType, AppendEvidenceType
  <2>4. todo # <<>> /\ EndCall /\ calc' = calc /\ research' = research + 1
    BY <1>5 DEF DispatchResearch
  <2> QED
    BY <1>2, <2>3, <2>4
<1>6. CASE DispatchCalc
  <2>1. /\ todo # <<>> /\ EndCall /\ calc' = calc + 1 /\ research' = research
        /\ log' = AppendMsg(log, ResultMsg(Head(todo), {}))
    BY <1>6 DEF DispatchCalc
  <2> QED
    BY <1>2, <1>3, <2>1
<1> QED
  BY <1>1, <1>4, <1>5, <1>6 DEF Dispatch

\* What is stored and resumed.
LEMMA ProcessType == ASSUME TypeOK, Persist \/ Stop \/ Crash \/ Resume PROVE TypeOK'
<1> USE DEF TypeOK
<1>0. <<>> \in Seq(CallIds) /\ <<>> \in Seq(Passages) /\ "skipped" \in Levels
  BY EmptySeq DEF Levels
<1>1. CASE Persist
  <2>1. log' \in Logs
    BY <1>1, RepairType DEF Persist
  <2>2. saved' \in Seq(Messages)
    BY <1>1, <2>1, RenderType DEF Persist
  <2> QED
    BY <1>0, <1>1, <2>1, <2>2, NoClarifyType DEF Persist, ClearLocals
<1>2. CASE Stop
  <2>1. /\ UNCHANGED <<log, settings, saved, pc, pending, turns>>
        /\ UNCHANGED <<research, gates, tried, calc, todo, level, backfill, rounds>>
    BY <1>2 DEF Stop, locals
  <2>2. cancel' \in BOOLEAN
    BY <1>2 DEF Stop
  <2> QED
    BY <2>1, <2>2
<1>3. CASE Crash
  <2>1. /\ log' = EmptyLog /\ pc' = "down" /\ ClearLocals /\ pending' = NoClarify
        /\ UNCHANGED <<settings, saved, turns>>
    BY <1>3 DEF Crash
  <2> QED
    BY <1>0, <2>1, EmptyLogType, NoClarifyType DEF ClearLocals
<1>4. CASE Resume
  <2>1. log' \in Logs
    BY <1>4, RebuildType, RepairType DEF Resume
  <2>2. saved' \in Seq(Messages)
    BY <1>4, <2>1, RenderType DEF Resume
  <2>3. /\ pc' = "idle" /\ settings' \in Settings
        /\ UNCHANGED <<cancel, pending, turns>>
        /\ UNCHANGED <<research, gates, tried, calc, todo, level, backfill, rounds>>
    BY <1>4 DEF Resume, locals
  <2> QED
    BY <2>1, <2>2, <2>3
<1> QED
  BY <1>1, <1>2, <1>3, <1>4

\* Every step preserves the types.
LEMMA NextType == TypeOK /\ [Next]_vars => TypeOK'
<1> SUFFICES ASSUME TypeOK, [Next]_vars PROVE TypeOK'
  OBVIOUS
<1>1. CASE UNCHANGED vars
  <2>1. /\ UNCHANGED <<log, settings, saved, pc, cancel, pending, turns>>
        /\ UNCHANGED <<research, gates, tried, calc, todo, level, backfill, rounds>>
    BY <1>1 DEF vars, locals
  <2> QED
    BY <2>1 DEF TypeOK
<1> QED
  BY <1>1, StartTurnType, PresearchStepType, ForcedRoundType, AnswerType, DispatchType,
     ProcessType DEF Next

\* The log, the stored list and the locals of the turn loop keep their types: no
\* step writes anything but well-formed messages, labels within a packet's range and
\* passages of the library.
THEOREM TypeCorrect == Spec => []TypeOK
  BY InitType, NextType, PTL DEF Spec

-----------------------------------------------------------------------------
(* The log is in order at every step of a turn *)

\* The places of a turn thread whose turn has a student's message and no answer yet.
Mid == {"forced", "rewrite", "loop", "stream", "dispatch"}

\* The calls of the newest message are answered in their order; todo is what is left.
Dispatching ==
    \E n \in CallIds :
        /\ Len(todo) \in 0..n
        /\ Answering(log.entries, n - Len(todo), n)
        /\ \A i \in DOMAIN todo : todo[i] = n - Len(todo) + i

\* The log that renders to the dangling list.
DanglingLog ==
    [EmptyLog EXCEPT !.system = TRUE,
                     !.entries = <<UserMsg(1), CallsMsg(CallIds), ResultMsg(1, {})>>]

\* A stored list is empty or the rendering of a log in order.
InStore(ms) ==
    \/ ms = <<>>
    \/ \E l \in Logs : /\ Good(l) /\ l.entries # <<>> /\ ms = Render(l)
                       /\ IsValid(l) \/ l = DanglingLog

\* The strengthening of RequestsReplayable.
TurnInv ==
    /\ Good(log)
    /\ pc \in Mid => InTurn(log)
    /\ pc = "return" => log.entries # <<>>
    /\ pc = "dispatch" => Dispatching
    /\ pc # "dispatch" => IsValid(log)
    /\ InStore(saved)

\* The list that repair is there for is one a log in order renders to.
LEMMA DanglingGood ==
  /\ DanglingLog \in Logs /\ Good(DanglingLog) /\ DanglingLog.entries # <<>>
  /\ Render(DanglingLog) = DanglingList
<1> DEFINE es == <<UserMsg(1), CallsMsg(CallIds), ResultMsg(1, {})>>
           d == DanglingLog
<1>1. CallIds \in SUBSET CallIds /\ 1 \in CallIds /\ {} \in SUBSET Passages
  BY PromptLogAssumption DEF CallIds
<1>2. /\ UserMsg(1) \in Messages /\ CallsMsg(CallIds) \in Messages
      /\ ResultMsg(1, {}) \in Messages
  BY <1>1, MessageTypes
<1>3. es \in Seq(Messages) /\ Len(es) = 3 /\ DOMAIN es = 1..3
  BY <1>2
<1>4. /\ es[1].kind = "user" /\ es[2].kind = "calls" /\ es[3].kind = "result"
      /\ es[1].shown = {} /\ es[2].shown = {} /\ es[3].shown = {}
  BY DEF UserMsg, CallsMsg, ResultMsg, Message
<1>5. d.system = TRUE /\ d.protected = {} /\ d.entries = es /\ d.seen = {}
  BY DEF DanglingLog, EmptyLog
<1>6. d \in Logs
  BY <1>3, EmptyLogType DEF DanglingLog, Logs
<1> HIDE DEF es
<1>7. es # <<>>
  BY <1>3, EmptySeq
<1>8. Shaped(es)
  BY <1>3, <1>4 DEF Shaped
<1>9. Closes(es)
  BY <1>3, <1>4 DEF Closes
<1> HIDE DEF d
<1>10. Good(d)
  BY <1>4, <1>5, <1>6, <1>7, <1>8, <1>9 DEF Good, Headed, Names
<1>11. Render(d) = DanglingList
  <2>1. Cardinality(d.protected) = 0
    BY <1>5, FS_EmptySet
  <2> DEFINE lead == [i \in 1..0 |-> EvidenceMsg({SetToSeq(d.protected)[i]})]
             sys == Message("system")
  <2>2. sys \in Messages
    BY MessageType DEF Kinds
  <2>3. lead = <<>>
    <3>1. lead \in [1..0 -> Messages]
      BY SMT
    <3> HIDE DEF lead
    <3>2. lead \in Seq(Messages) /\ Len(lead) = 0
      BY <3>1, FcnIsSeq
    <3> QED
      BY <3>2, EmptySeq
  <2>4. Render(d) = <<sys>> \o lead \o es
    BY <1>5, <2>1 DEF Render
  <2> HIDE DEF lead, sys
  <2>5. Render(d) = <<sys>> \o es
    BY <2>2, <2>3, <2>4, ConcatEmptySeq
  <2> DEFINE ms == <<sys, UserMsg(1), CallsMsg(CallIds), ResultMsg(1, {})>>
  <2>6. <<sys>> \o es = ms
    <3>1. /\ <<sys>> \in Seq(Messages) /\ Len(<<sys>>) = 1 /\ <<sys>>[1] = sys
          /\ ms \in Seq(Messages) /\ Len(ms) = 4
      BY <1>2, <2>2
    <3>2. /\ <<sys>> \o es \in Seq(Messages) /\ Len(<<sys>> \o es) = 1 + 3
          /\ \A i \in 1..(1 + 3) : (<<sys>> \o es)[i] = IF i <= 1 THEN <<sys>>[i] ELSE es[i - 1]
      <4> DEFINE head == <<sys>>
      <4>1. head \in Seq(Messages) /\ Len(head) = 1
        BY <3>1
      <4> HIDE DEF head
      <4>2. /\ head \o es \in Seq(Messages) /\ Len(head \o es) = Len(head) + Len(es)
            /\ \A i \in 1..(Len(head) + Len(es)) :
                  (head \o es)[i] = IF i <= Len(head) THEN head[i] ELSE es[i - Len(head)]
        BY <1>3, <4>1, ConcatProperties
      <4>3. Len(head) = 1 /\ Len(es) = 3
        BY <1>3, <4>1
      <4>4. /\ head \o es \in Seq(Messages) /\ Len(head \o es) = 1 + 3
            /\ \A i \in 1..(1 + 3) : (head \o es)[i] = IF i <= 1 THEN head[i] ELSE es[i - 1]
        BY <4>2, <4>3
      <4> QED
        BY <4>4 DEF head
    <3>3. \A i \in 1..4 : (<<sys>> \o es)[i] = ms[i]
      <4>1. (<<sys>> \o es)[1] = sys /\ (<<sys>> \o es)[2] = es[1]
            /\ (<<sys>> \o es)[3] = es[2] /\ (<<sys>> \o es)[4] = es[3]
        BY <3>1, <3>2
      <4>2. es[1] = ms[2] /\ es[2] = ms[3] /\ es[3] = ms[4] /\ ms[1] = sys
        BY DEF es
      <4> HIDE DEF ms
      <4>3. \A i \in 1..4 : i = 1 \/ i = 2 \/ i = 3 \/ i = 4
        BY SMT
      <4> DEFINE joined == <<sys>> \o es
      <4>4. joined[1] = ms[1] /\ joined[2] = ms[2] /\ joined[3] = ms[3] /\ joined[4] = ms[4]
        BY <4>1, <4>2
      <4> HIDE DEF joined
      <4>5. \A i \in 1..4 : joined[i] = ms[i]
        BY <4>3, <4>4
      <4> QED
        BY <4>5 DEF joined
    <3> HIDE DEF ms
    <3> QED
      BY <3>1, <3>2, <3>3, SeqEqual
  <2> QED
    BY <2>5, <2>6 DEF DanglingList, sys
<1> QED
  BY <1>5, <1>6, <1>7, <1>10, <1>11 DEF d

\* A message of the student's, or the turn's answer, goes at the end of a list that can
\* be sent.
LEMMA SayGood ==
  ASSUME NEW l, Good(l), IsValid(l), NEW m \in Messages, m.shown = {},
         m.kind = "user" \/ (m.kind = "answer" /\ InTurn(l))
  PROVE  LET k == AppendMsg(l, m)
         IN  /\ Good(k) /\ IsValid(k) /\ k.entries # <<>> /\ Extends(l, k)
             /\ m.kind = "user" => InTurn(k)
<1> DEFINE k == AppendMsg(l, m)
<1>1. l \in Logs /\ l.entries \in Seq(Messages)
  BY DEF Good, Logs
<1>2. /\ Good(k) /\ k.entries = Append(l.entries, m) /\ k.entries # <<>>
      /\ m.kind # "answer" => InTurn(k)
  BY AppendMsgGood
<1>3. ListValid(Append(l.entries, m))
  <2>1. ListValid(l.entries) /\ m.kind # "calls" /\ m.kind \notin ToolKinds
    BY DEF IsValid, ListValid, ToolKinds
  <2> QED
    BY <1>1, <2>1, AppendValid
<1>4. Extends(l, k)
  BY <1>1, ExtendsSelf, ExtendsMsg
<1> HIDE DEF k
<1>5. IsValid(k)
  BY <1>2, <1>3 DEF IsValid, ListValid
<1> QED
  BY <1>2, <1>4, <1>5 DEF k

\* A calls message, put where the calls before it are answered, has no result yet.
LEMMA CallGood ==
  ASSUME NEW l, Good(l), IsValid(l), InTurn(l), NEW n \in CallIds
  PROVE  LET k == AppendMsg(l, CallsMsg(1..n))
         IN  Good(k) /\ InTurn(k) /\ Extends(l, k) /\ Answering(k.entries, 0, n)
<1> DEFINE m == CallsMsg(1..n)
           k == AppendMsg(l, m)
<1>1. l \in Logs /\ l.entries \in Seq(Messages) /\ ListValid(l.entries)
  BY DEF Good, Logs, IsValid, ListValid
<1>2. m \in Messages /\ m.shown = {} /\ m.kind # "answer"
  <2>1. 1..n \in SUBSET CallIds
    BY PromptLogAssumption DEF CallIds
  <2> QED
    BY <2>1, MessageTypes DEF CallsMsg, Message
<1>3. Answering(Append(l.entries, m), 0, n)
  BY <1>1, CallsOpen
<1> HIDE DEF m
<1>4. Good(k) /\ k.entries = Append(l.entries, m) /\ InTurn(k)
  BY <1>2, AppendMsgGood
<1>5. Extends(l, k)
  BY <1>1, <1>2, ExtendsSelf, ExtendsMsg
<1> QED
  BY <1>3, <1>4, <1>5 DEF m

\* The result of a call: text, and whatever passages it pastes.
LEMMA ResultGood ==
  ASSUME NEW l, Good(l), InTurn(l), NEW id \in CallIds, NEW ids \in SUBSET Passages
  PROVE  LET m == ResultMsg(id, ids)
             k == AppendMsg(l, m)
         IN  /\ Good(k) /\ InTurn(k) /\ Extends(l, k) /\ k.entries = Append(l.entries, m)
             /\ k.seen = l.seen /\ m \in Messages /\ m.kind \in ToolKinds /\ m.id = id
             /\ ids \subseteq UNION {k.entries[i].pasted : i \in DOMAIN k.entries}
<1> DEFINE m == ResultMsg(id, ids)
           k == AppendMsg(l, m)
<1>1. l \in Logs /\ l.entries \in Seq(Messages)
  BY DEF Good, Logs
<1>2. /\ m \in Messages /\ m.shown = {} /\ m.kind = "result" /\ m.id = id /\ m.pasted = ids
  BY MessageTypes DEF ResultMsg, Message
<1> HIDE DEF m
<1>3. Good(k) /\ k.entries = Append(l.entries, m) /\ InTurn(k)
  BY <1>2, AppendMsgGood
<1>4. Extends(l, k)
  BY <1>1, <1>2, ExtendsSelf, ExtendsMsg
<1>5. k.seen = l.seen
  BY <1>1 DEF AppendMsg, Logs
<1> HIDE DEF k
<1>6. ids \subseteq UNION {k.entries[i].pasted : i \in DOMAIN k.entries}
  <2>1. Len(l.entries) + 1 \in DOMAIN k.entries /\ k.entries[Len(l.entries) + 1] = m
    BY <1>1, <1>2, <1>3, AppendProperties, LenProperties
  <2> QED
    BY <1>2, <2>1
<1> QED
  BY <1>2, <1>3, <1>4, <1>5, <1>6 DEF k, m, ToolKinds

\* A forced round's call and its result.
LEMMA CallAndResultGood ==
  ASSUME NEW l, Good(l), IsValid(l), InTurn(l), NEW ids \in SUBSET Passages
  PROVE  LET k == CallAndResult(l, ids)
         IN  /\ Good(k) /\ IsValid(k) /\ InTurn(k) /\ Extends(l, k) /\ k.seen = l.seen
             /\ ids \subseteq UNION {k.entries[i].pasted : i \in DOMAIN k.entries}
<1> DEFINE a == AppendMsg(l, CallsMsg({1}))
           m == ResultMsg(1, ids)
           k == AppendMsg(a, m)
<1>1. 1 \in CallIds /\ {1} = 1..1
  BY PromptLogAssumption DEF CallIds
<1>2. Good(a) /\ InTurn(a) /\ Extends(l, a) /\ Answering(a.entries, 0, 1) /\ a.seen = l.seen
  <2>1. Good(a) /\ InTurn(a) /\ Extends(l, a) /\ Answering(a.entries, 0, 1)
    BY <1>1, CallGood
  <2>2. l \in Logs
    BY DEF Good
  <2>3. a.seen = l.seen
    BY <2>2 DEF AppendMsg, Logs
  <2> QED
    BY <2>1, <2>3
<1> HIDE DEF a
<1>3. /\ Good(k) /\ InTurn(k) /\ Extends(a, k) /\ k.entries = Append(a.entries, m)
      /\ k.seen = a.seen /\ m \in Messages /\ m.kind \in ToolKinds /\ m.id = 1
      /\ ids \subseteq UNION {k.entries[i].pasted : i \in DOMAIN k.entries}
  BY <1>1, <1>2, ResultGood
<1>4. Extends(l, k)
  <2>1. l \in Logs /\ a \in Logs
    BY <1>2 DEF Good
  <2> HIDE DEF m
  <2> QED
    BY <1>2, <1>3, <2>1, ExtendsMsg
<1>5. Answering(k.entries, 1, 1)
  <2>1. a.entries \in Seq(Messages)
    BY <1>2 DEF Good, Logs
  <2>2. 0 < 1 /\ 0 + 1 = 1 /\ m.id \in {NoId, 0 + 1}
    BY <1>3
  <2> HIDE DEF m, k
  <2>3. Answering(Append(a.entries, m), 0 + 1, 1)
    BY <1>1, <1>2, <1>3, <2>1, <2>2, ResultAnswers
  <2> QED
    BY <1>3, <2>2, <2>3
<1>6. IsValid(k)
  <2>1. k.entries \in Seq(Messages)
    BY <1>3 DEF Good, Logs
  <2> HIDE DEF k
  <2>2. ListValid(k.entries)
    BY <1>1, <1>5, <2>1, AnsweredValid
  <2> QED
    BY <2>2 DEF IsValid, ListValid
<1> QED
  BY <1>2, <1>3, <1>4, <1>6 DEF CallAndResult, a

\* mark_held, of passages that are named already.
LEMMA MarkHeldGood ==
  ASSUME NEW l, Good(l), NEW ids \in SUBSET Passages,
         ids \subseteq l.seen \cup UNION {l.entries[i].pasted : i \in DOMAIN l.entries}
  PROVE  LET k == MarkHeld(l, ids)
         IN  /\ Good(k) /\ k.entries = l.entries
             /\ IsValid(l) => IsValid(k)
             /\ InTurn(l) => InTurn(k)
<1> DEFINE k == MarkHeld(l, ids)
<1>1. l \in Logs
  BY DEF Good
<1>2. /\ k \in Logs /\ k.entries = l.entries /\ k.protected = l.protected
      /\ k.seen = l.seen \cup ids
  BY <1>1, MarkHeldType DEF MarkHeld, Logs
<1> HIDE DEF k
<1>3. Good(k)
  BY <1>2 DEF Good, Headed, Names
<1> QED
  BY <1>2, <1>3 DEF k, IsValid, InTurn

\* An evidence packet in answer to nothing: the host's own search shows it right after
\* the student's message.
LEMMA ShowGood ==
  ASSUME NEW l, Good(l), IsValid(l), NEW m \in Messages, m.kind = "user", m.shown = {},
         NEW ps \in SUBSET Shown, NEW reuse \in BOOLEAN
  PROVE  LET k == AppendEvidence(AppendMsg(l, m), ps, reuse)
         IN  Good(k) /\ IsValid(k) /\ InTurn(k) /\ Extends(l, k)
<1> DEFINE a == AppendMsg(l, m)
           e == EvidenceMsg(Display(ps, a.seen, reuse))
           k == AppendEvidence(a, ps, reuse)
<1>1. l \in Logs /\ l.entries \in Seq(Messages)
  BY DEF Good, Logs
<1>2. /\ Good(a) /\ IsValid(a) /\ InTurn(a) /\ Extends(l, a)
  BY SayGood
<1>3. a.entries = Append(l.entries, m)
  BY AppendMsgGood
<1> HIDE DEF a
<1>4. /\ Good(k) /\ InTurn(k) /\ k.entries = Append(a.entries, e)
      /\ e \in Messages /\ e.kind = "evidence" /\ e.id = NoId
  BY <1>2, AppendEvidenceGood
<1>5. Extends(l, k)
  BY <1>1, <1>2, ExtendsEvidence
<1> HIDE DEF e, k
<1>6. IsValid(k)
  <2>1. a.entries \in Seq(Messages) /\ ListValid(a.entries) /\ a.entries # <<>>
    BY <1>2 DEF Good, Logs, IsValid, ListValid, InTurn
  <2>2. a.entries[Len(a.entries)] = m
    BY <1>1, <1>3, AppendProperties
  <2>3. ListValid(Append(a.entries, e))
    BY <1>4, <2>1, <2>2, AppendValid DEF ToolKinds
  <2> QED
    BY <1>4, <2>3 DEF IsValid, ListValid
<1> QED
  BY <1>4, <1>5, <1>6 DEF k, a

\* Appending, and then appending more.
LEMMA ExtendsTrans ==
  ASSUME NEW l \in Logs, NEW a, Extends(l, a), NEW k, Extends(a, k)
  PROVE  Extends(l, k)
<1>1. PICK u \in Seq(Messages) : a.entries = l.entries \o u
  BY DEF Extends
<1>2. PICK w \in Seq(Messages) : k.entries = a.entries \o w
  BY DEF Extends
<1>3. l.entries \in Seq(Messages)
  BY DEF Logs
<1>4. u \o w \in Seq(Messages) /\ k.entries = l.entries \o (u \o w)
  <2>1. (l.entries \o u) \o w = l.entries \o (u \o w)
    BY <1>3, Regroup
  <2> QED
    BY <1>1, <1>2, <2>1, ConcatProperties
<1>5. a.entries = <<>> => l.entries = <<>>
  <2>1. Len(l.entries \o u) = Len(l.entries) + Len(u) /\ Len(l.entries) \in Nat /\ Len(u) \in Nat
    BY <1>3, ConcatProperties, LenProperties
  <2>2. l.entries # <<>> => Len(l.entries) # 0
    BY <1>3, EmptySeq
  <2>3. Len(<<>>) = 0
    BY EmptySeq
  <2> QED
    BY <1>1, <2>1, <2>2, <2>3
<1> QED
  BY <1>4, <1>5 DEF Extends

\* A reply the host writes by itself to the student's text.
LEMMA ExchangeGood ==
  ASSUME NEW l, Good(l), IsValid(l), NEW w \in UserWeights
  PROVE  /\ Good(Exchange(l, w)) /\ IsValid(Exchange(l, w))
         /\ Exchange(l, w).entries # <<>>
         /\ Extends(l, Exchange(l, w))
<1> DEFINE a == AppendMsg(l, UserMsg(w))
           k == AppendMsg(a, AnswerMsg({}))
<1>1. UserMsg(w) \in Messages /\ UserMsg(w).kind = "user" /\ UserMsg(w).shown = {}
  BY MessageTypes, TutorTurnAssumption DEF UserMsg, Message
<1>2. Good(a) /\ IsValid(a) /\ InTurn(a) /\ Extends(l, a)
  BY <1>1, SayGood
<1> HIDE DEF a
<1>3. Good(k) /\ IsValid(k) /\ k.entries # <<>> /\ Extends(a, k)
  <2>1. /\ AnswerMsg({}) \in Messages /\ AnswerMsg({}).kind = "answer"
        /\ AnswerMsg({}).shown = {}
    BY MessageTypes DEF AnswerMsg, Message
  <2> QED
    BY <1>2, <2>1, SayGood
<1> HIDE DEF k
<1>4. Extends(l, k)
  BY <1>2, <1>3, ExtendsTrans DEF Good
<1>5. Exchange(l, w) = k
  BY DEF Exchange, k, a
<1> QED
  BY <1>3, <1>4, <1>5

\* The start of a turn.
LEMMA StartTurnInOrder ==
  ASSUME TypeOK, TurnInv, StartTurn
  PROVE  TurnInv' /\ Extends(log, log')
<1> DEFINE s == AppendSystem(log)
<1>1. Good(log) /\ IsValid(log) /\ log \in Logs
  <2>1. pc = "idle" \/ pc = "resolve"
    BY DEF StartTurn, ActionTurn, DescribeTurn, ReplyTurn, OfferAgain, HostReply, ChatTurn,
           QuestionTurn, BeginText, Begin
  <2> QED
    BY <2>1 DEF TurnInv, TypeOK
<1>2. Good(s) /\ IsValid(s) /\ Extends(log, s)
  <2>1. Good(s) /\ s.entries = log.entries
    BY <1>1, AppendSystemGood
  <2> QED
    BY <1>1, <2>1, ExtendsSystem DEF IsValid
<1>3. saved' = saved
  BY DEF StartTurn, ActionTurn, DescribeTurn, ReplyTurn, OfferAgain, HostReply, ChatTurn,
         QuestionTurn, BeginText, Begin
<1>4. ASSUME NEW w \in UserWeights \cup {1}
      PROVE  /\ UserMsg(w) \in Messages /\ UserMsg(w).kind = "user" /\ UserMsg(w).shown = {}
  BY MessageTypes, TutorTurnAssumption DEF UserMsg, Message
<1>5. ASSUME NEW w \in UserWeights \cup {1}
      PROVE  LET a == AppendMsg(s, UserMsg(w))
             IN  Good(a) /\ IsValid(a) /\ InTurn(a) /\ Extends(log, a)
  <2> DEFINE a == AppendMsg(s, UserMsg(w))
  <2>1. Good(a) /\ IsValid(a) /\ InTurn(a) /\ Extends(s, a)
    BY <1>2, <1>4, SayGood
  <2> HIDE DEF a, s
  <2>2. Extends(log, a)
    BY <1>1, <1>2, <2>1, ExtendsTrans
  <2> QED
    BY <2>1, <2>2 DEF a, s
<1> HIDE DEF s
<1>6. ASSUME NEW k, log' = k, Good(k), IsValid(k), Extends(log, k), NEW next,
             next \in {"loop", "presearch"}, pc' = next, next = "loop" => InTurn(k)
      PROVE  TurnInv' /\ Extends(log, log')
  BY <1>3, <1>6 DEF TurnInv, Mid
<1>7. CASE ActionTurn
  BY <1>5, <1>6, <1>7 DEF ActionTurn, Begin, s
<1>8. CASE QuestionTurn
  BY <1>2, <1>6, <1>8 DEF QuestionTurn, BeginText, Begin, s
<1>9. CASE ChatTurn
  <2>1. PICK w \in UserWeights : log' = CallAndResult(AppendMsg(s, UserMsg(w)), {})
    BY <1>9 DEF ChatTurn, CallAndResult, s
  <2> DEFINE a == AppendMsg(s, UserMsg(w))
             k == CallAndResult(a, {})
  <2>2. Good(a) /\ IsValid(a) /\ InTurn(a) /\ Extends(log, a)
    BY <1>5
  <2> HIDE DEF a
  <2>3. Good(k) /\ IsValid(k) /\ InTurn(k) /\ Extends(a, k)
    BY <2>2, CallAndResultGood
  <2> HIDE DEF k
  <2>4. Extends(log, k)
    BY <1>1, <2>2, <2>3, ExtendsTrans
  <2>5. log' = k /\ pc' = "loop"
    BY <1>9, <2>1 DEF ChatTurn, BeginText, Begin, a, k
  <2> QED
    BY <1>6, <2>3, <2>4, <2>5
<1>10. ASSUME NEW l, Good(l), IsValid(l), Extends(log, l), NEW w \in UserWeights,
              log' = Exchange(l, w), pc' = "return"
       PROVE  TurnInv' /\ Extends(log, log')
  <2> DEFINE k == Exchange(l, w)
  <2>1. Good(k) /\ IsValid(k) /\ k.entries # <<>> /\ Extends(l, k)
    BY <1>10, ExchangeGood
  <2>2. log' = k
    BY <1>10
  <2> HIDE DEF k
  <2>3. Extends(log, k)
    BY <1>1, <1>10, <2>1, ExtendsTrans DEF Good
  <2> QED
    BY <1>3, <1>10, <2>1, <2>2, <2>3 DEF TurnInv, Mid
<1>11. CASE HostReply
  <2>1. PICK w \in UserWeights : log' = Exchange(s, w)
    BY <1>11 DEF HostReply, s
  <2>2. pc' = "return"
    BY <1>11 DEF HostReply, BeginText, Begin
  <2> QED
    BY <1>2, <1>10, <2>1, <2>2
<1>12. CASE DescribeTurn \/ OfferAgain
  <2>1. PICK w \in UserWeights : log' = Exchange(log, w)
    BY <1>12 DEF DescribeTurn, OfferAgain
  <2>2. pc' = "return"
    BY <1>12 DEF DescribeTurn, OfferAgain, Begin
  <2> QED
    BY <1>1, <1>10, <2>1, <2>2, ExtendsSelf
<1>13. CASE ReplyTurn
  <2>1. log' = log /\ pc' = "resolve"
    BY <1>13 DEF ReplyTurn, Begin
  <2> QED
    BY <1>1, <1>3, <2>1, ExtendsSelf DEF TurnInv, Mid
<1> QED
  BY <1>7, <1>8, <1>9, <1>11, <1>12, <1>13 DEF StartTurn

\* The host's own search, and a turn that raises.
LEMMA PresearchInOrder ==
  ASSUME TypeOK, TurnInv, Presearch
  PROVE  TurnInv' /\ Extends(log, log')
<1>1. Good(log) /\ log \in Logs /\ pc # "dispatch" /\ IsValid(log)
  BY DEF TurnInv, TypeOK, Presearch, TurnRaises, GuessFails, PresearchAsks,
         PresearchThenForced, PresearchThenRewrite, PresearchThenShow, Searched
<1>2. saved' = saved
  BY DEF Presearch, TurnRaises, GuessFails, PresearchAsks, PresearchThenForced,
         PresearchThenRewrite, PresearchThenShow, Searched
<1>3. ASSUME NEW w \in UserWeights
      PROVE  /\ UserMsg(w) \in Messages /\ UserMsg(w).kind = "user" /\ UserMsg(w).shown = {}
  BY MessageTypes, TutorTurnAssumption DEF UserMsg, Message
<1>4. ASSUME NEW w \in UserWeights
      PROVE  LET a == AppendMsg(log, UserMsg(w))
             IN  /\ Good(a) /\ IsValid(a) /\ InTurn(a) /\ Extends(log, a)
  BY <1>1, <1>3, SayGood
<1>5. CASE TurnRaises
  <2>1. log' = log /\ pc' = "idle"
    BY <1>5 DEF TurnRaises
  <2> QED
    BY <1>1, <1>2, <2>1, ExtendsSelf DEF TurnInv, Mid
<1>6. CASE PresearchAsks
  <2>1. PICK w \in UserWeights : log' = Exchange(log, w)
    BY <1>6 DEF PresearchAsks
  <2> DEFINE k == Exchange(log, w)
  <2>2. Good(k) /\ IsValid(k) /\ k.entries # <<>> /\ Extends(log, k)
    BY <1>1, ExchangeGood
  <2>3. log' = k /\ pc' = "return"
    BY <1>6, <2>1 DEF PresearchAsks
  <2> HIDE DEF k
  <2> QED
    BY <1>2, <2>2, <2>3 DEF TurnInv, Mid
<1>11. CASE GuessFails
  <2>1. log' = log /\ pc' = "presearch"
    BY <1>11 DEF GuessFails
  <2> QED
    BY <1>1, <1>2, <2>1, ExtendsSelf DEF TurnInv, Mid
<1>7. ASSUME NEW k, log' = k, Good(k), IsValid(k), InTurn(k), Extends(log, k),
             pc' \in {"forced", "rewrite", "loop", "idle"}
      PROVE  TurnInv' /\ Extends(log, log')
  BY <1>2, <1>7 DEF TurnInv, Mid
<1>8. CASE PresearchThenForced
  <2>1. PICK w \in UserWeights : log' = AppendMsg(log, UserMsg(w))
    BY <1>8 DEF PresearchThenForced
  <2> QED
    BY <1>4, <1>7, <1>8, <2>1 DEF PresearchThenForced, Searched
<1>9. CASE PresearchThenRewrite
  <2>1. PICK w \in UserWeights : log' = AppendMsg(log, UserMsg(w))
    BY <1>9 DEF PresearchThenRewrite
  <2> QED
    BY <1>4, <1>7, <1>9, <2>1 DEF PresearchThenRewrite, Searched
<1>10. CASE PresearchThenShow
  <2>1. PICK ids \in Packets, w \in UserWeights :
          LET asked == AppendMsg(log, UserMsg(w))
              fits  == Trimmed(asked, ids, settings.reuse)
          IN  \/ \E n \in fits :
                    /\ log' = AppendEvidence(asked, Labelled(SubSeq(ids, 1, n)),
                                             settings.reuse)
                    /\ pc' = "loop"
              \/ log' = asked /\ pc' = "idle"
    BY <1>10 DEF PresearchThenShow, Searched
  <2> DEFINE asked == AppendMsg(log, UserMsg(w))
  <2>2. settings.reuse \in BOOLEAN
    BY TutorTurnAssumption DEF SettingsType, TypeOK
  <2>3. CASE log' = asked /\ pc' = "idle"
    BY <1>4, <1>7, <2>3
  <2>4. ASSUME NEW n \in Trimmed(asked, ids, settings.reuse),
               log' = AppendEvidence(asked, Labelled(SubSeq(ids, 1, n)), settings.reuse),
               pc' = "loop"
        PROVE  TurnInv' /\ Extends(log, log')
    <3> DEFINE ps == Labelled(SubSeq(ids, 1, n))
    <3>1. ps \in SUBSET Shown
      BY LabelledType DEF Trimmed
    <3> HIDE DEF ps
    <3> DEFINE k == AppendEvidence(AppendMsg(log, UserMsg(w)), ps, settings.reuse)
    <3>2. Good(k) /\ IsValid(k) /\ InTurn(k) /\ Extends(log, k)
      BY <1>1, <1>3, <2>2, <3>1, ShowGood
    <3>3. log' = k
      BY <2>4 DEF ps
    <3> HIDE DEF k
    <3> QED
      BY <1>7, <2>4, <3>2, <3>3
  <2> QED
    BY <2>1, <2>3, <2>4
<1> QED
  BY <1>5, <1>6, <1>8, <1>9, <1>10, <1>11 DEF Presearch

\* The forced rounds: whatever is held afterwards was held before, or is pasted.
LEMMA ForcedRoundInOrder ==
  ASSUME TypeOK, TurnInv, ForcedRound
  PROVE  TurnInv' /\ Extends(log, log')
<1>1. Good(log) /\ log \in Logs /\ IsValid(log) /\ InTurn(log) /\ log.seen \in SUBSET Passages
  BY DEF TurnInv, TypeOK, ForcedRound, RoundSkipped, RoundUnusable, RoundSearches, Mid, Logs
<1>2. saved' = saved /\ pc' \in {"rewrite", "loop"}
  BY DEF ForcedRound, RoundSkipped, RoundUnusable, RoundSearches, EndRound, AfterRound
<1>3. ASSUME NEW k, log' = k, Good(k), IsValid(k), InTurn(k), Extends(log, k)
      PROVE  TurnInv' /\ Extends(log, log')
  BY <1>2, <1>3 DEF TurnInv, Mid
<1>4. ASSUME NEW ids \in SUBSET Passages, log' = CallAndResult(log, ids)
      PROVE  TurnInv' /\ Extends(log, log')
  BY <1>1, <1>3, <1>4, CallAndResultGood
<1>5. Range(backfill) \in SUBSET Passages /\ {} \in SUBSET Passages
  BY EntryRange DEF TypeOK
<1>6. CASE RoundSkipped
  BY <1>4, <1>5, <1>6 DEF RoundSkipped
<1>7. CASE RoundUnusable
  BY <1>4, <1>5, <1>7 DEF RoundUnusable
<1>8. CASE RoundSearches
  <2>0. PICK lead \in Packets : \E lvl :
          LET merged == LeadWithBackfill(lead, IF pc = "forced" THEN backfill ELSE <<>>)
          IN  log' = IF lvl # "strong" THEN CallAndResult(log, {})
                     ELSE IF settings.reuse
                     THEN MarkHeld(CallAndResult(log, merged \ log.seen), merged)
                     ELSE CallAndResult(log, merged)
    BY <1>8 DEF RoundSearches
  <2>1. PICK lvl :
          LET merged == LeadWithBackfill(lead, IF pc = "forced" THEN backfill ELSE <<>>)
          IN  log' = IF lvl # "strong" THEN CallAndResult(log, {})
                     ELSE IF settings.reuse
                     THEN MarkHeld(CallAndResult(log, merged \ log.seen), merged)
                     ELSE CallAndResult(log, merged)
    BY <2>0
  <2> DEFINE back == IF pc = "forced" THEN backfill ELSE <<>>
             merged == LeadWithBackfill(lead, back)
  <2>2. merged \in SUBSET Passages
    <3>1. Range(lead) \in SUBSET Passages
      BY PacketType
    <3>2. back \in Seq(Passages)
      BY EmptySeq DEF TypeOK
    <3> HIDE DEF back
    <3>3. \A i \in DOMAIN back : back[i] \in Passages
      BY <3>2, LenProperties, ElementOfSeq
    <3> QED
      BY <3>1, <3>3 DEF LeadWithBackfill
  <2> HIDE DEF merged
  <2>3. CASE log' = CallAndResult(log, {}) \/ log' = CallAndResult(log, merged)
    BY <1>4, <1>5, <2>2, <2>3
  <2>4. CASE log' = MarkHeld(CallAndResult(log, merged \ log.seen), merged)
    <3> DEFINE a == CallAndResult(log, merged \ log.seen)
               k == MarkHeld(a, merged)
    <3>1. merged \ log.seen \in SUBSET Passages
      BY <2>2
    <3>2. /\ Good(a) /\ IsValid(a) /\ InTurn(a) /\ Extends(log, a) /\ a.seen = log.seen
          /\ merged \ log.seen \subseteq UNION {a.entries[i].pasted : i \in DOMAIN a.entries}
      BY <1>1, <3>1, CallAndResultGood
    <3> HIDE DEF a
    <3>3. merged \subseteq a.seen \cup UNION {a.entries[i].pasted : i \in DOMAIN a.entries}
      BY <3>2
    <3>4. Good(k) /\ IsValid(k) /\ InTurn(k)
      BY <2>2, <3>2, <3>3, MarkHeldGood
    <3>5. Extends(log, k)
      BY <1>1, <2>2, <3>2, ExtendsHeld
    <3>6. log' = k
      BY <2>4 DEF a
    <3> HIDE DEF k
    <3> QED
      BY <1>3, <3>4, <3>5, <3>6
  <2> QED
    BY <2>1, <2>3, <2>4 DEF merged
<1> QED
  BY <1>6, <1>7, <1>8 DEF ForcedRound

\* The answer loop.  Only the request for an answer takes messages from the log.
LEMMA AnswerInOrder ==
  ASSUME TypeOK, TurnInv, Answer
  PROVE  TurnInv' /\ (log' = Evict(log) \/ Extends(log, log'))
<1>1. /\ Good(log) /\ log \in Logs /\ IsValid(log) /\ InTurn(log) /\ log.entries # <<>>
      /\ pc \in {"loop", "stream"}
  BY DEF TurnInv, TypeOK, Answer, LoopCancelled, Request, StreamEnds, StreamAnswers,
         StreamCalls, Mid, InTurn
<1>2. saved' = saved
  BY DEF Answer, LoopCancelled, Request, StreamEnds, StreamAnswers, StreamCalls, locals
<1>3. CASE LoopCancelled \/ StreamEnds
  <2>1. log' = log /\ pc' = "return"
    BY <1>3 DEF LoopCancelled, StreamEnds
  <2> QED
    BY <1>1, <1>2, <2>1, ExtendsSelf DEF TurnInv, Mid
<1>4. CASE Request
  <2>1. log' = Evict(log) /\ pc' = "stream"
    BY <1>4 DEF Request
  <2>2. Good(log') /\ IsValid(log') /\ InTurn(log')
    BY <1>1, <2>1, EvictGood
  <2> QED
    BY <1>2, <2>1, <2>2 DEF TurnInv, Mid
<1>5. CASE StreamAnswers
  <2>1. PICK cites \in SUBSET Labels : log' = AppendMsg(log, AnswerMsg(cites))
    BY <1>5 DEF StreamAnswers
  <2>2. /\ AnswerMsg(cites) \in Messages /\ AnswerMsg(cites).kind = "answer"
        /\ AnswerMsg(cites).shown = {}
    BY MessageTypes DEF AnswerMsg, Message
  <2>3. Good(log') /\ IsValid(log') /\ log'.entries # <<>> /\ Extends(log, log')
    BY <1>1, <2>1, <2>2, SayGood
  <2>4. pc' = "return"
    BY <1>5 DEF StreamAnswers
  <2> QED
    BY <1>2, <2>3, <2>4 DEF TurnInv, Mid
<1>6. CASE StreamCalls
  <2>1. PICK n \in CallIds : log' = AppendMsg(log, CallsMsg(1..n)) /\ todo' = [i \in 1..n |-> i]
    BY <1>6 DEF StreamCalls, CallIds
  <2>2. /\ Good(log') /\ InTurn(log') /\ Extends(log, log')
        /\ Answering(log'.entries, 0, n)
    BY <1>1, <2>1, CallGood
  <2>3. n \in Nat
    BY PromptLogAssumption DEF CallIds
  <2>4. Len(todo') = n /\ DOMAIN todo' = 1..n /\ \A i \in 1..n : todo'[i] = i
    <3>1. todo' \in [1..n -> 1..n]
      BY <2>1
    <3> QED
      BY <2>1, <2>3, <3>1, FcnIsSeq
  <2>5. Dispatching'
    <3>1. n - Len(todo') = 0 /\ Len(todo') \in 0..n
      BY <2>3, <2>4
    <3>2. \A i \in DOMAIN todo' : todo'[i] = n - Len(todo') + i
      BY <2>3, <2>4
    <3> QED
      BY <2>2, <3>1, <3>2 DEF Dispatching
  <2>6. pc' = "dispatch"
    BY <1>6 DEF StreamCalls
  <2> QED
    BY <1>2, <2>2, <2>5, <2>6 DEF TurnInv, Mid
<1> QED
  BY <1>3, <1>4, <1>5, <1>6 DEF Answer

\* The calls of one message: each gets its result, in order, or all that are left get one
\* at once.
LEMMA DispatchInOrder ==
  ASSUME TypeOK, TurnInv, Dispatch
  PROVE  TurnInv' /\ Extends(log, log')
<1>1. /\ Good(log) /\ log \in Logs /\ InTurn(log) /\ Dispatching /\ todo # <<>>
      /\ todo \in Seq(CallIds)
  BY DEF TurnInv, TypeOK, Dispatch, DispatchCancelled, DispatchRefused, DispatchResearch,
         DispatchCalc, Mid
<1>2. saved' = saved
  BY DEF Dispatch, DispatchCancelled, DispatchRefused, DispatchResearch, DispatchCalc, EndCall
<1>3. PICK n \in CallIds :
        /\ Len(todo) \in 0..n
        /\ Answering(log.entries, n - Len(todo), n)
        /\ \A i \in DOMAIN todo : todo[i] = n - Len(todo) + i
  BY <1>1 DEF Dispatching
<1> DEFINE k == n - Len(todo)
           es == log.entries
<1>4. /\ n \in Nat /\ Len(todo) \in Nat /\ Len(todo) >= 1 /\ k \in Nat /\ k + Len(todo) = n
      /\ DOMAIN todo = 1..Len(todo) /\ es \in Seq(Messages) /\ k < n
  <2>1. n \in Nat /\ Len(todo) \in Nat /\ Len(todo) # 0 /\ Len(todo) <= n
    BY <1>1, <1>3, PromptLogAssumption, LenProperties, EmptySeq DEF CallIds
  <2>2. DOMAIN todo = 1..Len(todo) /\ es \in Seq(Messages)
    BY <1>1, LenProperties DEF Logs
  <2> QED
    BY <2>1, <2>2
<1>5. Answering(es, k, n) /\ \A i \in 1..Len(todo) : todo[i] = k + i
  BY <1>3, <1>4
<1> HIDE DEF k
<1>6. Head(todo) = k + 1 /\ Head(todo) \in CallIds
  <2>1. Head(todo) = todo[1] /\ 1 \in 1..Len(todo)
    BY <1>1, <1>4
  <2> QED
    BY <1>1, <1>5, <2>1, ElementOfSeq
\* One result for the first call left.
<1>7. ASSUME NEW m \in Messages, m.kind \in ToolKinds, m.id \in {NoId, k + 1},
             Good(log'), InTurn(log'), Extends(log, log'),
             log'.entries = Append(es, m), EndCall
      PROVE  TurnInv' /\ Extends(log, log')
  <2>1. Answering(log'.entries, k + 1, n)
    BY <1>4, <1>5, <1>7, ResultAnswers
  <2>2. /\ todo' = Tail(todo) /\ Len(todo') = Len(todo) - 1
        /\ DOMAIN todo' = 1..(Len(todo) - 1)
        /\ \A i \in 1..(Len(todo) - 1) : todo'[i] = todo[i + 1]
        /\ todo' = <<>> => Len(todo') = 0
        /\ Len(todo') = 0 => todo' = <<>>
    <3>1. todo' = Tail(todo)
      BY <1>7 DEF EndCall
    <3>2. /\ Tail(todo) \in Seq(CallIds) /\ Len(Tail(todo)) = Len(todo) - 1
          /\ \A i \in 1..Len(Tail(todo)) : Tail(todo)[i] = todo[i + 1]
      BY <1>1, HeadTailProperties
    <3>3. todo' \in Seq(CallIds) /\ Len(todo') = Len(todo) - 1
      BY <3>1, <3>2
    <3> QED
      BY <3>1, <3>2, <3>3, EmptySeq, LenProperties
  <2>3. CASE todo' = <<>>
    <3>1. k + 1 = n
      BY <1>4, <2>2, <2>3
    <3>2. log'.entries \in Seq(Messages)
      BY <1>7 DEF Good, Logs
    <3>3. ListValid(log'.entries)
      BY <2>1, <3>1, <3>2, AnsweredValid
    <3>4. IsValid(log')
      BY <3>3 DEF IsValid, ListValid
    <3>5. pc' = "loop"
      BY <1>7, <2>3, <3>4 DEF EndCall, AfterDispatch
    <3> QED
      BY <1>2, <1>7, <3>4, <3>5 DEF TurnInv, Mid
  <2>4. CASE todo' # <<>>
    <3>1. pc' = "dispatch"
      BY <1>7, <2>4 DEF EndCall, AfterDispatch
    <3>2. n - Len(todo') = k + 1 /\ Len(todo') \in 0..n
      <4>1. Len(todo') = Len(todo) - 1
        BY <2>2
      <4>2. n \in Nat /\ Len(todo) \in Nat /\ Len(todo) >= 1 /\ k \in Nat /\ k + Len(todo) = n
        BY <1>4
      <4> QED
        BY <4>1, <4>2
    <3>3. \A i \in DOMAIN todo' : todo'[i] = k + 1 + i
      <4> TAKE i \in DOMAIN todo'
      <4>1. i \in 1..(Len(todo) - 1) /\ i + 1 \in 1..Len(todo)
        BY <1>4, <2>2
      <4>2. todo'[i] = k + (i + 1)
        BY <1>5, <2>2, <4>1
      <4> QED
        BY <1>4, <4>1, <4>2
    <3>4. Dispatching'
      BY <2>1, <3>2, <3>3 DEF Dispatching
    <3> QED
      BY <1>2, <1>7, <3>1, <3>4 DEF TurnInv, Mid
  <2> QED
    BY <2>3, <2>4
<1>8. ASSUME log' = AppendMsg(log, ResultMsg(Head(todo), {})), EndCall
      PROVE  TurnInv' /\ Extends(log, log')
  <2> DEFINE m == ResultMsg(Head(todo), {})
  <2>1. {} \in SUBSET Passages
    OBVIOUS
  <2>2. /\ Good(log') /\ InTurn(log') /\ Extends(log, log') /\ log'.entries = Append(es, m)
        /\ m \in Messages /\ m.kind \in ToolKinds /\ m.id = Head(todo)
    BY <1>1, <1>6, <1>8, <2>1, ResultGood
  <2> HIDE DEF m, es
  <2> QED
    BY <1>6, <1>7, <1>8, <2>2
<1>9. CASE DispatchRefused
  BY <1>8, <1>9 DEF DispatchRefused
<1>10. CASE DispatchCalc
  BY <1>8, <1>10 DEF DispatchCalc
<1>11. CASE DispatchResearch
  <2>1. PICK ids \in Packets : \E x \in Trimmed(log, ids, settings.reuse) :
          log' = AppendEvidence(log, Labelled(SubSeq(ids, 1, x)), settings.reuse)
    BY <1>11 DEF DispatchResearch
  <2>2. PICK x \in Trimmed(log, ids, settings.reuse) :
          log' = AppendEvidence(log, Labelled(SubSeq(ids, 1, x)), settings.reuse)
    BY <2>1
  <2> DEFINE ps == Labelled(SubSeq(ids, 1, x))
             m == EvidenceMsg(Display(ps, log.seen, settings.reuse))
  <2>3. ps \in SUBSET Shown
    BY LabelledType DEF Trimmed
  <2>4. settings.reuse \in BOOLEAN
    BY TutorTurnAssumption DEF SettingsType, TypeOK
  <2> HIDE DEF ps
  <2>5. /\ Good(log') /\ InTurn(log') /\ log'.entries = Append(es, m)
        /\ m \in Messages /\ m.kind = "evidence" /\ m.id = NoId
    BY <1>1, <2>2, <2>3, <2>4, AppendEvidenceGood DEF ps
  <2>6. Extends(log, log')
    BY <1>1, <2>2, <2>3, <2>4, ExtendsSelf, ExtendsEvidence DEF ps
  <2>7. EndCall
    BY <1>11 DEF DispatchResearch
  <2> HIDE DEF m
  <2> QED
    BY <1>7, <2>5, <2>6, <2>7 DEF ToolKinds
<1>12. CASE DispatchCancelled
  <2> DEFINE rest == [i \in DOMAIN todo |-> ResultMsg(todo[i], {})]
             h == Len(todo)
  <2>1. log' = [log EXCEPT !.entries = @ \o rest] /\ pc' = AfterDispatch(<<>>, "return")
    BY <1>12 DEF DispatchCancelled
  <2>2. \A i \in 1..h : ResultMsg(todo[i], {}) \in Messages
    <3> TAKE i \in 1..h
    <3>1. todo[i] \in CallIds /\ {} \in SUBSET Passages
      BY <1>1, ElementOfSeq
    <3> QED
      BY <3>1, MessageTypes
  <2>3. rest \in [1..h -> Messages]
    BY <1>4, <2>2
  <2>4. \A j \in 1..h : /\ rest[j].kind \in ToolKinds /\ rest[j].id \in {NoId, k + j}
                        /\ rest[j].shown = {}
    BY <1>4, <1>5 DEF ResultMsg, Message, ToolKinds
  <2> HIDE DEF rest
  <2>5. rest \in Seq(Messages) /\ Len(rest) = h
    BY <1>4, <2>3, FcnIsSeq
  <2>6. Answering(es \o rest, k + Len(rest), n)
    <3>1. k + Len(rest) <= n
      BY <1>4, <2>5
    <3> QED
      BY <1>4, <1>5, <2>4, <2>5, <3>1, ResultsAnswer
  <2>7. Good(log') /\ log'.entries = es \o rest /\ log'.entries # <<>> /\ Extends(log, log')
    BY <1>1, <2>1, <2>4, <2>5, AppendResultsGood
  <2>8. IsValid(log')
    <3>1. k + Len(rest) = n /\ log'.entries \in Seq(Messages)
      BY <1>4, <2>5, <2>7 DEF Good, Logs
    <3>2. ListValid(log'.entries)
      BY <2>6, <2>7, <3>1, AnsweredValid
    <3> QED
      BY <3>2 DEF IsValid, ListValid
  <2>9. pc' = "return"
    BY <2>1, <2>8 DEF AfterDispatch
  <2> QED
    BY <1>2, <2>7, <2>8, <2>9 DEF TurnInv, Mid
<1> QED
  BY <1>9, <1>10, <1>11, <1>12 DEF Dispatch

\* A resumed log is in order, and is the stored list with at most some results more.
LEMMA ResumedInOrder ==
  ASSUME NEW ms, InStore(ms)
  PROVE  LET l == Repair(Rebuild(ms))
         IN  /\ Good(l) /\ IsValid(l) /\ InStore(Render(l))
             /\ IsPrefix(ms, Render(l))
             /\ IsValid(Rebuild(ms)) => Render(l) = ms
<1> DEFINE k == Rebuild(ms)
           l == Repair(k)
<1>1. CASE ms = <<>>
  <2>1. ms \in Seq(Messages) /\ Len(ms) = 0
    BY <1>1, EmptySeq
  <2>2. k \in Logs
    BY <2>1, RebuildType
  <2>3. k.system = FALSE /\ k.protected = {} /\ k.entries = <<>> /\ k.seen = {}
    <3> DEFINE leads == {n \in 1..Len(ms) : \A i \in 1..n : ms[i].kind = "evidence"}
    <3>1. leads = {} /\ DOMAIN ms = {}
      BY <2>1, LenProperties
    <3>2. /\ k.system = (1 = 2) /\ k.protected = UNION {ms[i].shown : i \in leads}
          /\ k.entries = SubSeq(ms, 1 + Cardinality(leads), Len(ms))
          /\ k.seen = UNION {IdsOf(ms[i].shown) : i \in DOMAIN ms}
      BY <1>1 DEF Rebuild
    <3> HIDE DEF leads, k
    <3>3. k.entries = SubSeq(ms, 1 + 0, 0)
      BY <2>1, <3>1, <3>2, FS_EmptySet
    <3>4. SubSeq(ms, 1, 0) = <<>>
      BY SubSeqEmpty
    <3>5. k.protected = {} /\ k.seen = {}
      BY <3>1, <3>2
    <3>6. k.system = FALSE
      <4>1. k.system = (1 = 2)
        BY <3>2
      <4>2. (1 = 2) = FALSE
        BY SMT
      <4> QED
        BY <4>1, <4>2, Zenon
    <3>7. k.entries = <<>>
      BY <3>3, <3>4
    <3> QED
      BY <3>5, <3>6, <3>7
  <2> HIDE DEF k
  <2>4. Good(k) /\ IsValid(k)
    BY <2>2, <2>3 DEF Good, Shaped, Closes, Headed, Names, IsValid
  <2>5. l = k
    BY <2>4 DEF Repair
  <2>6. Render(k) = <<>>
    <3>1. Preamble(k) \in Seq(Messages) /\ Len(Preamble(k)) = 0 + 0
      <4>1. Cardinality(k.protected) = 0 /\ ~k.system
        BY <2>3, FS_EmptySet
      <4> QED
        BY <2>2, <4>1, PreambleIs
    <3>2. Preamble(k) = <<>>
      BY <3>1, EmptySeq
    <3> QED
      BY <2>2, <2>3, <3>2, RenderIs, ConcatEmptySeq
  <2>7. InStore(ms)
    BY <1>1 DEF InStore
  <2>8. IsPrefix(ms, Render(l))
    BY <1>1, <2>1, <2>5, <2>6 DEF IsPrefix
  <2> HIDE DEF l
  <2> QED
    BY <1>1, <2>4, <2>5, <2>6, <2>7, <2>8 DEF k, l
<1>2. CASE ms # <<>>
  <2>1. PICK o \in Logs : /\ Good(o) /\ o.entries # <<>> /\ ms = Render(o)
                          /\ IsValid(o) \/ o = DanglingLog
    BY <1>2 DEF InStore
  <2>2. k = Reseen(o)
    BY <2>1, RebuildRender
  <2>3. Good(k) /\ Render(k) = ms /\ k.entries = o.entries /\ k.entries # <<>> /\ k \in Logs
    BY <2>1, <2>2, ReseenGood DEF Good
  <2> HIDE DEF k
  <2>4. CASE IsValid(k)
    <3>1. l = k
      BY <2>4 DEF Repair
    <3>2. IsPrefix(Render(k), Render(k))
      BY <2>3, ExtendsSelf, ExtendsPrefix
    <3>3. InStore(Render(k))
      BY <2>3, <2>4 DEF InStore
    <3> HIDE DEF l
    <3> QED
      BY <2>3, <2>4, <3>1, <3>2, <3>3 DEF k, l
  <2>5. CASE ~IsValid(k)
    <3>1. o = DanglingLog
      BY <2>1, <2>3, <2>5 DEF IsValid
    <3>2. k.entries = <<UserMsg(1), CallsMsg(CallIds), ResultMsg(1, {})>>
      BY <2>3, <3>1 DEF DanglingLog, EmptyLog
    <3>3. /\ Len(k.entries) = 3 /\ DOMAIN k.entries = 1..3
          /\ k.entries[1].kind = "user" /\ k.entries[2].kind = "calls"
          /\ k.entries[2].ids = CallIds
          /\ k.entries[3].kind \in ToolKinds /\ k.entries[3].id = 1 /\ 1 \in CallIds
      <4>1. /\ UserMsg(1).kind = "user" /\ CallsMsg(CallIds).kind = "calls"
            /\ CallsMsg(CallIds).ids = CallIds /\ ResultMsg(1, {}).kind \in ToolKinds
            /\ ResultMsg(1, {}).id = 1
        BY DEF UserMsg, CallsMsg, ResultMsg, Message, ToolKinds
      <4>2. 1 \in CallIds
        BY PromptLogAssumption DEF CallIds
      <4>3. /\ k.entries[1] = UserMsg(1) /\ k.entries[2] = CallsMsg(CallIds)
            /\ k.entries[3] = ResultMsg(1, {}) /\ Len(k.entries) = 3
        BY <3>2
      <4>4. k.entries \in Seq(Messages)
        BY <2>3 DEF Logs
      <4>5. DOMAIN k.entries = 1..3
        BY <4>3, <4>4, LenProperties
      <4> QED
        BY <4>1, <4>2, <4>3, <4>5
    <3>4. /\ 2 \in DOMAIN k.entries
          /\ \A j \in (2 + 1)..Len(k.entries) :
                k.entries[j].kind \in ToolKinds /\ k.entries[j].id \in k.entries[2].ids
          /\ \A i \in 1..(2 - 1) : k.entries[i].kind = "calls" => AnsweredAt(k.entries, i)
      <4>1. \A j \in (2 + 1)..Len(k.entries) : j = 3
        BY <3>3
      <4>2. \A i \in 1..(2 - 1) : i = 1
        OBVIOUS
      <4>3. 2 \in 1..3
        OBVIOUS
      <4> QED
        BY <3>3, <4>1, <4>2, <4>3
    <3>5. Good(l) /\ IsValid(l) /\ l.entries # <<>> /\ Extends(k, l)
      BY <2>3, <3>3, <3>4, RepairAnswers
    <3> HIDE DEF l
    <3>6. InStore(Render(l))
      BY <3>5 DEF InStore, Good
    <3>7. IsPrefix(Render(k), Render(l))
      BY <2>3, <3>5, ExtendsPrefix
    <3> QED
      BY <2>3, <2>5, <3>5, <3>6, <3>7 DEF k, l
  <2> QED
    BY <2>4, <2>5
<1> QED
  BY <1>1, <1>2

\* The end of a turn: repair finds nothing to do.
LEMMA PersistInOrder ==
  ASSUME TypeOK, TurnInv, Persist
  PROVE  TurnInv' /\ log' = log
<1>1. Good(log) /\ IsValid(log) /\ log.entries # <<>> /\ pc = "return" /\ log \in Logs
  BY DEF TurnInv, TypeOK, Persist
<1>2. log' = log /\ pc' = "idle" /\ (saved' = Render(log) \/ saved' = saved)
  BY <1>1 DEF Persist, Repair
<1>3. InStore(Render(log))
  BY <1>1 DEF InStore
<1> QED
  BY <1>1, <1>2, <1>3 DEF TurnInv, Mid

\* A restart.
LEMMA ResumeInOrder ==
  ASSUME TypeOK, TurnInv, Resume
  PROVE  /\ TurnInv' /\ IsPrefix(saved, Render(log')) /\ saved' = Render(log') /\ IsValid(log')
<1> DEFINE k == Rebuild(saved)
<1>1. /\ log' = Repair(k) /\ pc' = "idle"
      /\ saved' = IF IsValid(k) THEN saved ELSE Render(log')
  BY DEF Resume
<1>2. InStore(saved)
  BY DEF TurnInv
<1>3. /\ Good(log') /\ IsValid(log') /\ InStore(Render(log')) /\ IsPrefix(saved, Render(log'))
      /\ IsValid(k) => Render(log') = saved
  BY <1>1, <1>2, ResumedInOrder
<1>4. saved' = Render(log')
  BY <1>1, <1>3
<1> QED
  BY <1>1, <1>3, <1>4 DEF TurnInv, Mid

\* A Stop changes nothing, a crash leaves a new log.
LEMMA StopCrashInOrder ==
  ASSUME TypeOK, TurnInv, Stop \/ Crash
  PROVE  TurnInv'
<1>1. CASE Stop
  BY <1>1 DEF Stop, locals, TurnInv, Mid, Dispatching
<1>2. CASE Crash
  BY <1>2, EmptyLogGood DEF Crash, TurnInv, Mid
<1> QED
  BY <1>1, <1>2

\* A lesson begins in order.
LEMMA InitInOrder == Init => TurnInv
<1> SUFFICES ASSUME Init PROVE TurnInv
  OBVIOUS
<1>1. InStore(saved)
  BY DanglingGood DEF Init, InStore
<1> QED
  BY <1>1, EmptyLogGood DEF Init, TurnInv, Mid

\* Every step keeps it in order; it only ever grows, except by an eviction or a restart.
LEMMA NextInOrder ==
  ASSUME TypeOK, TurnInv, [Next]_vars
  PROVE  /\ TurnInv'
         /\ \/ pc = "down" \/ pc' = "down"
            \/ log' = Evict(log) \/ Extends(log, log')
<1>0. log \in Logs
  BY DEF TypeOK
<1>1. CASE UNCHANGED vars
  <2>1. log' = log
    BY <1>1 DEF vars
  <2> QED
    BY <1>0, <1>1, <2>1, ExtendsSelf DEF vars, locals, TurnInv, Dispatching
<1>2. CASE StartTurn
  BY <1>2, StartTurnInOrder
<1>3. CASE Presearch
  BY <1>3, PresearchInOrder
<1>4. CASE ForcedRound
  BY <1>4, ForcedRoundInOrder
<1>5. CASE Answer
  BY <1>5, AnswerInOrder
<1>6. CASE Dispatch
  BY <1>6, DispatchInOrder
<1>7. CASE Persist
  BY <1>0, <1>7, PersistInOrder, ExtendsSelf
<1>8. CASE Stop
  BY <1>0, <1>8, StopCrashInOrder, ExtendsSelf DEF Stop
<1>9. CASE Crash
  BY <1>9, StopCrashInOrder DEF Crash
<1>10. CASE Resume
  BY <1>10, ResumeInOrder DEF Resume
<1> QED
  BY <1>1, <1>2, <1>3, <1>4, <1>5, <1>6, <1>7, <1>8, <1>9, <1>10 DEF Next

\* The turn loop keeps its log in order.
LEMMA InOrder == Spec => []TurnInv
  BY InitInOrder, NextInOrder, TypeCorrect, PTL DEF Spec

\* Whenever the model is sent the log, and whenever a turn is over, every tool call in it is
\* followed by exactly its results: after any calls, refusals, stops, evictions, crashes
\* and repairs (PromptLog.validate).
THEOREM RequestsReplayableHolds == Spec => []RequestsReplayable
<1>1. TurnInv => RequestsReplayable
  BY DEF TurnInv, RequestsReplayable
<1> QED
  BY <1>1, InOrder, PTL

\* The answer is the last message of its turn, whatever rounds came before it and whatever
\* was evicted since.
THEOREM AnswerClosesTurnHolds == Spec => []AnswerClosesTurn
<1>1. TurnInv => AnswerClosesTurn
  BY DEF TurnInv, Good, Closes, AnswerClosesTurn
<1> QED
  BY <1>1, InOrder, PTL

\* A held passage is named by a message of the log, or pasted in one: evict recomputes the
\* held ids, a resume reads them off, a forced round marks what it pastes.
THEOREM HeldIsNamedHolds == Spec => []HeldIsNamed
<1>1. TurnInv => HeldIsNamed
  BY DEF TurnInv, Good, Names, HeldIsNamed
<1> QED
  BY <1>1, InOrder, PTL

-----------------------------------------------------------------------------
(* What an answer request may carry *)

\* The only step into "stream" is the request that evict makes room for.
LEMMA NextExplained ==
  ASSUME TypeOK, TurnInv, OversizedRequestExplained, [Next]_vars
  PROVE  OversizedRequestExplained'
<1>1. CASE pc' # "stream"
  BY <1>1 DEF OversizedRequestExplained
<1>2. CASE pc' = "stream" /\ log' = log /\ pc = "stream"
  BY <1>2 DEF OversizedRequestExplained
<1>3. CASE Request
  <2>1. Good(log) /\ IsValid(log) /\ log.entries # <<>> /\ log' = Evict(log)
    BY <1>3 DEF Request, TurnInv, Mid, InTurn
  <2> QED
    BY <2>1, EvictGood DEF OversizedRequestExplained
<1>4. pc' # "stream" \/ (log' = log /\ pc' = pc) \/ Request
  <2>1. CASE UNCHANGED vars
    BY <2>1 DEF vars
  <2>2. CASE StartTurn
    BY <2>2 DEF StartTurn, ActionTurn, DescribeTurn, ReplyTurn, OfferAgain, HostReply,
                ChatTurn, QuestionTurn, BeginText, Begin
  <2>3. CASE Presearch
    BY <2>3 DEF Presearch, TurnRaises, GuessFails, PresearchAsks, PresearchThenForced,
                PresearchThenRewrite, PresearchThenShow, Searched
  <2>4. CASE ForcedRound
    BY <2>4 DEF ForcedRound, RoundSkipped, RoundUnusable, RoundSearches, EndRound, AfterRound
  <2>5. CASE Answer
    BY <2>5 DEF Answer, LoopCancelled, StreamEnds, StreamAnswers, StreamCalls
  <2>6. CASE Dispatch
    BY <2>6 DEF Dispatch, DispatchCancelled, DispatchRefused, DispatchResearch, DispatchCalc,
                EndCall, AfterDispatch
  <2>7. CASE Persist \/ Stop \/ Crash \/ Resume
    BY <2>7 DEF Persist, Stop, Crash, Resume
  <2> QED
    BY <2>1, <2>2, <2>3, <2>4, <2>5, <2>6, <2>7 DEF Next
<1> QED
  BY <1>1, <1>2, <1>3, <1>4

\* A request longer than the operating ceiling is the newest turn alone, or carries
\* passages put back for an answer that cites them.
THEOREM OversizedRequestExplainedHolds == Spec => []OversizedRequestExplained
<1>1. Init => OversizedRequestExplained
  BY DEF Init, OversizedRequestExplained
<1> QED
  BY <1>1, NextExplained, InOrder, TypeCorrect, PTL DEF Spec

-----------------------------------------------------------------------------
(* The searches of one turn *)

\* The strengthening of ResearchBounded: what is left to the rounds and the guesses to
\* come.  A turn begins with nothing searched.
ResearchInv ==
    /\ research <= 1 + 2 * MaxQueries
    /\ pc = "forced" => research = 1
    /\ pc = "rewrite" => research <= 1 + MaxQueries
    /\ gates <= Notes + 1
    /\ pc \in {"idle", "down", "resolve"} => gates = 0 /\ tried = 0
    /\ pc = "presearch" => gates <= tried + 1

\* The searches of the pre-search, the forced rounds and the model's own calls: only the
\* second forced round can follow the first, and the model's calls stop at their cap.
LEMMA NextCounted ==
  ASSUME TypeOK, ResearchInv, Next
  PROVE  /\ research' <= 1 + 2 * MaxQueries
         /\ pc' = "forced" => research' = 1
         /\ pc' = "rewrite" => research' <= 1 + MaxQueries
<1> DEFINE Counted == /\ research' <= 1 + 2 * MaxQueries
                      /\ pc' = "forced" => research' = 1
                      /\ pc' = "rewrite" => research' <= 1 + MaxQueries
<1> SUFFICES Counted
  OBVIOUS
<1>0. /\ MaxQueries \in Nat /\ research \in Nat /\ ResearchCap \in Nat
      /\ research <= 1 + 2 * MaxQueries
      /\ pc = "forced" => research = 1
      /\ pc = "rewrite" => research <= 1 + MaxQueries
  BY TutorTurnAssumption DEF TypeOK, ResearchInv
<1>1. CASE StartTurn
  <2>1. research' = research /\ pc' \notin {"forced", "rewrite"}
    BY <1>1 DEF StartTurn, ActionTurn, DescribeTurn, ReplyTurn, OfferAgain, HostReply,
                ChatTurn, QuestionTurn, BeginText, Begin, locals
  <2> QED
    BY <1>0, <2>1
<1>2. CASE Presearch
  <2>1. research' = 1 \/ (research' = 0 /\ pc' = "idle")
    BY <1>2 DEF Presearch, TurnRaises, GuessFails, PresearchAsks, PresearchThenForced,
                PresearchThenRewrite, PresearchThenShow, Searched, ClearLocals
  <2> QED
    BY <1>0, <2>1
<1>3. CASE ForcedRound
  <2>1. /\ pc \in {"forced", "rewrite"} /\ pc' \in {"rewrite", "loop"}
        /\ pc' = "rewrite" => pc = "forced"
        /\ \E ok \in 0..MaxQueries : research' = research + ok
    <3>1. CASE RoundSkipped \/ RoundUnusable
      <4>1. 0 \in 0..MaxQueries /\ research = research + 0
        BY <1>0
      <4> QED
        BY <3>1, <4>1 DEF RoundSkipped, RoundUnusable, EndRound, AfterRound
    <3>2. CASE RoundSearches
      BY <3>2 DEF RoundSearches, EndRound, AfterRound
    <3> QED
      BY <1>3, <3>1, <3>2 DEF ForcedRound
  <2>2. PICK ok \in 0..MaxQueries : research' = research + ok
    BY <2>1
  <2> QED
    BY <1>0, <2>1, <2>2
<1>4. CASE Answer
  <2>1. research' = research /\ pc' \in {"return", "stream", "dispatch"}
    BY <1>4 DEF Answer, LoopCancelled, Request, StreamEnds, StreamAnswers, StreamCalls, locals
  <2> QED
    BY <1>0, <2>1
<1>5. CASE Dispatch
  <2>1. /\ pc' \in {"return", "dispatch", "loop", "idle"}
        /\ research' = research \/ (research < ResearchCap /\ research' = research + 1)
    BY <1>5 DEF Dispatch, DispatchCancelled, DispatchRefused, DispatchResearch, DispatchCalc,
                EndCall, AfterDispatch
  <2> QED
    BY <1>0, <2>1, ResearchCapAssumption
<1>6. CASE Persist \/ Crash
  <2>1. research' = 0 /\ pc' \in {"idle", "down"}
    BY <1>6 DEF Persist, Crash, ClearLocals
  <2> QED
    BY <1>0, <2>1
<1>7. CASE Stop \/ Resume
  <2>1. research' = research /\ (pc' = pc \/ pc' = "idle")
    BY <1>7 DEF Stop, Resume, locals
  <2> QED
    BY <1>0, <2>1
<1> QED
  BY <1>1, <1>2, <1>3, <1>4, <1>5, <1>6, <1>7 DEF Next

\* The searches of the clarify checks: one when the reply to an earlier question is read,
\* one per guess of the pre-search, and a turn that ends leaves none behind.
LEMMA NextGated ==
  ASSUME TypeOK, TurnInv', ResearchInv, Next
  PROVE  /\ gates' <= Notes + 1
         /\ pc' \in {"idle", "down", "resolve"} => gates' = 0 /\ tried' = 0
         /\ pc' = "presearch" => gates' <= tried' + 1
<1> DEFINE Gated == /\ gates' <= Notes + 1
                    /\ pc' \in {"idle", "down", "resolve"} => gates' = 0 /\ tried' = 0
                    /\ pc' = "presearch" => gates' <= tried' + 1
<1> SUFFICES Gated
  OBVIOUS
<1>0. /\ gates \in Nat /\ tried \in 0..2 /\ Notes = 2
      /\ gates <= Notes + 1
      /\ pc \in {"idle", "down", "resolve"} => gates = 0 /\ tried = 0
      /\ pc = "presearch" => gates <= tried + 1
  BY DEF TypeOK, ResearchInv, Notes
<1>1. CASE StartTurn
  <2>1. /\ pc \in {"idle", "resolve"} /\ tried' = tried
        /\ gates' \in {gates, gates + 1}
        /\ pc' \in {"loop", "return", "presearch", "resolve"}
        /\ pc' = "resolve" => gates' = gates
    BY <1>1 DEF StartTurn, ActionTurn, DescribeTurn, ReplyTurn, OfferAgain, HostReply,
                ChatTurn, QuestionTurn, BeginText, Begin, MaySearchName, locals
  <2> QED
    BY <1>0, <2>1
<1>2. CASE GuessFails
  <2>1. /\ pc = "presearch" /\ pc' = pc /\ tried < Notes /\ tried' = tried + 1
        /\ gates' \in {gates, gates + 1}
    BY <1>2 DEF GuessFails, MaySearchName
  <2> QED
    BY <1>0, <2>1
<1>3. CASE PresearchAsks
  <2>1. /\ pc = "presearch" /\ pc' = "return" /\ tried < Notes /\ gates' = gates + 1
    BY <1>3 DEF PresearchAsks
  <2> QED
    BY <1>0, <2>1
<1>4. CASE gates' = gates /\ pc' \in Running \ {"resolve", "presearch"}
  BY <1>0, <1>4 DEF Running
<1>5. CASE gates' = 0 /\ tried' = 0
  BY <1>0, <1>5
<1>6. CASE TurnRaises \/ Persist \/ Crash
  BY <1>5, <1>6 DEF TurnRaises, Persist, Crash, ClearLocals
<1>7. CASE PresearchThenForced \/ PresearchThenRewrite \/ PresearchThenShow
  BY <1>4, <1>5, <1>7 DEF PresearchThenForced, PresearchThenRewrite, PresearchThenShow,
                          Searched, ClearLocals, Running
<1>8. CASE ForcedRound
  BY <1>4, <1>8 DEF ForcedRound, RoundSkipped, RoundUnusable, RoundSearches, EndRound,
                    AfterRound, Running
<1>9. CASE Answer
  BY <1>4, <1>9 DEF Answer, LoopCancelled, Request, StreamEnds, StreamAnswers, StreamCalls,
                    locals, Running
<1>10. CASE Dispatch
  <2>1. gates' = gates
    BY <1>10 DEF Dispatch, DispatchCancelled, DispatchRefused, DispatchResearch, DispatchCalc,
                 EndCall
  <2>2. pc' \in {"dispatch", "return", "loop"}
    <3>1. \/ pc' = AfterDispatch(<<>>, "return")
          \/ pc' = AfterDispatch(todo', "loop")
      BY <1>10 DEF Dispatch, DispatchCancelled, DispatchRefused, DispatchResearch,
                   DispatchCalc, EndCall
    <3>2. pc' = "idle" => IsValid(log')
      BY DEF TurnInv
    <3> QED
      BY <3>1, <3>2 DEF AfterDispatch
  <2> QED
    BY <1>4, <2>1, <2>2 DEF Running
<1>11. CASE Stop \/ Resume
  <2>1. /\ gates' = gates /\ tried' = tried
        /\ pc' = pc \/ (pc = "down" /\ pc' = "idle")
    BY <1>11 DEF Stop, Resume, locals
  <2> QED
    BY <1>0, <2>1
<1> QED
  BY <1>1, <1>2, <1>3, <1>6, <1>7, <1>8, <1>9, <1>10, <1>11 DEF Next, Presearch

\* Every step preserves the strengthening.
LEMMA NextResearch ==
  ASSUME TypeOK, TurnInv, ResearchInv, [Next]_vars
  PROVE  ResearchInv'
<1>1. CASE UNCHANGED vars
  <2>1. research' = research /\ gates' = gates /\ tried' = tried /\ pc' = pc
    BY <1>1 DEF vars, locals
  <2> QED
    BY <2>1 DEF ResearchInv
<1>2. CASE Next
  <2>1. TurnInv'
    BY NextInOrder
  <2> QED
    BY <1>2, <2>1, NextCounted, NextGated DEF ResearchInv
<1> QED
  BY <1>1, <1>2

\* What a turn may cost: the host's own search, MaxQueries searches in each of two forced
\* rounds, whatever the model calls by itself, and the searches of the clarify checks: one
\* per way of asking about an unknown word, and one for the reply to an earlier question.
THEOREM ResearchBoundedHolds == Spec => []ResearchBounded
<1>1. Init => ResearchInv
  BY TutorTurnAssumption DEF Init, FreshLocals, ResearchInv, Notes
<1>2. TypeOK /\ ResearchInv => ResearchBounded
  BY TutorTurnAssumption DEF TypeOK, ResearchInv, ResearchBounded, Notes
<1> QED
  BY <1>1, <1>2, NextResearch, InOrder, TypeCorrect, PTL DEF Spec

-----------------------------------------------------------------------------
(* What a step may never do *)

\* While a process lives, the list the model is sent is only ever extended, unless the log
\* had outgrown the operating ceiling: the model server's prefix cache stays warm.
THEOREM PrefixKeptHolds == Spec => PrefixKept
<1> DEFINE A == pc # "down" /\ pc' # "down" =>
                   \/ IsPrefix(Render(log), Render(log'))
                   \/ Tokens(log.protected, log.entries) > OperatingCeiling
<1>1. ASSUME TypeOK, TurnInv, [Next]_vars PROVE A
  <2> SUFFICES ASSUME pc # "down", pc' # "down",
                      ~(Tokens(log.protected, log.entries) > OperatingCeiling)
               PROVE  IsPrefix(Render(log), Render(log'))
    OBVIOUS
  <2>1. log \in Logs
    BY <1>1 DEF TypeOK
  <2>2. Extends(log, log')
    <3>1. Evict(log) = log
      BY DEF Evict, OverCeiling
    <3>2. log' = Evict(log) \/ Extends(log, log')
      BY <1>1, NextInOrder
    <3> QED
      BY <2>1, <3>1, <3>2, ExtendsSelf
  <2> QED
    BY <2>1, <2>2, ExtendsPrefix
<1>2. [][TypeOK /\ TurnInv /\ Next]_vars => [][A]_vars
  <2>1. [TypeOK /\ TurnInv /\ Next]_vars => [A]_vars
    BY <1>1
  <2> QED
    BY <2>1, PTL
<1>3. Spec => [][TypeOK /\ TurnInv /\ Next]_vars
  BY InOrder, TypeCorrect, PTL DEF Spec
<1> QED
  BY <1>2, <1>3, PTL DEF PrefixKept

\* No label that an answer left by an eviction cites loses its passage.
THEOREM EvictKeepsCitedHolds == Spec => EvictKeepsCited
<1> DEFINE A == pc = "loop" /\ pc' = "stream" =>
          CitedLabels(log'.entries) \cap LabelsOf(log.protected \cup ShownIn(log.entries))
             \subseteq LabelsOf(log'.protected \cup ShownIn(log'.entries))
<1>1. ASSUME TurnInv, Next PROVE A
  <2> SUFFICES ASSUME pc = "loop", pc' = "stream"
               PROVE  CitedLabels(log'.entries)
                         \cap LabelsOf(log.protected \cup ShownIn(log.entries))
                      \subseteq LabelsOf(log'.protected \cup ShownIn(log'.entries))
    OBVIOUS
  <2>1. Good(log) /\ log.entries # <<>>
    BY <1>1 DEF TurnInv, Mid, InTurn
  <2>2. log' = Evict(log)
    BY <1>1 DEF Next, StartTurn, ActionTurn, DescribeTurn, ReplyTurn, OfferAgain,
                HostReply, ChatTurn, QuestionTurn, BeginText, Begin,
                Presearch, TurnRaises, GuessFails, PresearchAsks, PresearchThenForced,
                PresearchThenRewrite, PresearchThenShow, Searched, ForcedRound, RoundSkipped,
                RoundUnusable, RoundSearches, Answer, LoopCancelled, Request, StreamEnds,
                StreamAnswers, StreamCalls, Dispatch, DispatchCancelled, DispatchRefused,
                DispatchResearch, DispatchCalc, Persist, Stop, Crash, Resume
  <2> QED
    BY <2>1, <2>2, EvictCites
<1>2. Spec => [][TurnInv /\ Next]_vars
  BY InOrder, PTL DEF Spec
<1>3. [TurnInv /\ Next]_vars => [A]_vars
  BY <1>1
<1> QED
  BY <1>2, <1>3, PTL DEF EvictKeepsCited

\* Resuming a lesson reproduces the stored list message by message, then at most adds the
\* results a dangling tool-calls message lacks.
THEOREM ResumeExtendsSavedHolds == Spec => ResumeExtendsSaved
<1> DEFINE A == pc = "down" /\ pc' = "idle" =>
                   IsPrefix(saved, Render(log')) /\ saved' = Render(log') /\ IsValid(log')
<1>1. ASSUME TypeOK, TurnInv, Next PROVE A
  <2> SUFFICES ASSUME pc = "down", pc' = "idle"
               PROVE  IsPrefix(saved, Render(log')) /\ saved' = Render(log') /\ IsValid(log')
    OBVIOUS
  <2>1. Resume
    BY <1>1 DEF Next, StartTurn, ActionTurn, DescribeTurn, ReplyTurn, OfferAgain,
                HostReply, ChatTurn, QuestionTurn, BeginText, Begin,
                Presearch, TurnRaises, GuessFails, PresearchAsks, PresearchThenForced,
                PresearchThenRewrite, PresearchThenShow, Searched, ForcedRound, RoundSkipped,
                RoundUnusable, RoundSearches, Answer, LoopCancelled, Request, StreamEnds,
                StreamAnswers, StreamCalls, Dispatch, DispatchCancelled, DispatchRefused,
                DispatchResearch, DispatchCalc, Persist, Stop, Crash, Running
  <2> QED
    BY <1>1, <2>1, ResumeInOrder
<1>2. Spec => [][TypeOK /\ TurnInv /\ Next]_vars
  BY InOrder, TypeCorrect, PTL DEF Spec
<1>3. [TypeOK /\ TurnInv /\ Next]_vars => [A]_vars
  BY <1>1
<1> QED
  BY <1>2, <1>3, PTL DEF ResumeExtendsSaved

-----------------------------------------------------------------------------
(* No text is shown twice by a lesson's evidence *)

\* Two shown passages that put the same text into the prompt.
SameText(a, b) == a.full /\ b.full /\ a.id = b.id

\* No text is shown twice by the messages of a list.
TextOnce(ms) ==
    \A i, j \in DOMAIN ms : \A a \in ms[i].shown, b \in ms[j].shown :
        SameText(a, b) => i = j /\ a = b

\* No text is shown twice by a log, and the ids whose text it shows are held: it is
\* the held ids that keep the next packet from showing a text again.
LogOnce(l) ==
    /\ TextOnce(l.entries)
    /\ \A a, b \in l.protected : SameText(a, b) => a = b
    /\ \A a \in l.protected : a.full => a.id \in l.seen
    /\ \A i \in DOMAIN l.entries : \A b \in l.entries[i].shown :
          /\ \A a \in l.protected : ~SameText(a, b)
          /\ b.full => b.id \in l.seen

OnceInv == LogOnce(log) /\ TextOnce(saved)

\* The strengthening implies the property.
LEMMA LogOnceMeansEvidenceTextOnce == LogOnce(log) => EvidenceTextOnce
  BY DEF LogOnce, TextOnce, SameText, EvidenceTextOnce, FullIdsOf, ShownIn

-----------------------------------------------------------------------------
(* Methods that append *)

\* Messages that show nothing may be put at the end.
LEMMA SilentConcat ==
  ASSUME NEW es \in Seq(Messages), NEW rest \in Seq(Messages),
         \A i \in DOMAIN rest : rest[i].shown = {}
  PROVE  /\ TextOnce(es) => TextOnce(es \o rest)
         /\ \A i \in DOMAIN (es \o rest) :
               (es \o rest)[i].shown # {} => i \in DOMAIN es /\ (es \o rest)[i] = es[i]
<1>1. /\ DOMAIN es = 1..Len(es) /\ DOMAIN rest = 1..Len(rest)
      /\ Len(es) \in Nat /\ Len(rest) \in Nat
  BY EntryType
<1>2. /\ es \o rest \in Seq(Messages) /\ Len(es \o rest) = Len(es) + Len(rest)
      /\ \A i \in 1..(Len(es) + Len(rest)) :
            (es \o rest)[i] = IF i <= Len(es) THEN es[i] ELSE rest[i - Len(es)]
  BY ConcatProperties
<1>3. DOMAIN (es \o rest) = 1..(Len(es) + Len(rest))
  BY <1>2, EntryType
<1>4. \A i \in DOMAIN (es \o rest) :
         (es \o rest)[i].shown # {} => i \in DOMAIN es /\ (es \o rest)[i] = es[i]
  BY <1>1, <1>2, <1>3
<1> QED
  BY <1>4 DEF TextOnce

\* So does a log when such messages are appended to it.
LEMMA SilentLog ==
  ASSUME NEW l \in Logs, LogOnce(l), NEW rest \in Seq(Messages),
         \A i \in DOMAIN rest : rest[i].shown = {}
  PROVE  LogOnce([l EXCEPT !.entries = @ \o rest])
<1> DEFINE k == [l EXCEPT !.entries = @ \o rest]
<1>1. /\ l.entries \in Seq(Messages)
      /\ k.entries = l.entries \o rest /\ k.protected = l.protected /\ k.seen = l.seen
  BY DEF Logs
<1> HIDE DEF k
<1>2. /\ TextOnce(k.entries)
      /\ \A i \in DOMAIN k.entries :
            k.entries[i].shown # {} => i \in DOMAIN l.entries /\ k.entries[i] = l.entries[i]
  BY <1>1, SilentConcat DEF LogOnce
<1> QED
  BY <1>1, <1>2 DEF LogOnce, k

\* append_user, append_assistant, append_assistant_tool_calls, append_tool_result.
LEMMA SilentAppend ==
  ASSUME NEW l \in Logs, LogOnce(l), NEW m \in Messages, m.shown = {}
  PROVE  LogOnce(AppendMsg(l, m))
<1>1. <<m>> \in Seq(Messages) /\ \A i \in DOMAIN <<m>> : <<m>>[i].shown = {}
  OBVIOUS
<1>2. l.entries \in Seq(Messages)
  BY DEF Logs
<1>3. Append(l.entries, m) = l.entries \o <<m>>
  BY <1>2, AppendIsConcat
<1> QED
  BY <1>1, <1>3, SilentLog DEF AppendMsg

\* mark_held only adds to the held ids.
LEMMA MarkHeldOnce ==
  ASSUME NEW l \in Logs, LogOnce(l), NEW ids
  PROVE  LogOnce(MarkHeld(l, ids))
  BY DEF LogOnce, MarkHeld, Logs, TextOnce

\* append_system touches neither evidence nor held ids.
LEMMA AppendSystemOnce ==
  ASSUME NEW l \in Logs, LogOnce(l)
  PROVE  LogOnce(AppendSystem(l))
  BY DEF LogOnce, AppendSystem, Logs, TextOnce

\* A packet shows in full only what is not held.
LEMMA AppendEvidenceOnce ==
  ASSUME NEW l \in Logs, LogOnce(l), NEW ids \in Packets, NEW n \in 0..Len(ids),
         NEW reuse \in BOOLEAN
  PROVE  LogOnce(AppendEvidence(l, Labelled(SubSeq(ids, 1, n)), reuse))
<1> DEFINE ps == Labelled(SubSeq(ids, 1, n))
           shown == Display(ps, l.seen, reuse)
           es == Append(l.entries, EvidenceMsg(shown))
           k == AppendEvidence(l, ps, reuse)
<1>1. ps \in SUBSET Shown
  BY LabelledType
<1>2. \A a, b \in ps : a.id = b.id => a = b
  <2>1. PICK m \in 0..MaxPacket : ids \in [1..m -> Passages]
    BY PromptLogAssumption DEF Packets, BoundedSeq, SeqOf
  <2>2. m \in Nat /\ ids \in Seq(Passages) /\ Len(ids) = m /\ DOMAIN ids = 1..m
    BY <2>1, FcnIsSeq, PromptLogAssumption
  <2>3. \A i, j \in 1..m : ids[i] = ids[j] => i = j
    BY <2>2 DEF Packets, IsInjective
  <2>4. /\ SubSeq(ids, 1, n) \in Seq(Passages)
        /\ Len(SubSeq(ids, 1, n)) = n
        /\ \A i \in 1..n : SubSeq(ids, 1, n)[i] = ids[i]
    BY <2>2, SubSeqType
  <2>5. DOMAIN SubSeq(ids, 1, n) = 1..n
    BY <2>4, LenProperties
  <2>6. \A i, j \in DOMAIN SubSeq(ids, 1, n) :
           SubSeq(ids, 1, n)[i] = SubSeq(ids, 1, n)[j] => i = j
    BY <2>2, <2>3, <2>4, <2>5
  <2>7. \A a \in ps : \E i \in DOMAIN SubSeq(ids, 1, n) :
           a = [id |-> SubSeq(ids, 1, n)[i], label |-> i, full |-> TRUE]
    BY Zenon DEF Labelled
  <2> HIDE DEF ps
  <2>8. SUFFICES ASSUME NEW a \in ps, NEW b \in ps, a.id = b.id PROVE a = b
    OBVIOUS
  <2>9. PICK i \in DOMAIN SubSeq(ids, 1, n) :
           a = [id |-> SubSeq(ids, 1, n)[i], label |-> i, full |-> TRUE]
    BY <2>7
  <2>10. PICK j \in DOMAIN SubSeq(ids, 1, n) :
           b = [id |-> SubSeq(ids, 1, n)[j], label |-> j, full |-> TRUE]
    BY <2>7
  <2> QED
    BY <2>6, <2>8, <2>9, <2>10
<1> HIDE DEF ps
<1>3. /\ shown \in SUBSET Shown
      /\ \A a, b \in shown : SameText(a, b) => a = b
      /\ \A a \in shown : a.full => a.id \notin l.seen
      /\ \A a \in shown : a.id \in IdsOf(ps)
  <2>1. CASE reuse
    <3>1. \A a \in shown : \E p \in ps : a = [p EXCEPT !.full = p.id \notin l.seen]
      BY <2>1 DEF Display
    <3>2. \A p \in ps : p \in Shown
      BY <1>1
    <3>3. \A a \in shown : \E p \in ps :
             a = [id |-> p.id, label |-> p.label, full |-> p.id \notin l.seen]
      BY <3>1, <3>2 DEF Shown
    <3> HIDE DEF shown
    <3>4. ASSUME NEW a \in shown
          PROVE  a \in Shown /\ (a.full => a.id \notin l.seen) /\ a.id \in IdsOf(ps)
      <4>1. PICK p \in ps : a = [id |-> p.id, label |-> p.label, full |-> p.id \notin l.seen]
        BY <3>3
      <4>2. p.id \in Passages /\ p.label \in Labels
        BY <3>2 DEF Shown
      <4>3. a \in Shown
        BY <4>1, <4>2 DEF Shown
      <4>4. a.id = p.id /\ a.full = (p.id \notin l.seen)
        BY <4>1
      <4> QED
        BY <4>3, <4>4 DEF IdsOf
    <3>6. ASSUME NEW a \in shown, NEW b \in shown, SameText(a, b) PROVE a = b
      <4>1. PICK p \in ps : a = [id |-> p.id, label |-> p.label, full |-> p.id \notin l.seen]
        BY <3>3
      <4>2. PICK q \in ps : b = [id |-> q.id, label |-> q.label, full |-> q.id \notin l.seen]
        BY <3>3
      <4>3. p.id = q.id
        BY <3>6, <4>1, <4>2 DEF SameText
      <4>4. p = q
        BY <1>2, <4>3
      <4> QED
        BY <4>1, <4>2, <4>4
    <3> QED
      BY <3>4, <3>6
  <2>2. CASE ~reuse
    BY <1>1, <1>2, <2>2 DEF Display, Shown, SameText, IdsOf
  <2> QED
    BY <2>1, <2>2
<1> HIDE DEF shown
<1>4. EvidenceMsg(shown) \in Messages /\ EvidenceMsg(shown).shown = shown
  BY <1>3, MessageTypes DEF EvidenceMsg, Message
<1>5. l.entries \in Seq(Messages) /\ Len(l.entries) \in Nat
  BY EntryType DEF Logs
<1>6. /\ DOMAIN es = 1..(Len(l.entries) + 1) /\ DOMAIN l.entries = 1..Len(l.entries)
      /\ \A i \in DOMAIN l.entries : es[i] = l.entries[i]
      /\ es[Len(l.entries) + 1].shown = shown
  BY <1>4, <1>5, AppendProperties, LenProperties
<1> HIDE DEF es
<1>7. /\ k.entries = es /\ k.protected = l.protected
      /\ k.seen = l.seen \cup IdsOf(ps)
  BY DEF AppendEvidence, AppendMsg, MarkHeld, Logs, es, shown
<1> HIDE DEF k
<1>8. \A i \in DOMAIN es : \/ i \in DOMAIN l.entries /\ es[i] = l.entries[i]
                           \/ i = Len(l.entries) + 1 /\ es[i].shown = shown
  BY <1>5, <1>6
<1>9. TextOnce(es)
  BY <1>3, <1>8 DEF LogOnce, TextOnce, SameText
<1> QED
  <2>1. LogOnce(k)
    BY <1>3, <1>7, <1>8, <1>9 DEF LogOnce, SameText
  <2> QED
    BY <2>1 DEF k, ps

-----------------------------------------------------------------------------
(* evict *)

\* Trimming only takes passages out of messages, and segments only messages out of
\* the log.
LEMMA LessOnce ==
  ASSUME NEW es, NEW ds, NEW cut \in Nat,
         \A i \in DOMAIN ds : cut + i \in DOMAIN es /\ ds[i].shown \subseteq es[cut + i].shown,
         DOMAIN ds \subseteq Nat, TextOnce(es)
  PROVE  TextOnce(ds)
<1> SUFFICES ASSUME NEW i \in DOMAIN ds, NEW j \in DOMAIN ds,
                    NEW a \in ds[i].shown, NEW b \in ds[j].shown, SameText(a, b)
             PROVE  i = j /\ a = b
  BY DEF TextOnce
<1>1. a \in es[cut + i].shown /\ b \in es[cut + j].shown
  OBVIOUS
<1>2. cut + i = cut + j /\ a = b
  BY <1>1 DEF TextOnce
<1> QED
  BY <1>2

\* Stage 1 of evict leaves each message with a part of what it showed.
LEMMA DropAtLess ==
  ASSUME NEW es \in Seq(Messages), NEW positions
  PROVE  /\ DropAt(es, positions) \in Seq(Messages)
         /\ Len(DropAt(es, positions)) = Len(es)
         /\ \A i \in DOMAIN es : DropAt(es, positions)[i].shown \subseteq es[i].shown
<1>1. \A m \in Messages : \A needed : CitedOnly(m, needed).shown \subseteq m.shown
  BY DEF CitedOnly, Messages, Message
<1> QED
  BY <1>1, DropAtType, EntryType

\* The passages put back come from messages that are removed, so no message that
\* stays, and no protected passage, shows their text.
LEMMA EvictOnce ==
  ASSUME NEW l \in Logs, LogOnce(l)
  PROVE  LogOnce(Evict(l))
<1> SUFFICES ASSUME Evict(l) # l PROVE LogOnce(Evict(l))
  OBVIOUS
<1>1. PICK es \in Seq(Messages), cut \in Nat, D \in SUBSET DOMAIN l.entries :
        LET kept      == SubSeq(es, cut + 1, Len(es))
            protected == l.protected
                         \cup Reprefill(SubSeq(es, 1, cut), CitedLabels(kept),
                                        LabelsOf(l.protected \cup ShownIn(kept)))
        IN  /\ es = DropAt(l.entries, D)
            /\ cut <= Len(es) /\ Len(es) = Len(l.entries)
            /\ Evict(l) = [l EXCEPT !.entries = kept, !.protected = protected,
                                    !.seen = IdsOf(protected \cup ShownIn(kept))]
  BY EvictParts
<1> DEFINE kept == SubSeq(es, cut + 1, Len(es))
           removed == SubSeq(es, 1, cut)
           put == Reprefill(removed, CitedLabels(kept),
                            LabelsOf(l.protected \cup ShownIn(kept)))
           k == [l EXCEPT !.entries = kept, !.protected = l.protected \cup put,
                          !.seen = IdsOf((l.protected \cup put) \cup ShownIn(kept))]
<1>2. Evict(l) = k
  BY <1>1
<1>3. /\ l.entries \in Seq(Messages) /\ Len(es) \in Nat
      /\ DOMAIN es = 1..Len(es) /\ DOMAIN l.entries = 1..Len(es)
  BY <1>1, EntryType DEF Logs
<1>4. \A i \in 1..Len(es) : es[i].shown \subseteq l.entries[i].shown
  BY <1>1, <1>3, DropAtLess
<1>5. /\ DOMAIN kept = 1..(Len(es) - cut)
      /\ \A i \in 1..(Len(es) - cut) : kept[i] = es[cut + i]
  <2>1. cut + 1 \in Nat \ {0} /\ Len(es) \in 0..Len(es)
    BY <1>3
  <2>2. /\ kept \in Seq(Messages)
        /\ Len(kept) = IF cut + 1 <= Len(es) THEN Len(es) - (cut + 1) + 1 ELSE 0
        /\ \A i \in 1..(Len(es) - (cut + 1) + 1) : kept[i] = es[(cut + 1) + i - 1]
    BY <2>1, SubSeqType
  <2> HIDE DEF kept
  <2>3. Len(kept) = Len(es) - cut
    BY <1>1, <1>3, <2>2
  <2>4. \A i \in 1..(Len(es) - cut) : kept[i] = es[cut + i]
    BY <1>1, <1>3, <2>2
  <2> QED
    BY <2>2, <2>3, <2>4, LenProperties
<1>6. /\ DOMAIN removed = 1..cut
      /\ \A i \in 1..cut : removed[i] = es[i]
  <2>1. cut \in 0..Len(es)
    BY <1>1, <1>3
  <2>2. /\ removed \in Seq(Messages)
        /\ Len(removed) = IF 1 <= cut THEN cut - 1 + 1 ELSE 0
        /\ \A i \in 1..(cut - 1 + 1) : removed[i] = es[1 + i - 1]
    BY <2>1, SubSeqType
  <2> HIDE DEF removed
  <2> QED
    BY <2>2, LenProperties
<1> HIDE DEF kept, removed
<1>7. \A a \in put : \E i \in 1..cut : a \in l.entries[i].shown
  BY <1>1, <1>3, <1>4, <1>6 DEF Reprefill
<1>8. \A i \in DOMAIN kept : /\ cut + i \in DOMAIN l.entries /\ i \in Nat \ {0}
                             /\ kept[i].shown \subseteq l.entries[cut + i].shown
  BY <1>3, <1>4, <1>5
<1> HIDE DEF put
<1>9. /\ k.entries = kept /\ k.protected = l.protected \cup put
      /\ k.seen = IdsOf((l.protected \cup put) \cup ShownIn(kept))
  BY DEF Logs
<1> HIDE DEF k
<1>10. \A i \in 1..cut : i \in DOMAIN l.entries
  BY <1>1, <1>3
<1>11. TextOnce(k.entries)
  BY <1>8, <1>9, LessOnce DEF LogOnce
<1>12. \A a, b \in k.protected : SameText(a, b) => a = b
  <2>1. SUFFICES ASSUME NEW a \in l.protected \cup put, NEW b \in l.protected \cup put,
                        SameText(a, b)
                 PROVE  a = b
    BY <1>9
  <2>2. CASE a \in l.protected /\ b \in l.protected
    BY <2>1, <2>2 DEF LogOnce
  <2>3. CASE a \in put /\ b \in put
    BY <1>7, <1>10, <2>1, <2>3 DEF LogOnce, TextOnce
  <2>4. CASE a \in l.protected /\ b \in put
    BY <1>7, <1>10, <2>1, <2>4 DEF LogOnce
  <2>5. CASE a \in put /\ b \in l.protected
    BY <1>7, <1>10, <2>1, <2>5 DEF LogOnce, SameText
  <2> QED
    BY <2>1, <2>2, <2>3, <2>4, <2>5
<1>13. ASSUME NEW i \in DOMAIN kept, NEW b \in kept[i].shown, NEW a \in l.protected \cup put
       PROVE  ~SameText(a, b)
  <2>1. b \in l.entries[cut + i].shown /\ cut + i \in DOMAIN l.entries
    BY <1>8, <1>13
  <2>2. CASE a \in l.protected
    BY <2>1, <2>2 DEF LogOnce
  <2>3. CASE a \in put
    <3>1. PICK j \in 1..cut : a \in l.entries[j].shown
      BY <1>7, <2>3
    <3>2. j # cut + i
      BY <1>8
    <3> QED
      BY <1>10, <2>1, <3>1, <3>2 DEF LogOnce, TextOnce
  <2> QED
    BY <1>13, <2>2, <2>3
<1>14. \A i \in DOMAIN kept : \A b \in kept[i].shown : b.id \in k.seen
  BY <1>9 DEF IdsOf, ShownIn
<1>15. \A a \in k.protected : a.id \in k.seen
  BY <1>9 DEF IdsOf
<1> QED
  BY <1>2, <1>9, <1>11, <1>12, <1>13, <1>14, <1>15 DEF LogOnce

-----------------------------------------------------------------------------
(* render, rebuild, repair *)

\* render writes each protected passage once, apart from the messages of the turns.
LEMMA RenderOnce ==
  ASSUME NEW l \in Logs, LogOnce(l)
  PROVE  TextOnce(Render(l))
<1> DEFINE n == Cardinality(l.protected)
           order == SetToSeq(l.protected)
           lead == [i \in 1..n |-> EvidenceMsg({order[i]})]
           system == IF l.system THEN <<Message("system")>> ELSE <<>>
           es == l.entries
           ms == (system \o lead) \o es
<1>1. IsFiniteSet(l.protected) /\ l.protected \subseteq Shown
  BY ShownFinite, FS_Subset DEF Logs
<1>2. /\ n \in Nat /\ order \in [1..n -> l.protected]
      /\ \A a, b \in 1..n : order[a] = order[b] => a = b
  BY <1>1, SetToSeqType
<1>3. lead \in [1..n -> Messages] /\ \A i \in 1..n : lead[i].shown = {order[i]}
  BY <1>1, <1>2, MessageTypes DEF EvidenceMsg, Message
<1>4. lead \in Seq(Messages) /\ Len(lead) = n
  BY <1>2, <1>3, FcnIsSeq
<1>5. /\ system \in Seq(Messages) /\ Len(system) \in Nat
      /\ \A i \in 1..Len(system) : system[i].shown = {}
  <2>1. Message("system") \in Messages /\ Message("system").shown = {}
    BY MessageType DEF Kinds, Message
  <2> QED
    BY <2>1, EmptySeq
<1>6. es \in Seq(Messages) /\ Len(es) \in Nat /\ DOMAIN es = 1..Len(es)
  BY EntryType DEF Logs
<1> HIDE DEF n, order, lead, system, es
<1> DEFINE c == Len(system)
<1>7. /\ system \o lead \in Seq(Messages) /\ Len(system \o lead) = c + n
      /\ \A i \in 1..(c + n) : (system \o lead)[i] = IF i <= c THEN system[i] ELSE lead[i - c]
  BY <1>4, <1>5, ConcatProperties
<1>8. /\ ms \in Seq(Messages) /\ Len(ms) = c + n + Len(es)
      /\ \A i \in 1..(c + n + Len(es)) :
            ms[i] = IF i <= c + n THEN (system \o lead)[i] ELSE es[i - (c + n)]
  BY <1>6, <1>7, ConcatProperties
<1>9. DOMAIN ms = 1..(c + n + Len(es))
  BY <1>8, LenProperties
<1> HIDE DEF ms
<1>10. \A i \in DOMAIN ms :
          \/ ms[i].shown = {}
          \/ i - c \in 1..n /\ ms[i].shown = {order[i - c]}
          \/ i - (c + n) \in DOMAIN es /\ ms[i] = es[i - (c + n)]
  <2>1. SUFFICES ASSUME NEW i \in DOMAIN ms
                 PROVE  \/ ms[i].shown = {}
                        \/ i - c \in 1..n /\ ms[i].shown = {order[i - c]}
                        \/ i - (c + n) \in DOMAIN es /\ ms[i] = es[i - (c + n)]
    OBVIOUS
  <2>2. i \in Nat /\ 1 <= i /\ i <= c + n + Len(es) /\ c \in Nat
    BY <1>2, <1>5, <1>6, <1>9
  <2> HIDE DEF c
  <2>3. CASE i <= c
    BY <1>2, <1>5, <1>7, <1>8, <2>2, <2>3 DEF c
  <2>4. CASE c < i /\ i <= c + n
    <3>1. i - c \in 1..n /\ ~(i <= c) /\ i \in 1..(c + n) /\ i \in 1..(c + n + Len(es))
      BY <1>2, <1>6, <2>2, <2>4
    <3>2. ms[i] = (system \o lead)[i]
      BY <1>8, <3>1, <2>4 DEF c
    <3>3. (system \o lead)[i] = lead[i - c]
      BY <1>7, <3>1 DEF c
    <3> QED
      BY <1>3, <3>1, <3>2, <3>3
  <2>5. CASE c + n < i
    BY <1>2, <1>6, <1>8, <1>9, <2>2, <2>5
  <2> QED
    BY <1>2, <2>2, <2>3, <2>4, <2>5
<1>11. SUFFICES ASSUME NEW i \in DOMAIN ms, NEW j \in DOMAIN ms,
                       NEW a \in ms[i].shown, NEW b \in ms[j].shown, SameText(a, b)
                PROVE  i = j /\ a = b
  BY DEF TextOnce, Render, ms, system, lead, es, n, order
<1>12. /\ i \in Int /\ j \in Int /\ c \in Int /\ n \in Int
  BY <1>2, <1>5, <1>9
<1> HIDE DEF c
<1>13. CASE i - c \in 1..n /\ a = order[i - c]
  <2>1. a \in l.protected
    BY <1>2, <1>13
  <2>2. CASE j - c \in 1..n /\ b = order[j - c]
    <3>1. b \in l.protected
      BY <1>2, <2>2
    <3>2. a = b
      BY <1>11, <2>1, <3>1 DEF LogOnce
    <3>3. i - c = j - c
      BY <1>2, <1>13, <2>2, <3>2
    <3> QED
      BY <1>12, <3>2, <3>3
  <2>3. CASE j - (c + n) \in DOMAIN es /\ b \in es[j - (c + n)].shown
    BY <1>11, <2>1, <2>3 DEF LogOnce, es
  <2> QED
    BY <1>10, <2>2, <2>3
<1>14. CASE i - (c + n) \in DOMAIN es /\ a \in es[i - (c + n)].shown
  <2>1. CASE j - c \in 1..n /\ b = order[j - c]
    <3>1. b \in l.protected
      BY <1>2, <2>1
    <3>2. SameText(b, a)
      BY <1>11 DEF SameText
    <3> QED
      BY <1>14, <3>1, <3>2 DEF LogOnce, es
  <2>2. CASE j - (c + n) \in DOMAIN es /\ b \in es[j - (c + n)].shown
    <3>1. i - (c + n) = j - (c + n) /\ a = b
      BY <1>11, <1>14, <2>2 DEF LogOnce, TextOnce, es
    <3> QED
      BY <1>12, <3>1
  <2> QED
    BY <1>10, <2>1, <2>2
<1> QED
  BY <1>10, <1>13, <1>14

\* The protected passages are read back from a run of messages before the others.
LEMMA RebuildOnce ==
  ASSUME NEW ms \in Seq(Messages), TextOnce(ms)
  PROVE  LogOnce(Rebuild(ms))
<1> DEFINE first == IF ms # <<>> /\ ms[1].kind = "system" THEN 2 ELSE 1
           leads == {n \in first..Len(ms) : \A i \in first..n : ms[i].kind = "evidence"}
           others == {n \in Nat : first <= n /\ n \notin leads}
           k == Rebuild(ms)
<1>1. Len(ms) \in Nat /\ DOMAIN ms = 1..Len(ms)
  BY EntryType
<1>2. first \in {1, 2} /\ first <= Len(ms) + 1
  BY <1>1, EmptySeq
<1> HIDE DEF first
<1>3. PICK m \in others : \A y \in others : m <= y
  <2>1. Len(ms) + 1 \in others
    BY <1>1, <1>2
  <2> QED
    BY <2>1, LeastElement
<1>4. leads = first..(m - 1) /\ m \in Nat /\ first <= m /\ m <= Len(ms) + 1
  <2>1. m \in Nat /\ first <= m /\ m \notin leads /\ m <= Len(ms) + 1
    <3>1. Len(ms) + 1 \in others
      BY <1>1, <1>2
    <3> QED
      BY <1>3, <3>1
  <2>2. \A x \in first..(m - 1) : x \in leads
    BY <1>2, <1>3, <2>1
  <2>3. ASSUME NEW x \in leads PROVE x \in first..(m - 1)
    <3>1. x \in first..Len(ms) /\ \A i \in first..x : ms[i].kind = "evidence"
      BY <2>3
    <3>2. ~(m <= x)
      <4>1. SUFFICES ASSUME m <= x PROVE FALSE
        OBVIOUS
      <4>2. m \in first..Len(ms) /\ \A i \in first..m : ms[i].kind = "evidence"
        BY <1>1, <1>2, <2>1, <3>1, <4>1
      <4> QED
        BY <2>1, <4>2
    <3> QED
      BY <1>1, <1>2, <2>1, <3>1, <3>2
  <2> QED
    BY <2>1, <2>2, <2>3
<1>5. Cardinality(leads) = m - first
  <2>1. Cardinality(first..(m - 1)) = IF first > m - 1 THEN 0 ELSE (m - 1) - first + 1
    BY <1>2, <1>4, FS_Interval
  <2> HIDE DEF leads
  <2> QED
    BY <1>2, <1>4, <2>1
<1>6. /\ k.entries = SubSeq(ms, m, Len(ms))
      /\ k.protected = UNION {ms[i].shown : i \in leads}
      /\ k.seen = UNION {IdsOf(ms[i].shown) : i \in DOMAIN ms}
  <2>1. /\ k.entries = SubSeq(ms, first + Cardinality(leads), Len(ms))
        /\ k.protected = UNION {ms[i].shown : i \in leads}
        /\ k.seen = UNION {IdsOf(ms[i].shown) : i \in DOMAIN ms}
    BY DEF Rebuild, first
  <2>2. first + Cardinality(leads) = m
    BY <1>2, <1>4, <1>5
  <2> QED
    BY <2>1, <2>2
<1> HIDE DEF k, leads
<1>7. /\ DOMAIN k.entries = 1..(Len(ms) - m + 1)
      /\ \A i \in 1..(Len(ms) - m + 1) : k.entries[i] = ms[m + i - 1]
  <2>1. m \in Nat \ {0} /\ Len(ms) \in 0..Len(ms)
    BY <1>1, <1>2, <1>4
  <2>2. /\ k.entries \in Seq(Messages)
        /\ Len(k.entries) = IF m <= Len(ms) THEN Len(ms) - m + 1 ELSE 0
        /\ \A i \in 1..(Len(ms) - m + 1) : k.entries[i] = ms[m + i - 1]
    BY <1>6, <2>1, SubSeqType
  <2>3. Len(k.entries) = Len(ms) - m + 1
    BY <1>1, <1>4, <2>2
  <2> QED
    BY <2>2, <2>3, LenProperties
<1>8. \A i \in DOMAIN k.entries :
         /\ i \in Nat /\ m + i - 1 \in DOMAIN ms /\ m + i - 1 >= m
         /\ k.entries[i] = ms[m + i - 1]
  BY <1>1, <1>2, <1>4, <1>7
<1>9. \A a \in k.protected : \E i \in DOMAIN ms : i < m /\ a \in ms[i].shown
  <2>1. \A i \in leads : i \in DOMAIN ms /\ i < m
    BY <1>1, <1>2, <1>4
  <2> QED
    BY <1>6, <2>1
<1>10. TextOnce(k.entries)
  <2>1. SUFFICES ASSUME NEW i \in DOMAIN k.entries, NEW j \in DOMAIN k.entries,
                        NEW a \in k.entries[i].shown, NEW b \in k.entries[j].shown,
                        SameText(a, b)
                 PROVE  i = j /\ a = b
    BY DEF TextOnce
  <2>2. m + i - 1 = m + j - 1 /\ a = b
    BY <1>8, <2>1 DEF TextOnce
  <2> QED
    BY <1>4, <1>8, <2>2
<1>11. \A a, b \in k.protected : SameText(a, b) => a = b
  BY <1>9 DEF TextOnce
<1>12. \A a \in k.protected : a.id \in k.seen
  BY <1>6, <1>9 DEF IdsOf
<1>13. \A i \in DOMAIN k.entries : \A b \in k.entries[i].shown : b.id \in k.seen
  BY <1>6, <1>8 DEF IdsOf
<1>14. ASSUME NEW i \in DOMAIN k.entries, NEW b \in k.entries[i].shown,
              NEW a \in k.protected
       PROVE  ~SameText(a, b)
  <2>1. PICK j \in DOMAIN ms : j < m /\ a \in ms[j].shown
    BY <1>9
  <2>2. b \in ms[m + i - 1].shown /\ m + i - 1 \in DOMAIN ms /\ m + i - 1 # j
    BY <1>4, <1>8, <2>1
  <2> QED
    BY <2>1, <2>2 DEF TextOnce
<1> QED
  <2>1. LogOnce(k)
    BY <1>10, <1>11, <1>12, <1>13, <1>14 DEF LogOnce
  <2> QED
    BY <2>1 DEF k

\* The results that repair adds show no passage.
LEMMA RepairOnce ==
  ASSUME NEW l \in Logs, LogOnce(l)
  PROVE  LogOnce(Repair(l))
<1> DEFINE ids == UNION {Missing(l.entries, i) : i \in LastCalls(l.entries)}
           n == Cardinality(ids)
           results == [k \in 1..n |-> ResultMsg(SetToSeq(ids)[k], {})]
<1>1. l.entries \in Seq(Messages)
  BY DEF Logs
<1>2. ids \subseteq CallIds
  <2>1. \A i \in DOMAIN l.entries : l.entries[i].ids \subseteq CallIds
    BY <1>1, EntryType
  <2> QED
    BY <2>1 DEF Missing, LastCalls
<1> HIDE DEF ids
<1>3. n \in Nat /\ results \in [1..n -> Messages]
  BY <1>2, CallIdsFinite, SetToSeqType, MessageTypes
<1>4. results \in Seq(Messages) /\ DOMAIN results = 1..n
  BY <1>3, FcnIsSeq
<1>5. \A k \in 1..n : results[k].shown = {}
  BY DEF ResultMsg, Message
<1> HIDE DEF n
<1>6. LogOnce([l EXCEPT !.entries = @ \o results])
  <2> HIDE DEF results
  <2> QED
    BY <1>4, <1>5, SilentLog
<1>7. Repair(l) = l \/ Repair(l) = [l EXCEPT !.entries = @ \o results]
  BY DEF Repair, Fill, ids, n
<1> QED
  BY <1>6, <1>7

-----------------------------------------------------------------------------
(* The steps *)

\* Neither the empty log nor a dangling stored list shows anything.
LEMMA InitOnce == Init => OnceInv
<1> SUFFICES ASSUME Init PROVE OnceInv
  OBVIOUS
<1>1. LogOnce(log)
  BY DEF Init, EmptyLog, LogOnce, TextOnce
<1>2. TextOnce(saved)
  <2>1. \A i \in DOMAIN DanglingList : DanglingList[i].shown = {}
    <3>1. /\ Message("system").shown = {} /\ UserMsg(1).shown = {}
          /\ CallsMsg(CallIds).shown = {} /\ ResultMsg(1, {}).shown = {}
      BY DEF Message, UserMsg, CallsMsg, ResultMsg
    <3> QED
      BY <3>1 DEF DanglingList
  <2>2. TextOnce(DanglingList) /\ TextOnce(<<>>)
    BY <2>1 DEF TextOnce
  <2> QED
    BY <2>2 DEF Init
<1> QED
  BY <1>1, <1>2 DEF OnceInv

\* The messages the loop writes, evidence apart, show nothing.
LEMMA SilentMessages ==
  /\ \A w \in UserWeights : UserMsg(w) \in Messages /\ UserMsg(w).shown = {}
  /\ UserMsg(1) \in Messages /\ UserMsg(1).shown = {}
  /\ \A cites \in SUBSET Labels : AnswerMsg(cites) \in Messages /\ AnswerMsg(cites).shown = {}
  /\ \A ids \in SUBSET CallIds : CallsMsg(ids) \in Messages /\ CallsMsg(ids).shown = {}
  /\ \A c \in CallIds, pasted \in SUBSET Passages :
        ResultMsg(c, pasted) \in Messages /\ ResultMsg(c, pasted).shown = {}
  /\ 1 \in CallIds /\ {1} \in SUBSET CallIds
<1>1. 1 \in CallIds
  BY PromptLogAssumption DEF CallIds
<1> QED
  BY <1>1, MessageTypes, TutorTurnAssumption
  DEF Message, UserMsg, AnswerMsg, CallsMsg, ResultMsg

\* Two messages that show nothing.
LEMMA AppendTwice ==
  ASSUME NEW l \in Logs, LogOnce(l), NEW m1 \in Messages, m1.shown = {},
         NEW m2 \in Messages, m2.shown = {}
  PROVE  /\ AppendMsg(AppendMsg(l, m1), m2) \in Logs
         /\ LogOnce(AppendMsg(AppendMsg(l, m1), m2))
  BY SilentAppend, AppendMsgType

\* A forced round appends its call and a result, neither an evidence message.
LEMMA CallAndResultOnce ==
  ASSUME NEW l \in Logs, LogOnce(l), NEW ids \in SUBSET Passages
  PROVE  CallAndResult(l, ids) \in Logs /\ LogOnce(CallAndResult(l, ids))
  BY SilentMessages, AppendTwice DEF CallAndResult

\* A reply the host writes by itself.
LEMMA ExchangeOnce ==
  ASSUME NEW l \in Logs, LogOnce(l), NEW w \in UserWeights
  PROVE  LogOnce(Exchange(l, w))
  BY SilentMessages, AppendTwice DEF Exchange

\* The start of a turn.
LEMMA StartTurnOnce == ASSUME TypeOK, OnceInv, StartTurn PROVE OnceInv'
<1> DEFINE l == AppendSystem(log)
<1>1. l \in Logs /\ LogOnce(l)
  BY AppendSystemOnce, AppendSystemType DEF TypeOK, OnceInv
<1> HIDE DEF l
<1>2. saved' = saved
  BY DEF StartTurn, ActionTurn, DescribeTurn, ReplyTurn, OfferAgain, HostReply, ChatTurn,
         QuestionTurn, BeginText, Begin
<1>3. CASE ActionTurn
  BY <1>1, <1>2, <1>3, SilentMessages, SilentAppend DEF ActionTurn, OnceInv, l
<1>4. CASE HostReply
  BY <1>1, <1>2, <1>4, ExchangeOnce DEF HostReply, OnceInv, l
<1>5. CASE ChatTurn
  <2>1. PICK w \in UserWeights :
          log' = AppendMsg(AppendMsg(AppendMsg(l, UserMsg(w)), CallsMsg({1})), ResultMsg(1, {}))
    BY <1>5 DEF ChatTurn, l
  <2>2. CallsMsg({1}) \in Messages /\ CallsMsg({1}).shown = {}
    BY SilentMessages
  <2>3. ResultMsg(1, {}) \in Messages /\ ResultMsg(1, {}).shown = {}
    BY SilentMessages
  <2>4. UserMsg(w) \in Messages /\ UserMsg(w).shown = {}
    BY SilentMessages
  <2>5. /\ AppendMsg(AppendMsg(l, UserMsg(w)), CallsMsg({1})) \in Logs
        /\ LogOnce(AppendMsg(AppendMsg(l, UserMsg(w)), CallsMsg({1})))
    BY <1>1, <2>2, <2>4, AppendTwice
  <2>6. LogOnce(log')
    BY <2>1, <2>3, <2>5, SilentAppend
  <2> QED
    BY <1>2, <2>6 DEF OnceInv
<1>6. CASE QuestionTurn
  BY <1>1, <1>2, <1>6 DEF QuestionTurn, OnceInv, l
<1>7. CASE DescribeTurn \/ ReplyTurn \/ OfferAgain
  <2>1. log \in Logs /\ LogOnce(log) /\ TextOnce(saved)
    BY DEF TypeOK, OnceInv
  <2> QED
    BY <1>2, <1>7, <2>1, ExchangeOnce DEF DescribeTurn, ReplyTurn, OfferAgain, OnceInv
<1> QED
  BY <1>3, <1>4, <1>5, <1>6, <1>7 DEF StartTurn

\* The pre-search: only PresearchThenShow appends evidence.
LEMMA PresearchOnce == ASSUME TypeOK, OnceInv, Presearch PROVE OnceInv'
<1>1. log \in Logs /\ LogOnce(log) /\ TextOnce(saved)
  BY DEF TypeOK, OnceInv
<1>2. saved' = saved
  BY DEF Presearch, TurnRaises, GuessFails, PresearchAsks, PresearchThenForced,
         PresearchThenRewrite, PresearchThenShow, Searched
<1>3. CASE TurnRaises \/ GuessFails
  BY <1>1, <1>2, <1>3 DEF TurnRaises, GuessFails, OnceInv
<1>4. CASE PresearchAsks
  BY <1>1, <1>2, <1>4, ExchangeOnce DEF PresearchAsks, OnceInv
<1>5. CASE PresearchThenForced \/ PresearchThenRewrite
  BY <1>1, <1>2, <1>5, SilentMessages, SilentAppend
  DEF PresearchThenForced, PresearchThenRewrite, OnceInv
<1>6. CASE PresearchThenShow
  <2>1. PICK ids \in Packets, w \in UserWeights :
          LET asked == AppendMsg(log, UserMsg(w))
          IN  \/ \E n \in Trimmed(asked, ids, settings.reuse) :
                    log' = AppendEvidence(asked, Labelled(SubSeq(ids, 1, n)), settings.reuse)
              \/ log' = asked
    BY <1>6 DEF PresearchThenShow
  <2> DEFINE asked == AppendMsg(log, UserMsg(w))
  <2>2. asked \in Logs /\ LogOnce(asked)
    BY <1>1, SilentMessages, SilentAppend, AppendMsgType
  <2>3. settings.reuse \in BOOLEAN
    BY TutorTurnAssumption DEF SettingsType, TypeOK
  <2> HIDE DEF asked
  <2>4. \A n \in Trimmed(asked, ids, settings.reuse) :
           LogOnce(AppendEvidence(asked, Labelled(SubSeq(ids, 1, n)), settings.reuse))
    BY <2>2, <2>3, AppendEvidenceOnce DEF Trimmed
  <2>5. LogOnce(log')
    BY <2>1, <2>2, <2>4 DEF asked
  <2> QED
    BY <1>1, <1>2, <2>5 DEF OnceInv
<1> QED
  BY <1>3, <1>4, <1>5, <1>6 DEF Presearch

\* The forced rounds: no evidence message, and more ids held.
LEMMA ForcedRoundOnce == ASSUME TypeOK, OnceInv, ForcedRound PROVE OnceInv'
<1>1. log \in Logs /\ LogOnce(log) /\ TextOnce(saved)
  BY DEF TypeOK, OnceInv
<1>2. saved' = saved
  BY DEF ForcedRound, RoundSkipped, RoundUnusable, RoundSearches, EndRound
<1>3. Range(backfill) \in SUBSET Passages
  BY EntryRange DEF TypeOK
<1>4. \A ids \in SUBSET Passages :
         CallAndResult(log, ids) \in Logs /\ LogOnce(CallAndResult(log, ids))
  BY <1>1, CallAndResultOnce
<1>5. CASE RoundSkipped
  BY <1>1, <1>2, <1>4, <1>5 DEF RoundSkipped, OnceInv
<1>6. CASE RoundUnusable
  BY <1>1, <1>2, <1>3, <1>4, <1>6 DEF RoundUnusable, OnceInv
<1>7. CASE RoundSearches
  <2>1. PICK lead \in Packets :
          LET merged == LeadWithBackfill(lead, IF pc = "forced" THEN backfill ELSE <<>>)
          IN  \/ log' = CallAndResult(log, {})
              \/ log' = MarkHeld(CallAndResult(log, merged \ log.seen), merged)
              \/ log' = CallAndResult(log, merged)
    BY <1>7 DEF RoundSearches
  <2> DEFINE back == IF pc = "forced" THEN backfill ELSE <<>>
             merged == LeadWithBackfill(lead, back)
  <2>2. merged \in SUBSET Passages
    <3>1. back \in Seq(Passages)
      BY EmptySeq DEF TypeOK
    <3>2. \A i \in DOMAIN back : back[i] \in Passages
      BY <3>1, LenProperties, ElementOfSeq
    <3> HIDE DEF back
    <3> QED
      BY <3>2, PacketType DEF LeadWithBackfill
  <2> HIDE DEF merged
  <2>3. LogOnce(MarkHeld(CallAndResult(log, merged \ log.seen), merged))
    BY <1>4, <2>2, MarkHeldOnce
  <2>4. LogOnce(log')
    BY <1>4, <2>1, <2>2, <2>3 DEF merged
  <2> QED
    BY <1>1, <1>2, <2>4 DEF OnceInv
<1> QED
  BY <1>5, <1>6, <1>7 DEF ForcedRound

\* The answer loop: only Request touches evidence, by evicting.
LEMMA AnswerOnce == ASSUME TypeOK, OnceInv, Answer PROVE OnceInv'
<1>1. log \in Logs /\ LogOnce(log) /\ TextOnce(saved)
  BY DEF TypeOK, OnceInv
<1>2. saved' = saved
  BY DEF Answer, LoopCancelled, Request, StreamEnds, StreamAnswers, StreamCalls
<1>3. CASE LoopCancelled \/ StreamEnds
  BY <1>1, <1>2, <1>3 DEF LoopCancelled, StreamEnds, OnceInv
<1>4. CASE Request
  BY <1>1, <1>2, <1>4, EvictOnce DEF Request, OnceInv
<1>5. CASE StreamAnswers
  BY <1>1, <1>2, <1>5, SilentMessages, SilentAppend DEF StreamAnswers, OnceInv
<1>6. CASE StreamCalls
  <2>1. PICK n \in 1..MaxCalls : log' = AppendMsg(log, CallsMsg(1..n))
    BY <1>6 DEF StreamCalls
  <2>2. 1..n \in SUBSET CallIds
    BY PromptLogAssumption DEF CallIds
  <2>3. LogOnce(log')
    BY <1>1, <2>1, <2>2, SilentMessages, SilentAppend
  <2> QED
    BY <1>1, <1>2, <2>3 DEF OnceInv
<1> QED
  BY <1>3, <1>4, <1>5, <1>6 DEF Answer

\* The dispatch of tool calls: only DispatchResearch appends evidence.
LEMMA DispatchOnce == ASSUME TypeOK, OnceInv, Dispatch PROVE OnceInv'
<1>1. log \in Logs /\ LogOnce(log) /\ TextOnce(saved) /\ todo \in Seq(CallIds)
  BY DEF TypeOK, OnceInv
<1>2. saved' = saved
  BY DEF Dispatch, DispatchCancelled, DispatchRefused, DispatchResearch, DispatchCalc, EndCall
<1>3. CASE DispatchCancelled
  <2> DEFINE results == [i \in DOMAIN todo |-> ResultMsg(todo[i], {})]
  <2>1. /\ results \in Seq(Messages)
        /\ \A i \in DOMAIN results : results[i].shown = {}
    <3>1. /\ Len(todo) \in Nat /\ DOMAIN todo = 1..Len(todo)
          /\ \A i \in DOMAIN todo : todo[i] \in CallIds
      BY <1>1, LenProperties, ElementOfSeq
    <3>2. results \in [1..Len(todo) -> Messages]
      BY <3>1, SilentMessages
    <3>3. \A i \in DOMAIN results : results[i].shown = {}
      BY <3>1, SilentMessages
    <3> QED
      BY <3>1, <3>2, <3>3, FcnIsSeq
  <2>2. log' = [log EXCEPT !.entries = @ \o results]
    BY <1>3 DEF DispatchCancelled
  <2> HIDE DEF results
  <2>3. LogOnce(log')
    BY <1>1, <2>1, <2>2, SilentLog
  <2> QED
    BY <1>1, <1>2, <2>3 DEF OnceInv
<1>4. CASE DispatchRefused \/ DispatchCalc
  <2>1. todo # <<>> /\ log' = AppendMsg(log, ResultMsg(Head(todo), {}))
    BY <1>4 DEF DispatchRefused, DispatchCalc
  <2>2. Head(todo) \in CallIds
    BY <1>1, <2>1, HeadTailProperties
  <2>3. LogOnce(log')
    BY <1>1, <2>1, <2>2, SilentMessages, SilentAppend
  <2> QED
    BY <1>1, <1>2, <2>3 DEF OnceInv
<1>5. CASE DispatchResearch
  <2>1. PICK ids \in Packets : \E n \in Trimmed(log, ids, settings.reuse) :
          log' = AppendEvidence(log, Labelled(SubSeq(ids, 1, n)), settings.reuse)
    BY <1>5 DEF DispatchResearch
  <2>2. settings.reuse \in BOOLEAN
    BY TutorTurnAssumption DEF SettingsType, TypeOK
  <2>3. LogOnce(log')
    BY <1>1, <2>1, <2>2, AppendEvidenceOnce DEF Trimmed
  <2> QED
    BY <1>1, <1>2, <2>3 DEF OnceInv
<1> QED
  BY <1>3, <1>4, <1>5 DEF Dispatch

\* What is stored is a rendering of the log, what is resumed a rebuild of it.
LEMMA ProcessOnce ==
  ASSUME TypeOK, OnceInv, Persist \/ Stop \/ Crash \/ Resume
  PROVE  OnceInv'
<1>1. /\ log \in Logs /\ LogOnce(log)
      /\ saved \in Seq(Messages) /\ TextOnce(saved)
  BY DEF TypeOK, OnceInv
<1>2. CASE Persist
  <2>1. log' \in Logs /\ LogOnce(log')
    BY <1>1, <1>2, RepairType, RepairOnce DEF Persist
  <2>2. TextOnce(saved')
    BY <1>1, <1>2, <2>1, RenderOnce DEF Persist
  <2> QED
    BY <2>1, <2>2 DEF OnceInv
<1>3. CASE Stop
  BY <1>1, <1>3 DEF Stop, OnceInv
<1>4. CASE Crash
  <2>1. log' = EmptyLog /\ saved' = saved
    BY <1>4 DEF Crash
  <2>2. LogOnce(EmptyLog)
    BY DEF EmptyLog, LogOnce, TextOnce
  <2> QED
    BY <1>1, <2>1, <2>2 DEF OnceInv
<1>5. CASE Resume
  <2>1. log' \in Logs /\ LogOnce(log')
    BY <1>1, <1>5, RebuildType, RebuildOnce, RepairType, RepairOnce DEF Resume
  <2>2. TextOnce(saved')
    BY <1>1, <1>5, <2>1, RenderOnce DEF Resume
  <2> QED
    BY <2>1, <2>2 DEF OnceInv
<1> QED
  BY <1>2, <1>3, <1>4, <1>5

\* Every step preserves the strengthening.
LEMMA NextOnce == TypeOK /\ OnceInv /\ [Next]_vars => OnceInv'
<1> SUFFICES ASSUME TypeOK, OnceInv, [Next]_vars PROVE OnceInv'
  OBVIOUS
<1>1. CASE UNCHANGED vars
  BY <1>1 DEF vars, OnceInv
<1> QED
  BY <1>1, StartTurnOnce, PresearchOnce, ForcedRoundOnce, AnswerOnce, DispatchOnce,
     ProcessOnce DEF Next

\* The full text of a passage is shown by one evidence message, or as one protected
\* passage, at most: over any number of turns, evictions, crashes and resumes.
THEOREM EvidenceTextOnceHolds == Spec => []EvidenceTextOnce
<1>1. Spec => []OnceInv
  BY InitOnce, NextOnce, TypeCorrect, PTL DEF Spec
<1>2. OnceInv => EvidenceTextOnce
  BY LogOnceMeansEvidenceTextOnce DEF OnceInv
<1> QED
  BY <1>1, <1>2, PTL

=============================================================================
