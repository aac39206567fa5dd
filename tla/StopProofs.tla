------------------------------ MODULE StopProofs ------------------------------
(***************************************************************************)
(* Proofs about Stop at its two ends.  In the window (ChatWindow), for any *)
(* number of messages, of callers that wait for a session and of clicks:   *)
(* that a turn which streams alone can be stopped, and that an answer      *)
(* shows the marks of its own turn.  At the gate of the server (TurnGate), *)
(* for any set of turns: that POST /stop finds the turn of every student   *)
(* who is still there, and so that turns overlap only when one has left.   *)
(*                                                                         *)
(* The two modules are the two sides of one request and share no variable; *)
(* their theorems are about the one specification or the other.            *)
(***************************************************************************)
EXTENDS ChatWindow, TurnGate, SequenceTheorems, TLAPS

Pages ==
    [session : Nat, twice : BOOLEAN, busy : BOOLEAN, controller : Nat,
     cited : Nat, attributed : Nat]

Sends ==
    [stage : {"session", "posting", "reading", "over"}, sid : Nat,
     bubble : {"none", "working", "told", "retry"}, marks : SUBSET Nat, alone : BOOLEAN,
     at : {"none", "started", "answered", "cited", "checked", "told", "over", "refused",
           "lost"},
     open : BOOLEAN, cancel : BOOLEAN]

\* The parts of the invariant, of a page p and the calls s.

Typed(p, s) == p \in Pages /\ s \in Seq(Sends) /\ p.controller <= Len(s)

\* Two calls that are open both have another beside them.
OnlyOne(s) ==
    \A i, j \in DOMAIN s : Open(s[i]) /\ Open(s[j]) /\ s[i].alone => i = j

\* A call that waits for its session shows nothing yet; one that is open has a session.
InOrder(s) ==
    \A i \in DOMAIN s : /\ s[i].stage = "session" => s[i].marks = {}
                        /\ Open(s[i]) => s[i].sid # None

\* What the window holds is the call's that is open alone: the controller, the session
\* and the last events.
Holds(p, s) ==
    \A i \in DOMAIN s : Open(s[i]) /\ s[i].alone =>
        /\ p.busy /\ p.controller = i
        /\ p.session = s[i].sid \/ p.twice
        /\ {p.cited, p.attributed} \subseteq {None, i}

OwnMarks(s) == \A i \in DOMAIN s : s[i].alone => s[i].marks \subseteq {i}

Good(p, s) == Typed(p, s) /\ OnlyOne(s) /\ InOrder(s) /\ Holds(p, s) /\ OwnMarks(s)

IInv == Good(page, sends) /\ created \in Nat

-----------------------------------------------------------------------------
(* Lemmas about the helpers of the handlers *)

\* A function over the positions of the calls, with calls as values, is a list of calls.
LEMMA CallsMapped ==
  ASSUME NEW s \in Seq(Sends), NEW t, t = [i \in DOMAIN s |-> t[i]],
         \A i \in DOMAIN s : t[i] \in Sends
  PROVE  t \in Seq(Sends) /\ Len(t) = Len(s) /\ DOMAIN t = DOMAIN s
<1>1. Len(s) \in Nat /\ DOMAIN s = 1..Len(s)
  BY LenProperties
<1>2. t \in [1..Len(s) -> Sends]
  BY <1>1
<1>3. t \in Seq(Sends)
  BY <1>1, <1>2, SeqDef, Zenon
<1> QED
  BY <1>1, <1>2, <1>3, LenProperties

\* A call that has returned is no longer open; it has kept its marks, or is alone
\* with none.
LEMMA LeftIs ==
  ASSUME NEW s \in Sends, NEW b \in {"none", "working", "told", "retry"}
  PROVE  /\ Left(s, b) \in Sends /\ Left(s, b).stage = "over" /\ ~Open(Left(s, b))
         /\ \/ Left(s, b).marks = s.marks /\ Left(s, b).alone = s.alone
            \/ Left(s, b).marks = {}
  BY DEF Left, NewSend, Sends, Open, None

\* Calls that change without opening, without becoming alone and without new marks
\* leave the invariant as it was.
LEMMA Quieter ==
  ASSUME NEW p \in Pages, NEW s, NEW t \in Seq(Sends), Good(p, s),
         DOMAIN t = DOMAIN s, Len(t) = Len(s),
         \A i \in DOMAIN s :
            /\ Open(t[i]) => /\ Open(s[i]) /\ t[i].alone = s[i].alone
                             /\ t[i].sid = s[i].sid
            /\ t[i].stage = "session" => s[i].stage = "session"
            /\ \/ t[i].marks = s[i].marks /\ t[i].alone = s[i].alone
               \/ t[i].marks = {}
  PROVE  Good(p, t)
<1>1. Typed(p, t) /\ OnlyOne(t)
  BY DEF Good, Typed, OnlyOne
<1>2. InOrder(t)
  BY DEF Good, InOrder
<1>3. Holds(p, t)
  BY DEF Good, Holds
<1>4. OwnMarks(t)
  BY DEF Good, OwnMarks
<1> QED
  BY <1>1, <1>2, <1>3, <1>4 DEF Good

\* A call that is posted from a window in order: the window is its own, and it is
\* alone only if no other is open.
LEMMA BeginGood ==
  ASSUME NEW from, NEW given \in Pages, NEW sid \in Nat \ {None}, NEW i \in DOMAIN from,
         given.session = sid,
         from \in Seq(Sends), OnlyOne(from), InOrder(from), OwnMarks(from),
         from[i].stage = "session",
         page' = [given EXCEPT !.busy = TRUE, !.controller = i, !.cited = None,
                               !.attributed = None],
         sends' = Posted(i, sid, from)
  PROVE  Good(page, sends)'
<1> DEFINE s == Posted(i, sid, from)
<1>0. Len(from) \in Nat /\ DOMAIN from = 1..Len(from) /\ \A j \in DOMAIN from : from[j] \in Sends
  BY LenProperties, ElementOfSeq
<1>1. /\ s[i] = [from[i] EXCEPT !.stage = "posting", !.sid = sid, !.bubble = "working",
                               !.alone = \A k \in DOMAIN from : ~Open(from[k])]
      /\ \A j \in DOMAIN from \ {i} : s[j] = [from[j] EXCEPT !.alone = @ /\ ~Open(from[j])]
      /\ DOMAIN s = DOMAIN from
  BY DEF Posted
<1>2. /\ s[i] \in Sends /\ s[i].stage = "posting" /\ Open(s[i]) /\ s[i].sid = sid
      /\ s[i].marks = {} /\ s[i].alone = (\A k \in DOMAIN from : ~Open(from[k]))
  BY <1>0, <1>1 DEF Sends, Open, InOrder
<1>3. \A j \in DOMAIN from \ {i} :
        /\ s[j] \in Sends /\ s[j].stage = from[j].stage /\ s[j].marks = from[j].marks
        /\ s[j].sid = from[j].sid
        /\ Open(s[j]) <=> Open(from[j])
        /\ s[j].alone <=> from[j].alone /\ ~Open(from[j])
  <2> SUFFICES ASSUME NEW j \in DOMAIN from \ {i}
               PROVE  /\ s[j] \in Sends /\ s[j].stage = from[j].stage
                      /\ s[j].marks = from[j].marks /\ s[j].sid = from[j].sid
                      /\ Open(s[j]) <=> Open(from[j])
                      /\ s[j].alone <=> from[j].alone /\ ~Open(from[j])
    OBVIOUS
  <2>1. from[j] \in Sends /\ s[j] = [from[j] EXCEPT !.alone = @ /\ ~Open(from[j])]
    BY <1>0, <1>1
  <2> QED
    BY <2>1 DEF Sends, Open
<1>4. s \in Seq(Sends) /\ Len(s) = Len(from)
  <2>1. \A j \in DOMAIN from : s[j] \in Sends
    BY <1>2, <1>3
  <2>2. s = [j \in DOMAIN from |-> s[j]]
    BY DEF Posted
  <2> HIDE DEF s
  <2> QED
    BY <2>1, <2>2, CallsMapped
<1> HIDE DEF s
<1>5. sends' = s
  BY DEF s
<1>6. Typed(page', s)
  <2>0. i \in Nat /\ i <= Len(from)
    BY <1>0
  <2>1. page' \in Pages /\ page'.controller = i
    BY <2>0 DEF Pages, None
  <2> QED
    BY <1>4, <2>0, <2>1 DEF Typed
<1>7. OnlyOne(s)
  BY <1>1, <1>2, <1>3 DEF OnlyOne
<1>8. InOrder(s)
  <2>1. \A j \in DOMAIN from \ {i} : /\ from[j].stage = "session" => from[j].marks = {}
                                     /\ Open(from[j]) => from[j].sid # None
    BY DEF InOrder
  <2>2. \A j \in DOMAIN from \ {i} : /\ s[j].stage = "session" => s[j].marks = {}
                                     /\ Open(s[j]) => s[j].sid # None
    BY <1>3, <2>1
  <2>3. /\ s[i].stage = "session" => s[i].marks = {}
        /\ Open(s[i]) => s[i].sid # None
    BY <1>2
  <2> QED
    BY <1>1, <2>2, <2>3 DEF InOrder
<1>9. Holds(page', s)
  BY <1>1, <1>2, <1>3 DEF Holds, Pages
<1>10. OwnMarks(s)
  BY <1>1, <1>2, <1>3 DEF OwnMarks
<1> QED
  BY <1>5, <1>6, <1>7, <1>8, <1>9, <1>10 DEF Good

\* A new call waits for its session: it is not open.
LEMMA NewIsWaiting ==
  ASSUME NEW p, NEW s, Good(p, s)
  PROVE  LET t == Append(s, NewSend)
         IN  /\ t \in Seq(Sends) /\ Len(t) = Len(s) + 1 /\ Len(s) + 1 \in DOMAIN t
             /\ t[Len(s) + 1] = NewSend
             /\ Good(p, t)
<1> DEFINE t == Append(s, NewSend)
<1>1. NewSend \in Sends /\ ~Open(NewSend) /\ NewSend.marks = {}
  BY DEF NewSend, Sends, Open, None
<1>2. s \in Seq(Sends) /\ Len(s) \in Nat /\ DOMAIN s = 1..Len(s) /\ p.controller <= Len(s)
      /\ p \in Pages
  BY LenProperties DEF Good, Typed
<1>3. /\ t \in Seq(Sends) /\ Len(t) = Len(s) + 1 /\ t[Len(s) + 1] = NewSend
      /\ \A i \in DOMAIN s : t[i] = s[i]
  BY <1>1, <1>2, AppendProperties
<1>4. DOMAIN t = DOMAIN s \cup {Len(s) + 1}
  BY <1>2, <1>3, LenProperties
<1> HIDE DEF t
<1>5. Typed(p, t)
  BY <1>2, <1>3 DEF Typed, Pages
<1>6. OnlyOne(t) /\ InOrder(t) /\ Holds(p, t) /\ OwnMarks(t)
  BY <1>1, <1>3, <1>4 DEF Good, OnlyOne, InOrder, Holds, OwnMarks
<1> QED
  BY <1>3, <1>4, <1>5, <1>6 DEF t, Good

\* Changing one call.
LEMMA OneChanged ==
  ASSUME NEW s \in Seq(Sends), NEW i \in DOMAIN s, NEW c \in Sends
  PROVE  LET t == [s EXCEPT ![i] = c]
         IN  /\ t \in Seq(Sends) /\ Len(t) = Len(s) /\ DOMAIN t = DOMAIN s /\ t[i] = c
             /\ \A j \in DOMAIN s \ {i} : t[j] = s[j]
<1> DEFINE t == [s EXCEPT ![i] = c]
<1>1. Len(s) \in Nat /\ DOMAIN s = 1..Len(s) /\ \A j \in DOMAIN s : s[j] \in Sends
  BY LenProperties, ElementOfSeq
<1>2. t \in [1..Len(s) -> Sends]
  BY <1>1
<1>3. t \in Seq(Sends)
  <2> HIDE DEF t
  <2> QED
    BY <1>1, <1>2, SeqDef, Zenon
<1> QED
  BY <1>1, <1>2, <1>3, LenProperties

\* The calls of a state in order.
LEMMA CallType ==
  ASSUME NEW p, NEW s, Good(p, s)
  PROVE  /\ p \in Pages /\ s \in Seq(Sends) /\ DOMAIN s = 1..Len(s) /\ Len(s) \in Nat
         /\ \A i \in DOMAIN s : s[i] \in Sends
  BY LenProperties, ElementOfSeq DEF Good, Typed

-----------------------------------------------------------------------------
(* The steps of the window, its calls and the server *)

\* One call changes without opening, without becoming alone and without new marks.
LEMMA QuieterOne ==
  ASSUME Good(page, sends), NEW i \in DOMAIN sends, NEW c \in Sends,
         Open(c) => Open(sends[i]) /\ c.alone = sends[i].alone /\ c.sid = sends[i].sid,
         c.stage = "session" => sends[i].stage = "session",
         (c.marks = sends[i].marks /\ c.alone = sends[i].alone) \/ c.marks = {}
  PROVE  Good(page, [sends EXCEPT ![i] = c])
<1> DEFINE t == [sends EXCEPT ![i] = c]
<1>1. page \in Pages /\ sends \in Seq(Sends)
  BY CallType
<1>2. /\ t \in Seq(Sends) /\ Len(t) = Len(sends) /\ DOMAIN t = DOMAIN sends
      /\ t[i] = c /\ \A j \in DOMAIN sends \ {i} : t[j] = sends[j]
  BY <1>1, OneChanged
<1> HIDE DEF t
<1>3. Good(page, t)
  BY <1>1, <1>2, Quieter
<1> QED
  BY <1>3 DEF t

\* A message is sent, from calls in order: at once, or when there will be a session.
LEMMA SendTurnGood ==
  ASSUME IInv, NEW from, Good(page, from), Len(from) = Len(sends), SendTurn(from)
  PROVE  IInv'
<1> DEFINE t == Append(from, NewSend)
           n == Len(from) + 1
<1>1. /\ t \in Seq(Sends) /\ n \in DOMAIN t /\ t[n] = NewSend /\ Good(page, t)
  BY NewIsWaiting
<1>2. created' \in Nat
  BY DEF SendTurn, IInv
<1>3. CASE page.session = None
  BY <1>1, <1>2, <1>3 DEF SendTurn, IInv
<1>4. CASE page.session # None
  <2>1. page.session \in Nat \ {None} /\ page \in Pages
    BY <1>4, CallType DEF Pages
  <2>2. NewSend.stage = "session"
    BY DEF NewSend
  <2> QED
    BY <1>1, <1>2, <1>4, <2>1, <2>2, BeginGood DEF SendTurn, Begin, Good, IInv
<1> QED
  BY <1>3, <1>4

\* Submit.
LEMMA SubmitGood == ASSUME IInv, Submit PROVE IInv'
  BY SendTurnGood DEF Submit, IInv

\* Retry: the click takes the bubble with it.
LEMMA RetryGood == ASSUME IInv, NEW i \in DOMAIN sends, Retry(i) PROVE IInv'
<1> DEFINE c == [sends[i] EXCEPT !.bubble = "told"]
           from == [sends EXCEPT ![i] = c]
<1>1. page \in Pages /\ sends \in Seq(Sends) /\ sends[i] \in Sends
  BY CallType DEF IInv
<1>2. /\ c \in Sends /\ c.stage = sends[i].stage /\ c.sid = sends[i].sid
      /\ c.marks = sends[i].marks /\ c.alone = sends[i].alone
      /\ Open(c) <=> Open(sends[i])
  BY <1>1 DEF Sends, Open
<1>3. [sends EXCEPT ![i].bubble = "told"] = from
  OBVIOUS
<1> HIDE DEF c
<1>4. Good(page, from) /\ Len(from) = Len(sends)
  BY <1>1, <1>2, QuieterOne, OneChanged DEF IInv
<1> QED
  BY <1>3, <1>4, SendTurnGood DEF Retry

\* A session is created, for the load or the subject, or for a message that waits:
\* the window takes its id, and has then had two if it had one.
LEMMA SessionCreatedGood == ASSUME IInv, SessionCreated PROVE IInv'
<1>1. /\ page \in Pages /\ sends \in Seq(Sends) /\ created \in Nat
      /\ created' = created + 1 /\ created' \in Nat \ {None}
  BY CallType DEF IInv, SessionCreated, None
<1>2. Joined(created') \in Pages /\ Joined(created').session = created'
  BY <1>1 DEF Joined, Pages
<1>3. CASE page' = Joined(created') /\ sends' = sends
  <2>1. /\ page'.busy = page.busy /\ page'.controller = page.controller
        /\ page'.cited = page.cited /\ page'.attributed = page.attributed
        /\ page'.twice <=> page.twice \/ page.session # None
    BY <1>1, <1>3 DEF Joined, Pages
  <2>2. Typed(page', sends)
    BY <1>2, <1>3, <2>1 DEF IInv, Good, Typed
  <2>3. Holds(page', sends)
    BY <2>1 DEF IInv, Good, Holds, InOrder
  <2> QED
    BY <1>1, <1>3, <2>2, <2>3 DEF IInv, Good
<1>4. CASE \E i \in DOMAIN sends : /\ sends[i].stage = "session"
                                  /\ Begin(i, created', Joined(created'), sends)
  <2>1. PICK i \in DOMAIN sends : /\ sends[i].stage = "session"
                                  /\ Begin(i, created', Joined(created'), sends)
    BY <1>4
  <2> QED
    BY <1>1, <1>2, <2>1, BeginGood DEF Begin, IInv, Good
<1> QED
  BY <1>3, <1>4 DEF SessionCreated

\* No session: the call is over, nothing was posted.
LEMMA SessionFailsGood == ASSUME IInv, SessionFails PROVE IInv'
<1>1. page' = page /\ created' = created
  BY DEF SessionFails
<1>2. CASE sends' = sends
  BY <1>1, <1>2 DEF IInv
<1>3. CASE \E i \in DOMAIN sends : sends' = [sends EXCEPT ![i].stage = "over"]
  <2>1. PICK i \in DOMAIN sends : sends' = [sends EXCEPT ![i].stage = "over"]
    BY <1>3
  <2> DEFINE c == [sends[i] EXCEPT !.stage = "over"]
  <2>2. sends[i] \in Sends
    BY CallType DEF IInv
  <2>3. /\ c \in Sends /\ ~Open(c) /\ c.stage = "over" /\ c.marks = sends[i].marks
        /\ c.alone = sends[i].alone
    BY <2>2 DEF Sends, Open
  <2>4. sends' = [sends EXCEPT ![i] = c]
    BY <2>1
  <2> HIDE DEF c
  <2> QED
    BY <1>1, <2>3, <2>4, QuieterOne DEF IInv
<1> QED
  BY <1>2, <1>3 DEF SessionFails

\* A frame: of a call that is open, so of the one that is alone if there is one.
LEMMA FrameGood ==
  ASSUME IInv, NEW i \in DOMAIN sends, NEW frame,
         NEW at \in {"answered", "cited", "checked", "told"}, HandleFrame(i, frame, at)
  PROVE  Good(page, sends)'
<1> DEFINE c == [sends[i] EXCEPT !.at = at, !.bubble = "told", !.marks = Shown(i, frame)]
<1>1. /\ page \in Pages /\ sends \in Seq(Sends) /\ sends[i] \in Sends
      /\ DOMAIN sends = 1..Len(sends) /\ Len(sends) \in Nat
  BY CallType DEF IInv
<1>2. sends[i].stage = "reading" /\ Open(sends[i])
  BY DEF HandleFrame, Open
<1>3. /\ page' = Noted(i, frame) /\ page' \in Pages
      /\ page'.session = page.session /\ page'.busy = page.busy
      /\ page'.controller = page.controller /\ page'.twice = page.twice
      /\ page'.cited \in {page.cited, i} /\ page'.attributed \in {page.attributed, i}
  <2>1. i \in Nat /\ page' = Noted(i, frame)
    BY <1>1 DEF HandleFrame
  <2>2. CASE frame = "citations"
    BY <1>1, <2>1, <2>2 DEF Noted, Pages
  <2>3. CASE frame = "attributions"
    BY <1>1, <2>1, <2>3 DEF Noted, Pages
  <2>4. CASE frame \notin {"citations", "attributions"}
    BY <1>1, <2>1, <2>4 DEF Noted, Pages
  <2> QED
    BY <2>2, <2>3, <2>4
<1>4. /\ Shown(i, frame) \subseteq
            sends[i].marks \cup ({page.cited, page.attributed, i} \ {None})
      /\ Shown(i, frame) \subseteq Nat
  <2>1. CASE frame \in {"citations", "attributions"}
    BY <1>1, <1>3, <2>1 DEF Shown, Pages, HandleFrame
  <2>2. CASE frame = "done"
    BY <1>1, <2>2 DEF Shown, Pages, Sends
  <2>3. CASE frame \notin {"citations", "attributions", "done"}
    BY <1>1, <2>3 DEF Shown, Sends
  <2> QED
    BY <2>1, <2>2, <2>3
<1>5. /\ c \in Sends /\ c.stage = "reading" /\ Open(c) /\ c.sid = sends[i].sid
      /\ c.alone = sends[i].alone /\ c.marks = Shown(i, frame)
  BY <1>1, <1>2, <1>4 DEF Sends, Open
<1>6. sends' = [sends EXCEPT ![i] = c]
  BY DEF HandleFrame
<1> HIDE DEF c
<1>7. /\ sends' \in Seq(Sends) /\ Len(sends') = Len(sends) /\ DOMAIN sends' = DOMAIN sends
      /\ sends'[i] = c /\ \A j \in DOMAIN sends \ {i} : sends'[j] = sends[j]
  BY <1>1, <1>5, <1>6, OneChanged
<1>8. Typed(page', sends')
  BY <1>3, <1>7 DEF IInv, Good, Typed
<1>9. OnlyOne(sends') /\ InOrder(sends')
  BY <1>2, <1>5, <1>7 DEF IInv, Good, OnlyOne, InOrder
<1>10. \A j \in DOMAIN sends : Open(sends[j]) /\ sends[j].alone => i = j
  BY <1>2 DEF IInv, Good, OnlyOne
<1>11. Holds(page', sends')
  <2>1. \A j \in DOMAIN sends : Open(sends'[j]) /\ sends'[j].alone =>
            j = i /\ Open(sends[i]) /\ sends[i].alone
    BY <1>5, <1>7, <1>10, <1>2
  <2> QED
    BY <1>3, <1>5, <1>7, <2>1 DEF IInv, Good, Holds
<1>12. OwnMarks(sends')
  <2>1. sends[i].alone => sends[i].marks \subseteq {i} /\ {page.cited, page.attributed} \subseteq {None, i}
    BY <1>2 DEF IInv, Good, Holds, OwnMarks
  <2>2. sends'[i].alone => sends'[i].marks \subseteq {i}
    BY <1>4, <1>5, <1>7, <2>1
  <2> QED
    BY <1>7, <2>2 DEF IInv, Good, OwnMarks
<1> QED
  BY <1>8, <1>9, <1>11, <1>12 DEF Good

\* The server takes a request, or refuses it.
LEMMA AcceptGood == ASSUME IInv, NEW i \in DOMAIN sends, Accept(i) PROVE IInv'
<1> DEFINE refused == [sends[i] EXCEPT !.at = "refused"]
           taken == [sends[i] EXCEPT !.at = "started", !.open = TRUE]
<1>0. page' = page /\ created' = created
  BY DEF Accept
<1>1. sends[i] \in Sends
  BY CallType DEF IInv
<1>2. /\ taken \in Sends /\ (Open(taken) <=> Open(sends[i])) /\ taken.alone = sends[i].alone
      /\ taken.marks = sends[i].marks /\ taken.sid = sends[i].sid
      /\ taken.stage = sends[i].stage
  BY <1>1 DEF Sends, Open
<1>3. /\ refused \in Sends /\ (Open(refused) <=> Open(sends[i]))
      /\ refused.alone = sends[i].alone /\ refused.marks = sends[i].marks
      /\ refused.sid = sends[i].sid /\ refused.stage = sends[i].stage
      /\ refused.bubble \in {"none", "working", "told", "retry"}
  BY <1>1 DEF Sends, Open
<1>4. \/ sends' = [sends EXCEPT ![i] = taken]
      \/ sends' = [sends EXCEPT ![i] = refused]
      \/ sends' = [sends EXCEPT ![i] = Left(refused, refused.bubble)]
  <2>1. CASE /\ sends[i].sid <= created
             /\ \A j \in DOMAIN sends : sends[j].open => sends[j].sid # sends[i].sid
    BY <2>1 DEF Accept
  <2>2. CASE ~(/\ sends[i].sid <= created
               /\ \A j \in DOMAIN sends : sends[j].open => sends[j].sid # sends[i].sid)
    <3>1. refused.bubble = sends[i].bubble
      BY <1>1 DEF Sends
    <3> QED
      BY <2>2, <3>1 DEF Accept
  <2> QED
    BY <2>1, <2>2
<1> HIDE DEF refused, taken
<1>5. CASE sends' = [sends EXCEPT ![i] = taken]
  BY <1>0, <1>2, <1>5, QuieterOne DEF IInv
<1>6. CASE sends' = [sends EXCEPT ![i] = refused]
  BY <1>0, <1>3, <1>6, QuieterOne DEF IInv
<1>7. CASE sends' = [sends EXCEPT ![i] = Left(refused, refused.bubble)]
  <2> DEFINE c == Left(refused, refused.bubble)
  <2>1. /\ c \in Sends /\ ~Open(c) /\ c.stage = "over"
        /\ (c.marks = refused.marks /\ c.alone = refused.alone) \/ c.marks = {}
    BY <1>3, LeftIs
  <2> HIDE DEF c
  <2>2. Good(page, [sends EXCEPT ![i] = c])
    BY <1>3, <2>1, QuieterOne DEF IInv
  <2> QED
    BY <1>0, <1>7, <2>2 DEF IInv, c
<1> QED
  BY <1>4, <1>5, <1>6, <1>7

\* The turn goes on: frames, the end of its stream, or a client that has gone.
LEMMA ServeGood == ASSUME IInv, NEW i \in DOMAIN sends, Serve(i) PROVE IInv'
<1>0. created' = created /\ created \in Nat /\ sends[i] \in Sends
  BY CallType DEF Serve, IInv
<1>1. CASE RunTurn(i)
  BY <1>0, <1>1, FrameGood DEF RunTurn, IInv
<1>2. CASE Report(i)
  BY <1>0, <1>2, FrameGood DEF Report, IInv
<1>3. CASE StreamEnds(i)
  <2> DEFINE c == [sends[i] EXCEPT !.at = "over", !.open = FALSE]
  <2>1. /\ c \in Sends /\ (Open(c) <=> Open(sends[i])) /\ c.alone = sends[i].alone
        /\ c.marks = sends[i].marks /\ c.sid = sends[i].sid /\ c.stage = sends[i].stage
    BY <1>0 DEF Sends, Open
  <2>2. sends' = [sends EXCEPT ![i] = c] /\ page' = page
    BY <1>3 DEF StreamEnds
  <2> HIDE DEF c
  <2> QED
    BY <1>0, <2>1, <2>2, QuieterOne DEF IInv
<1>4. CASE ClientGone(i)
  <2> DEFINE d == [sends[i] EXCEPT !.at = "over", !.open = FALSE]
             c == Left(d, sends[i].bubble)
  <2>1. /\ d \in Sends /\ d.alone = sends[i].alone /\ d.marks = sends[i].marks
        /\ sends[i].bubble \in {"none", "working", "told", "retry"}
        /\ d.bubble = sends[i].bubble
    BY <1>0 DEF Sends
  <2>2. sends' = [sends EXCEPT ![i] = c] /\ page' = page
    BY <1>4, <2>1 DEF ClientGone
  <2> HIDE DEF d
  <2>3. /\ c \in Sends /\ ~Open(c) /\ c.stage = "over"
        /\ (c.marks = d.marks /\ c.alone = d.alone) \/ c.marks = {}
    BY <2>1, LeftIs
  <2> HIDE DEF c
  <2> QED
    BY <1>0, <2>1, <2>2, <2>3, QuieterOne DEF IInv
<1> QED
  BY <1>1, <1>2, <1>3, <1>4 DEF Serve

\* A restart of the server closes turns; the window knows nothing of it yet.
LEMMA RestartGood == ASSUME IInv, Restart PROVE IInv'
<1>0. page' = page /\ created' \in Nat /\ page \in Pages /\ sends \in Seq(Sends)
  BY CallType DEF Restart, IInv
<1>1. \A i \in DOMAIN sends :
        /\ sends'[i] \in Sends
        /\ Open(sends'[i]) => /\ Open(sends[i]) /\ sends'[i].alone = sends[i].alone
                              /\ sends'[i].sid = sends[i].sid
        /\ sends'[i].stage = "session" => sends[i].stage = "session"
        /\ \/ sends'[i].marks = sends[i].marks /\ sends'[i].alone = sends[i].alone
           \/ sends'[i].marks = {}
  <2> TAKE i \in DOMAIN sends
  <2> DEFINE d == [sends[i] EXCEPT !.at = "lost", !.open = FALSE]
  <2>1. sends[i] \in Sends
    BY CallType DEF IInv
  <2>2. /\ d \in Sends /\ d.alone = sends[i].alone /\ d.marks = sends[i].marks
        /\ d.stage = sends[i].stage /\ d.sid = sends[i].sid /\ (Open(d) <=> Open(sends[i]))
        /\ sends[i].bubble \in {"none", "working", "told", "retry"}
    BY <2>1 DEF Sends, Open
  <2>3. sends'[i] \in {sends[i], d, Left(d, sends[i].bubble)}
    BY DEF Restart
  <2> HIDE DEF d
  <2>4. CASE sends'[i] = sends[i]
    BY <2>1, <2>4
  <2>5. CASE sends'[i] = d
    BY <2>2, <2>5
  <2>6. CASE sends'[i] = Left(d, sends[i].bubble)
    BY <2>2, <2>6, LeftIs
  <2> QED
    BY <2>3, <2>4, <2>5, <2>6
<1>2. sends' = [i \in DOMAIN sends |-> sends'[i]]
  BY DEF Restart
<1>3. sends' \in Seq(Sends) /\ Len(sends') = Len(sends) /\ DOMAIN sends' = DOMAIN sends
  BY <1>0, <1>1, <1>2, CallsMapped
<1> QED
  BY <1>0, <1>1, <1>3, Quieter DEF IInv

\* A call returns: `finally` frees the window, whichever call's it is.  If a call was
\* open alone it is this one.
LEMMA EndsGood ==
  ASSUME IInv, NEW i \in DOMAIN sends, Open(sends[i]),
         NEW b \in {"none", "working", "told", "retry"}, Ends(i, b)
  PROVE  Good(page, sends)'
<1> DEFINE c == Left(sends[i], b)
<1>1. /\ page \in Pages /\ sends \in Seq(Sends) /\ sends[i] \in Sends
      /\ DOMAIN sends = 1..Len(sends) /\ Len(sends) \in Nat
  BY CallType DEF IInv
<1>2. /\ c \in Sends /\ ~Open(c) /\ c.stage = "over"
      /\ (c.marks = sends[i].marks /\ c.alone = sends[i].alone) \/ c.marks = {}
  BY <1>1, LeftIs
<1>3. sends' = [sends EXCEPT ![i] = c]
  BY DEF Ends
<1> HIDE DEF c
<1>4. /\ sends' \in Seq(Sends) /\ Len(sends') = Len(sends) /\ DOMAIN sends' = DOMAIN sends
      /\ sends'[i] = c /\ \A j \in DOMAIN sends \ {i} : sends'[j] = sends[j]
  BY <1>1, <1>2, <1>3, OneChanged
<1>5. page' \in Pages /\ page'.controller = 0
  BY <1>1 DEF Ends, Freed, Pages, None
<1>6. Typed(page', sends')
  BY <1>1, <1>4, <1>5 DEF Typed
<1>7. OnlyOne(sends') /\ InOrder(sends') /\ OwnMarks(sends')
  BY <1>2, <1>4 DEF IInv, Good, OnlyOne, InOrder, OwnMarks
<1>8. \A j \in DOMAIN sends' : ~(Open(sends'[j]) /\ sends'[j].alone)
  BY <1>2, <1>4 DEF IInv, Good, OnlyOne
<1>9. Holds(page', sends')
  BY <1>8 DEF Holds
<1> QED
  BY <1>6, <1>7, <1>9 DEF Good

\* A connection that breaks, or is aborted.
LEMMA BreaksGood ==
  ASSUME IInv, NEW i \in DOMAIN sends, Breaks(i)
  PROVE  Good(page, sends)'
<1>1. sends[i].bubble \in {"none", "working", "told", "retry"}
  BY CallType DEF IInv, Sends
<1> QED
  BY <1>1, EndsGood DEF Breaks

\* The window reads the answer of a request, to its end.
LEMMA ReadGood == ASSUME IInv, NEW i \in DOMAIN sends, Read(i) PROVE IInv'
<1>0. created' = created /\ created \in Nat /\ sends[i] \in Sends
  BY CallType DEF Read, IInv
<1>1. CASE Respond(i)
  <2>1. Open(sends[i])
    BY <1>1 DEF Respond, Open
  <2>2. CASE Ends(i, "retry")
    BY <1>0, <2>1, <2>2, EndsGood DEF IInv
  <2>3. CASE sends' = [sends EXCEPT ![i].stage = "reading"] /\ page' = page
    <3> DEFINE c == [sends[i] EXCEPT !.stage = "reading"]
    <3>1. /\ c \in Sends /\ Open(c) /\ c.alone = sends[i].alone /\ c.sid = sends[i].sid
          /\ c.marks = sends[i].marks /\ c.stage = "reading"
      BY <1>0 DEF Sends, Open
    <3>2. sends' = [sends EXCEPT ![i] = c]
      BY <2>3
    <3> HIDE DEF c
    <3> QED
      BY <1>0, <2>1, <2>3, <3>1, <3>2, QuieterOne DEF IInv
  <2> QED
    BY <1>1, <2>2, <2>3 DEF Respond
<1>2. CASE ReadEnd(i)
  BY <1>0, <1>2, EndsGood DEF ReadEnd, Open, IInv, Sends
<1>3. CASE Breaks(i)
  BY <1>0, <1>3, BreaksGood DEF IInv
<1> QED
  BY <1>1, <1>2, <1>3 DEF Read

\* Stop sets the events of the turns of its session, and is answered with an abort of
\* the request that is under way by then.
LEMMA StopGood ==
  ASSUME IInv, ClickStop \/ StopArrives \/ StopAnswered \/ StopFails
  PROVE  IInv'
<1>0. created' = created /\ page \in Pages /\ sends \in Seq(Sends)
  BY CallType DEF IInv, ClickStop, StopArrives, StopAnswered, StopFails
<1>1. CASE UNCHANGED <<page, sends>>
  BY <1>0, <1>1 DEF IInv
<1>2. CASE StopArrives
  <2>1. \A i \in DOMAIN sends :
          /\ sends'[i] \in Sends /\ sends'[i].alone = sends[i].alone
          /\ sends'[i].marks = sends[i].marks /\ sends'[i].sid = sends[i].sid
          /\ sends'[i].stage = sends[i].stage
    <3> TAKE i \in DOMAIN sends
    <3>1. sends[i] \in Sends
      BY CallType DEF IInv
    <3>2. sends'[i] = [sends[i] EXCEPT !.cancel = @ \/ (sends[i].open /\ sends[i].sid = stop.sid)]
      BY <1>2 DEF StopArrives
    <3> QED
      BY <3>1, <3>2 DEF Sends
  <2>2. sends' = [i \in DOMAIN sends |-> sends'[i]]
    BY <1>2 DEF StopArrives
  <2>3. sends' \in Seq(Sends) /\ Len(sends') = Len(sends) /\ DOMAIN sends' = DOMAIN sends
    BY <1>0, <2>1, <2>2, CallsMapped
  <2>4. page' = page
    BY <1>2 DEF StopArrives
  <2> QED
    BY <1>0, <2>1, <2>3, <2>4, Quieter DEF IInv, Open
<1>3. CASE Breaks(page.controller) /\ page.controller # None
  <2>1. page.controller \in DOMAIN sends
    BY <1>3, CallType DEF IInv, Good, Typed, Pages, None
  <2> QED
    BY <1>0, <1>3, <2>1, BreaksGood DEF IInv
<1> QED
  BY <1>1, <1>2, <1>3 DEF ClickStop, StopAnswered, StopFails

\* Every step preserves the invariant.
LEMMA NextGood == IInv /\ [Next]_vars => IInv'
<1> SUFFICES ASSUME IInv, [Next]_vars PROVE IInv'
  OBVIOUS
<1>1. CASE ChangeSubject
  BY <1>1 DEF ChangeSubject, IInv
<1>2. CASE \E i \in DOMAIN sends : Drops(i)
  BY <1>2, BreaksGood DEF Drops, IInv
<1>3. CASE UNCHANGED vars
  BY <1>3 DEF vars, IInv
<1> QED
  BY <1>1, <1>2, <1>3, SubmitGood, RetryGood, SessionCreatedGood, SessionFailsGood,
     AcceptGood, ServeGood, ReadGood, RestartGood, StopGood DEF Next

\* A window that has just been opened.
LEMMA InitGood == Init => IInv
  BY EmptySeq DEF Init, IInv, Good, Typed, Pages, OnlyOne, InOrder, Holds, OwnMarks, None

\* The invariant holds throughout.
LEMMA SpecGood == Spec => []IInv
  BY InitGood, NextGood, PTL DEF Spec

-----------------------------------------------------------------------------
(* The theorems about the window *)

\* Stop reaches a turn that streams: the button is on, the click would abort the turn's
\* own request and name its session, as long as no other call was open with it and the
\* window has had one session.
THEOREM StopReachesTurnHolds == Spec => []StopReachesTurn
<1>1. IInv => StopReachesTurn
  BY DEF IInv, Good, Holds, StopReachesTurn
<1> QED
  BY <1>1, SpecGood, PTL

\* The citations and attributions under an answer are those of its own turn, although
\* the window keeps the last events for all turns, as long as no other call was open.
THEOREM MarksAreOwnHolds == Spec => []MarksAreOwn
<1>1. IInv => MarksAreOwn
  BY DEF IInv, Good, OwnMarks, MarksAreOwn
<1> QED
  BY <1>1, SpecGood, PTL

-----------------------------------------------------------------------------
(* The gate: its invariant *)

\* The sentinel is put when the thread is done, so a stream that ends on it removes
\* the entry of a turn that is over; no generator exists before its turn is launched.
SentinelIsLast == \A t \in Turns : sentinel[t] => thread[t] = "done"
StreamIsLaunched ==
    \A t \in Turns : thread[t] \in {"none", "refused", "registered"} => stream[t] = "none"

GateIInv == GateTypeOK /\ SentinelIsLast /\ StreamIsLaunched /\ StopReachesConnected

-----------------------------------------------------------------------------
(* The initial states *)

\* No turn has been requested.
LEMMA GateInitIInv == GateInit => GateIInv
  BY TurnGateAssumption
  DEF GateInit, GateIInv, GateTypeOK, SentinelIsLast, StreamIsLaunched, StopReachesConnected, Live,
      Running, ThreadStates, StreamStates

-----------------------------------------------------------------------------
(* The steps of the gate, by actor *)

\* The request handler: only Register makes a turn live, and it registers that turn.
LEMMA HandleIInv == ASSUME NEW t \in Turns, GateIInv, Handle(t) PROVE GateIInv'
<1> USE TurnGateAssumption
        DEF GateIInv, GateTypeOK, SentinelIsLast, StreamIsLaunched, StopReachesConnected, Live,
            Running, ThreadStates, StreamStates
<1>1. CASE Register(t)
  BY <1>1 DEF Register
<1>2. CASE Refuse(t)
  BY <1>2 DEF Refuse
<1>3. CASE Launch(t)
  BY <1>3 DEF Launch
<1> QED
  BY <1>1, <1>2, <1>3 DEF Handle

\* The thread of t goes on, to a state in which it was already live or no longer is.
LEMMA GoesIInv ==
  ASSUME NEW t \in Turns, NEW from \in Running, NEW to \in Running, GateIInv, Goes(t, from, to)
  PROVE  GateIInv'
  BY DEF GateIInv, GateTypeOK, SentinelIsLast, StreamIsLaunched, StopReachesConnected, Live,
         Running, ThreadStates, StreamStates, Goes

\* The turn thread: none of its steps touches the registration.
LEMMA ThreadStepIInv == ASSUME NEW t \in Turns, GateIInv, ThreadStep(t) PROVE GateIInv'
<1>1. CASE Search(t)
  BY <1>1, GoesIInv DEF Search, Running
<1>2. CASE LoopHead(t)
  BY <1>2, GoesIInv DEF LoopHead, Running
<1>3. CASE ModelReplies(t)
  BY <1>3, GoesIInv DEF ModelReplies, Running
<1>4. CASE DispatchCalls(t)
  BY <1>4, GoesIInv DEF DispatchCalls, Running
<1>5. CASE Finish(t)
  BY <1>5 DEF Finish, GateIInv, GateTypeOK, SentinelIsLast, StreamIsLaunched, StopReachesConnected,
              Live, Running, ThreadStates, StreamStates
<1> QED
  BY <1>1, <1>2, <1>3, <1>4, <1>5 DEF ThreadStep

\* Only its own entry is removed by the generator, and only when the thread is done
\* (EndStream) or the client has left (CloseAtYield).
LEMMA StreamStepIInv == ASSUME NEW t \in Turns, GateIInv, StreamStep(t) PROVE GateIInv'
<1> USE TurnGateAssumption
        DEF GateIInv, GateTypeOK, SentinelIsLast, StreamIsLaunched, StopReachesConnected, Live,
            Running, ThreadStates, StreamStates
<1>1. CASE StartStream(t)
  BY <1>1 DEF StartStream
<1>2. CASE Yield(t)
  BY <1>2 DEF Yield
<1>3. CASE Continue(t)
  BY <1>3 DEF Continue
<1>4. CASE EndStream(t)
  BY <1>4 DEF EndStream, Close
<1>5. CASE CloseAtYield(t)
  BY <1>5 DEF CloseAtYield, Close
<1>6. CASE DropUnstarted(t)
  BY <1>6 DEF DropUnstarted
<1> QED
  BY <1>1, <1>2, <1>3, <1>4, <1>5, <1>6 DEF StreamStep

\* Every step preserves the invariant.
LEMMA GateNextIInv == GateIInv /\ [GateNext]_gateVars => GateIInv'
<1> SUFFICES ASSUME GateIInv, [GateNext]_gateVars PROVE GateIInv'
  OBVIOUS
<1>1. CASE \E t \in Turns : Handle(t)
  BY <1>1, HandleIInv
<1>2. CASE \E t \in Turns : ThreadStep(t)
  BY <1>2, ThreadStepIInv
<1>3. CASE \E t \in Turns : Emit(t)
  BY <1>3 DEF Emit, GateIInv, GateTypeOK, SentinelIsLast, StreamIsLaunched, StopReachesConnected,
              Live, Running, ThreadStates, StreamStates
<1>4. CASE \E t \in Turns : StreamStep(t)
  BY <1>4, StreamStepIInv
<1>5. CASE \E t \in Turns : Leave(t)
  BY <1>5 DEF Leave, GateIInv, GateTypeOK, SentinelIsLast, StreamIsLaunched, StopReachesConnected,
              Live, Running, ThreadStates, StreamStates
<1>6. CASE Stop
  BY <1>6 DEF Stop, GateIInv, GateTypeOK, SentinelIsLast, StreamIsLaunched, StopReachesConnected,
              Live, Running, ThreadStates, StreamStates
<1>7. CASE UNCHANGED gateVars
  BY <1>7 DEF gateVars, GateIInv, GateTypeOK, SentinelIsLast, StreamIsLaunched, StopReachesConnected,
              Live, Running, ThreadStates, StreamStates
<1> QED
  BY <1>1, <1>2, <1>3, <1>4, <1>5, <1>6, <1>7 DEF GateNext

\* The invariant holds throughout.
LEMMA GateSpecIInv == GateSpec => []GateIInv
  BY GateInitIInv, GateNextIInv, PTL DEF GateSpec

-----------------------------------------------------------------------------
(* The theorems about the gate *)

\* The registration, the threads, the generators and their queues keep their types; a
\* queue is never read below empty.
THEOREM GateTypeCorrect == GateSpec => []GateTypeOK
  BY GateSpecIInv, PTL DEF GateIInv

\* POST /stop finds the entry of every live turn whose client is still connected.
THEOREM StopReachesConnectedHolds == GateSpec => []StopReachesConnected
  BY GateSpecIInv, PTL DEF GateIInv

=============================================================================
