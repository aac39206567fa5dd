--------------------------- MODULE LessonStoreProofs ---------------------------
(***************************************************************************)
(* What the lesson store keeps for any number of windows, lessons, turns,  *)
(* failures and crashes.                                                   *)
(***************************************************************************)
EXTENDS LessonStore, FiniteSetTheorems, SequenceTheorems, TLAPS

\* The stages of a turn's transaction, and of its persist_turn.
Writing == {"insert", "update", "commit"}
Persisting == {"check", "count"} \cup Writing

\* Turns and requests name what there is: a turn that runs its session, one that is
\* persisted the lesson of that session, a request the lesson it is for.
LinkedTurn(t) ==
    /\ turns[t].stage # "over" => turns[t].sid \in DOMAIN sessions
    /\ turns[t].stage \in Persisting =>
         turns[t].lesson \in Ids /\ turns[t].lesson = sessions[turns[t].sid].lesson
    /\ turns[t].stage = "answering" => turns[t].lesson = NoLesson
    /\ turns[t].outcome = "none" <=> turns[t].stage # "over"

LinkedReq(c) ==
    /\ req[c].op = "none" => req[c] = NoReq
    /\ req[c].op # "none" => req[c].lesson \in Ids
    /\ req[c].op = "start" => req[c].stage = "commit"
    /\ req[c].op = "create" =>
         \/ req[c].stage = "commit" /\ req[c].lesson \in DOMAIN view.lessons
         \/ req[c].stage = "new_session" /\ req[c].lesson \in DOMAIN db.lessons
    /\ req[c].op = "resume" =>
         /\ req[c].stage \in {"save", "commit", "register"}
         /\ Len(req[c].session) = 1 /\ req[c].session[1].lesson = req[c].lesson

Linked ==
    /\ DOMAIN db.lessons \subseteq DOMAIN view.lessons
    /\ \A t \in DOMAIN turns : LinkedTurn(t)
    /\ \A c \in Clients : LinkedReq(c)

TypeInv == TypeOK /\ Linked

\* The connection sees every committed row, numbered; the holder of the lock has counted
\* the rows that are there, then added its own.
RowInv ==
    /\ \A id \in Ids : TurnsOf(db.rows[id]) \subseteq TurnsOf(view.rows[id])
    /\ \A id \in Ids : \A i \in DOMAIN view.rows[id] : view.rows[id][i].seq = i - 1
    /\ KeptInOrder
    /\ \A t \in DOMAIN turns :
         /\ turns[t].outcome = "kept" => turns[t].lesson \in Ids
         /\ turns[t].stage = "insert" => turns[t].seq = Len(view.rows[turns[t].lesson])
         /\ turns[t].stage \in {"update", "commit"} =>
              t \in TurnsOf(view.rows[turns[t].lesson])

\* A window of this process shows the lesson of its session, and so do its turns.
OwnInv ==
    /\ \A id \in Ids : TurnsOf(view.rows[id]) \subseteq DOMAIN turns
    /\ OwnLesson
    /\ \A c \in Clients :
         tab[c].since = crashes =>
            \/ tab[c].sid = 0
            \/ tab[c].sid \in DOMAIN sessions /\ sessions[tab[c].sid].lesson = tab[c].lesson
    /\ \A t \in DOMAIN turns :
         turns[t].stage # "over" /\ ~turns[t].stale =>
            sessions[turns[t].sid].lesson = turns[t].opened

\* A row the disk lacks is of the turn under way, whose log has it, or of one that raised.
RowComesWithLog(id, t) ==
    \/ turns[t].outcome = "raised"
    \/ turns[t].lesson = id /\ turns[t].stage = "update"
    \/ /\ turns[t].lesson = id /\ turns[t].stage = "commit"
       /\ id \in DOMAIN view.lessons => t \in Range(view.lessons[id].log)

CommitInv ==
    /\ \A id \in Ids : \A t \in TurnsOf(view.rows[id]) \ TurnsOf(db.rows[id]) :
          RowComesWithLog(id, t)
    /\ \A t \in DOMAIN turns :
         /\ turns[t].stage = "check" => t \in Range(sessions[turns[t].sid].log)
         /\ turns[t].stage \in {"count", "insert", "update"} => t \in Range(turns[t].entries)

\* What is stored of a lesson, or was read of it and may be stored again.
StoredLogs(id) ==
    {view.lessons[id].log}
      \cup (IF id \in DOMAIN db.lessons THEN {db.lessons[id].log} ELSE {})
      \cup {req[c].session[1].log : c \in {d \in Clients : req[d].op = "resume" /\ req[d].lesson = id}}

Unused(id) == \A n \in DOMAIN sessions : sessions[n].lesson # id
Sole(n, id) == \A m \in DOMAIN sessions : sessions[m].lesson = id <=> m = n
Stayed(id) == \A t \in DOMAIN turns : turns[t].left => turns[t].lesson # id

\* Storing is what a turn does, from its session's log to the lesson's.
Storing == {"count", "insert", "update"}

\* Every log that is or may be stored of a lesson is the same while nobody uses it.
Agree(id) ==
    Unused(id) =>
      /\ \A stored \in StoredLogs(id) : stored = view.lessons[id].log
      /\ \A c \in Clients : req[c].op = "create" /\ req[c].lesson = id =>
            view.lessons[id].log = <<>>

\* It has no turns that the log of the lesson's only session lacks; and none that the entries
\* a turn of that session is about to store lack, unless a window has left.
Covered(id) ==
    \A n \in DOMAIN sessions : Sole(n, id) =>
      /\ \A stored \in StoredLogs(id) : Range(stored) \subseteq Range(sessions[n].log)
      /\ Stayed(id) =>
           \A t \in DOMAIN turns : turns[t].lesson = id /\ turns[t].stage \in Storing =>
              \A stored \in StoredLogs(id) : Range(stored) \subseteq Range(turns[t].entries)

LogInv ==
    /\ \A id \in DOMAIN view.lessons : Agree(id) /\ Covered(id)
    /\ \A t \in DOMAIN turns : turns[t].stage \in Storing =>
          Range(turns[t].entries) \subseteq Range(sessions[turns[t].sid].log)

\* A turn whose window waits for it; a session has one at most.
Streams(t) == turns[t].stage # "over" /\ ~turns[t].left
StreamInv ==
    \A t, u \in DOMAIN turns :
       Streams(t) /\ Streams(u) /\ turns[t].sid = turns[u].sid => t = u

\* A lesson's id is given out once: nothing is of a lesson that has not been started.
Known ==
    /\ \A c \in Clients : req[c].lesson \in 0..started
    /\ \A n \in DOMAIN sessions : sessions[n].lesson \in 0..started

-----------------------------------------------------------------------------
(* What the helpers do *)

Stages == {"answering", "check", "count", "insert", "update", "commit", "over"}
Outcomes == {"none", "plain", "refused", "kept", "raised", "lost"}

\* One turn changes, to a turn of the same window.
Changes(t) ==
    /\ turns' \in Seq(TurnSet) /\ Len(turns') = Len(turns) /\ DOMAIN turns' = DOMAIN turns
    /\ \A u \in DOMAIN turns : u # t => turns'[u] = turns[u]
    /\ turns'[t].opened = turns[t].opened /\ turns'[t].stale = turns[t].stale

\* A list in which one value is replaced.
LEMMA Replaced ==
  ASSUME NEW S, NEW s \in Seq(S), NEW i \in DOMAIN s, NEW v \in S,
         NEW r, r = [s EXCEPT ![i] = v]
  PROVE  /\ r \in Seq(S) /\ Len(r) = Len(s) /\ DOMAIN r = DOMAIN s
         /\ r[i] = v
         /\ \A j \in DOMAIN s : j # i => r[j] = s[j]
  BY ExceptSeq

\* A list in which one value is appended.
LEMMA Appended ==
  ASSUME NEW S, NEW s \in Seq(S), NEW v \in S
  PROVE  /\ Append(s, v) \in Seq(S) /\ Len(Append(s, v)) = Len(s) + 1
         /\ DOMAIN s = 1..Len(s) /\ DOMAIN Append(s, v) = 1..(Len(s) + 1)
         /\ Append(s, v)[Len(s) + 1] = v
         /\ \A j \in DOMAIN s : Append(s, v)[j] = s[j]
         /\ Range(Append(s, v)) = Range(s) \cup {v}
<1>1. /\ Append(s, v) \in Seq(S) /\ Len(Append(s, v)) = Len(s) + 1 /\ Len(s) \in Nat
      /\ DOMAIN s = 1..Len(s) /\ DOMAIN Append(s, v) = 1..(Len(s) + 1)
      /\ Append(s, v)[Len(s) + 1] = v
      /\ \A j \in DOMAIN s : Append(s, v)[j] = s[j]
  BY AppendProperties, LenProperties
<1>2. 1..(Len(s) + 1) = (1..Len(s)) \cup {Len(s) + 1}
  BY <1>1
<1>3. Range(Append(s, v)) = Range(s) \cup {v}
  <2> DEFINE t == Append(s, v)
             n == Len(s)
  <2>1. /\ DOMAIN s = 1..n /\ DOMAIN t = (1..n) \cup {n + 1}
        /\ t[n + 1] = v /\ \A j \in 1..n : t[j] = s[j]
    BY <1>1, <1>2
  <2> HIDE DEF t, n
  <2>2. ASSUME NEW x \in Range(t) PROVE x \in Range(s) \cup {v}
    <3>1. PICK j \in DOMAIN t : x = t[j]
      BY Zenon DEF Range
    <3>2. CASE j \in 1..n
      BY <2>1, <3>1, <3>2, Zenon DEF Range
    <3>3. CASE j = n + 1
      BY <2>1, <3>1, <3>3, Zenon
    <3> QED
      BY <2>1, <3>2, <3>3, Zenon
  <2>3. ASSUME NEW x \in Range(s) PROVE x \in Range(t)
    <3>1. PICK j \in DOMAIN s : x = s[j]
      BY Zenon DEF Range
    <3>2. j \in DOMAIN t /\ x = t[j]
      BY <2>1, <3>1, Zenon
    <3> QED
      BY <3>2, Zenon DEF Range
  <2>4. v \in Range(t)
    <3>1. n + 1 \in DOMAIN t
      BY <2>1, Zenon
    <3> QED
      BY <2>1, <3>1, Zenon DEF Range
  <2>5. Range(t) = Range(s) \cup {v}
    BY <2>2, <2>3, <2>4, Zenon
  <2> QED
    BY <2>5 DEF t
<1> QED
  BY <1>1, <1>3

\* A turn that ends keeps its window, its lesson and whether its window has left.
LEMMA EndedTurn ==
  ASSUME NEW turn \in TurnSet, NEW outcome \in Outcomes
  PROVE  /\ Ended(turn, outcome) \in TurnSet
         /\ Ended(turn, outcome).stage = "over" /\ Ended(turn, outcome).outcome = outcome
         /\ Ended(turn, outcome).opened = turn.opened /\ Ended(turn, outcome).stale = turn.stale
         /\ Ended(turn, outcome).lesson = turn.lesson /\ Ended(turn, outcome).left = turn.left
<1>1. <<>> \in Log
  BY EmptySeq DEF Log
<1> QED
  BY <1>1 DEF Ended, TurnSet, Outcomes

\* A turn that is replaced by another of the same window.
LEMMA TurnBecomes ==
  ASSUME TypeOK, NEW t \in DOMAIN turns, NEW new \in TurnSet, Becomes(t, new),
         new.opened = turns[t].opened, new.stale = turns[t].stale
  PROVE  Changes(t) /\ turns'[t] = new
  BY Replaced DEF TypeOK, Becomes, Changes

\* The steps of a turn, one by one: it ends.
LEMMA EndsTurn ==
  ASSUME TypeOK, NEW t \in DOMAIN turns, NEW outcome \in Outcomes, Ends(t, outcome)
  PROVE  /\ Changes(t)
         /\ turns'[t].stage = "over" /\ turns'[t].outcome = outcome
         /\ turns'[t].lesson = turns[t].lesson /\ turns'[t].left = turns[t].left
<1>1. turns[t] \in TurnSet
  BY ElementOfSeq DEF TypeOK
<1>2. Changes(t) /\ turns'[t] = Ended(turns[t], outcome)
  BY <1>1, EndedTurn, TurnBecomes DEF Ends
<1> QED
  BY <1>1, <1>2, EndedTurn

\* A turn that goes to its next stage.
LEMMA GoesTurn ==
  ASSUME TypeOK, NEW t \in DOMAIN turns, NEW stage \in Stages,
         Goes(t, stage)
  PROVE  /\ Changes(t)
         /\ turns'[t].stage = stage
         /\ turns'[t].sid = turns[t].sid /\ turns'[t].left = turns[t].left
         /\ turns'[t].lesson = turns[t].lesson /\ turns'[t].entries = turns[t].entries
         /\ turns'[t].seq = turns[t].seq /\ turns'[t].outcome = turns[t].outcome
<1> DEFINE new == [turns[t] EXCEPT !.stage = stage]
<1>1. turns[t] \in TurnSet
  BY ElementOfSeq DEF TypeOK
<1>2. new \in TurnSet /\ new.opened = turns[t].opened /\ new.stale = turns[t].stale
  BY <1>1 DEF TurnSet, Stages
<1>3. Changes(t) /\ turns'[t] = new
  BY <1>2, TurnBecomes DEF Goes
<1> QED
  BY <1>1, <1>3 DEF TurnSet

\* A turn whose window leaves.
LEMMA LeavesTurn ==
  ASSUME TypeOK, NEW t \in DOMAIN turns, 
         Becomes(t, [turns[t] EXCEPT !.left = TRUE])
  PROVE  /\ Changes(t)
         /\ turns'[t].left = TRUE
         /\ turns'[t].sid = turns[t].sid /\ turns'[t].stage = turns[t].stage
         /\ turns'[t].lesson = turns[t].lesson /\ turns'[t].entries = turns[t].entries
         /\ turns'[t].seq = turns[t].seq /\ turns'[t].outcome = turns[t].outcome
<1> DEFINE new == [turns[t] EXCEPT !.left = TRUE]
<1>1. turns[t] \in TurnSet
  BY ElementOfSeq DEF TypeOK
<1>2. new \in TurnSet /\ new.opened = turns[t].opened /\ new.stale = turns[t].stale
  BY <1>1 DEF TurnSet
<1>3. Changes(t) /\ turns'[t] = new
  BY <1>2, TurnBecomes
<1> QED
  BY <1>1, <1>3 DEF TurnSet

\* A turn whose session's lesson is looked up.
LEMMA ChecksTurn ==
  ASSUME TypeOK, NEW t \in DOMAIN turns, NEW lesson \in 0..MaxLessons,
         Becomes(t, [turns[t] EXCEPT !.stage = "check", !.lesson = lesson])
  PROVE  /\ Changes(t)
         /\ turns'[t].stage = "check" /\ turns'[t].lesson = lesson
         /\ turns'[t].sid = turns[t].sid /\ turns'[t].left = turns[t].left
         /\ turns'[t].entries = turns[t].entries /\ turns'[t].seq = turns[t].seq
         /\ turns'[t].outcome = turns[t].outcome
<1> DEFINE new == [turns[t] EXCEPT !.stage = "check", !.lesson = lesson]
<1>1. turns[t] \in TurnSet
  BY ElementOfSeq DEF TypeOK
<1>2. new \in TurnSet /\ new.opened = turns[t].opened /\ new.stale = turns[t].stale
  BY <1>1 DEF TurnSet
<1>3. Changes(t) /\ turns'[t] = new
  BY <1>2, TurnBecomes
<1> QED
  BY <1>1, <1>3 DEF TurnSet

\* A turn that takes its log's entries.
LEMMA CountsTurn ==
  ASSUME TypeOK, NEW t \in DOMAIN turns, NEW log \in Log,
         Becomes(t, [turns[t] EXCEPT !.stage = "count", !.entries = log])
  PROVE  /\ Changes(t)
         /\ turns'[t].stage = "count" /\ turns'[t].entries = log
         /\ turns'[t].sid = turns[t].sid /\ turns'[t].left = turns[t].left
         /\ turns'[t].lesson = turns[t].lesson /\ turns'[t].seq = turns[t].seq
         /\ turns'[t].outcome = turns[t].outcome
<1> DEFINE new == [turns[t] EXCEPT !.stage = "count", !.entries = log]
<1>1. turns[t] \in TurnSet
  BY ElementOfSeq DEF TypeOK
<1>2. new \in TurnSet /\ new.opened = turns[t].opened /\ new.stale = turns[t].stale
  BY <1>1 DEF TurnSet
<1>3. Changes(t) /\ turns'[t] = new
  BY <1>2, TurnBecomes
<1> QED
  BY <1>1, <1>3 DEF TurnSet

\* A turn that has counted the rows.
LEMMA InsertsTurn ==
  ASSUME TypeOK, NEW t \in DOMAIN turns, NEW rows \in Nat,
         Becomes(t, [turns[t] EXCEPT !.stage = "insert", !.seq = rows])
  PROVE  /\ Changes(t)
         /\ turns'[t].stage = "insert" /\ turns'[t].seq = rows
         /\ turns'[t].sid = turns[t].sid /\ turns'[t].left = turns[t].left
         /\ turns'[t].lesson = turns[t].lesson /\ turns'[t].entries = turns[t].entries
         /\ turns'[t].outcome = turns[t].outcome
<1> DEFINE new == [turns[t] EXCEPT !.stage = "insert", !.seq = rows]
<1>1. turns[t] \in TurnSet
  BY ElementOfSeq DEF TypeOK
<1>2. new \in TurnSet /\ new.opened = turns[t].opened /\ new.stale = turns[t].stale
  BY <1>1 DEF TurnSet
<1>3. Changes(t) /\ turns'[t] = new
  BY <1>2, TurnBecomes
<1> QED
  BY <1>1, <1>3 DEF TurnSet

\* The lesson a create or start inserts takes the next id, one of the ids.
LEMMA NextLessonId ==
  ASSUME started \in Ids, NEW c \in Clients, NEW s \in Subjects,
         NEW op \in {"create", "start"}, StartLesson(c, op, s)
  PROVE  started' = started + 1 /\ started' \in Ids /\ started' \in 0..MaxLessons
<1>1. started < MaxLessons /\ started' = started + 1
  BY DEF StartLesson
<1>2. MaxLessons \in Nat
  BY LessonStoreAssumption
<1>3. started \in Nat /\ 1 <= started
  BY <1>2 DEF Ids
<1>4. started + 1 \in 1..MaxLessons /\ started + 1 \in 0..MaxLessons
  BY <1>1, <1>2, <1>3
<1> QED
  BY <1>1, <1>4 DEF Ids

\* A new lesson beside those there are.
LEMMA LessonInserted ==
  ASSUME TypeOK, NEW id \in Ids, NEW lesson \in LessonSet, InsertLesson(id, lesson)
  PROVE  /\ view' = [lessons |-> view'.lessons, rows |-> view'.rows]
         /\ view'.rows = view.rows
         /\ DOMAIN view'.lessons = DOMAIN view.lessons \cup {id}
         /\ view'.lessons \in [DOMAIN view'.lessons -> LessonSet]
         /\ view'.lessons[id] = lesson
         /\ \A i \in DOMAIN view.lessons : i # id => view'.lessons[i] = view.lessons[i]
<1> DEFINE more == [i \in DOMAIN view.lessons \cup {id} |->
                      IF i = id THEN lesson ELSE view.lessons[i]]
<1>1. view = [lessons |-> view.lessons, rows |-> view.rows]
      /\ view.lessons \in [DOMAIN view.lessons -> LessonSet]
  BY DEF TypeOK, IsStore
<1>2. view' = [view EXCEPT !.lessons = more]
  BY DEF InsertLesson
<1>3. view' = [lessons |-> more, rows |-> view.rows]
  BY <1>1, <1>2
<1>4. view'.lessons = more /\ view'.rows = view.rows
  BY <1>3
<1> QED
  BY <1>1, <1>3, <1>4

\* A row after those of its lesson.
LEMMA RowInserted ==
  ASSUME TypeOK, NEW id \in Ids, NEW row \in Row, InsertRow(id, row)
  PROVE  /\ view' = [lessons |-> view'.lessons, rows |-> view'.rows]
         /\ view'.lessons = view.lessons
         /\ view'.rows \in [Ids -> Seq(Row)]
         /\ view'.rows[id] = Append(view.rows[id], row)
         /\ \A i \in Ids : i # id => view'.rows[i] = view.rows[i]
<1>1. view = [lessons |-> view.lessons, rows |-> view.rows] /\ view.rows \in [Ids -> Seq(Row)]
  BY DEF TypeOK, IsStore
<1>2. view' = [view EXCEPT !.rows = [view.rows EXCEPT ![id] = Append(view.rows[id], row)]]
  BY DEF InsertRow
<1>3. view' = [lessons |-> view.lessons,
               rows |-> [view.rows EXCEPT ![id] = Append(view.rows[id], row)]]
  BY <1>1, <1>2
<1>4. view'.rows = [view.rows EXCEPT ![id] = Append(view.rows[id], row)]
      /\ view'.lessons = view.lessons
  BY <1>3
<1>5. Append(view.rows[id], row) \in Seq(Row)
  BY <1>1, Appended
<1> QED
  BY <1>1, <1>3, <1>4, <1>5

\* Another log for a lesson that is there.
LEMMA LessonUpdated ==
  ASSUME TypeOK, NEW id \in Ids, NEW log \in Log, UpdateLesson(id, log)
  PROVE  /\ view' = [lessons |-> view'.lessons, rows |-> view'.rows]
         /\ view'.rows = view.rows
         /\ DOMAIN view'.lessons = DOMAIN view.lessons
         /\ view'.lessons \in [DOMAIN view.lessons -> LessonSet]
         /\ id \in DOMAIN view.lessons => view'.lessons[id].log = log
         /\ \A i \in DOMAIN view.lessons : i # id => view'.lessons[i] = view.lessons[i]
<1>1. view = [lessons |-> view.lessons, rows |-> view.rows]
      /\ view.lessons \in [DOMAIN view.lessons -> LessonSet]
  BY DEF TypeOK, IsStore
<1>2. CASE id \in DOMAIN view.lessons
  <2> DEFINE new == Lesson(view.lessons[id].subject, log, TRUE)
  <2>1. new \in LessonSet /\ new.log = log
    BY <1>1, <1>2 DEF LessonSet, Lesson
  <2>2. view' = [view EXCEPT !.lessons = [view.lessons EXCEPT ![id] = new]]
    BY <1>2 DEF UpdateLesson
  <2>3. view' = [lessons |-> [view.lessons EXCEPT ![id] = new], rows |-> view.rows]
    BY <1>1, <2>2
  <2>4. view'.lessons = [view.lessons EXCEPT ![id] = new] /\ view'.rows = view.rows
    BY <2>3
  <2> QED
    BY <1>1, <1>2, <2>1, <2>3, <2>4
<1>3. CASE id \notin DOMAIN view.lessons
  BY <1>1, <1>3 DEF UpdateLesson
<1> QED
  BY <1>2, <1>3

-----------------------------------------------------------------------------
(* The shape of the state *)

LockOK ==
    /\ lock = {} \/ \E holder \in Clients \cup DOMAIN turns : lock = {holder}
    /\ \A c \in Clients : lock = {c} <=> req[c].stage = "commit"
    /\ \A t \in DOMAIN turns : lock = {t} <=> turns[t].stage \in Writing

\* A client is no turn.
LEMMA Apart ==
  ASSUME TypeOK, NEW c \in Clients, NEW t \in DOMAIN turns
  PROVE  {c} # {t}
<1>1. DOMAIN turns = 1..Len(turns) /\ Len(turns) \in Nat /\ Len(turns) <= MaxTurns
  BY LenProperties DEF TypeOK
<1>2. t \in 1..MaxTurns
  BY <1>1, LessonStoreAssumption
<1> QED
  BY <1>2, LessonStoreAssumption

\* While nobody has the lock nobody is in a transaction; while one has it nobody else is.
LEMMA Holder ==
  ASSUME TypeOK
  PROVE  /\ lock = {} => /\ \A c \in Clients : req[c].stage # "commit"
                         /\ \A t \in DOMAIN turns : turns[t].stage \notin Writing
         /\ \A c \in Clients : lock = {c} =>
              /\ \A d \in Clients : req[d].stage = "commit" <=> d = c
              /\ \A t \in DOMAIN turns : turns[t].stage \notin Writing
         /\ \A t \in DOMAIN turns : turns[t].stage \in Writing =>
              /\ lock = {t}
              /\ \A c \in Clients : req[c].stage # "commit"
              /\ \A u \in DOMAIN turns : turns[u].stage \in Writing => u = t
<1>1. LockOK
  BY DEF TypeOK, LockOK, Writing
<1>2. \A c \in Clients, t \in DOMAIN turns : {c} # {t}
  BY Apart
<1> QED
  BY <1>1, <1>2 DEF LockOK

\* A request takes the lock.
LEMMA RequestHolds ==
  ASSUME TypeOK, NEW c \in Clients, lock = {}, lock' = {c}, UNCHANGED turns,
         req'[c].stage = "commit", \A d \in Clients : d # c => req'[d] = req[d]
  PROVE  LockOK'
<1>1. ASSUME NEW d \in Clients PROVE lock' = {d} <=> req'[d].stage = "commit"
  BY Holder
<1>2. ASSUME NEW t \in DOMAIN turns PROVE lock' # {t} /\ turns[t].stage \notin Writing
  BY Holder, Apart
<1> QED
  BY <1>1, <1>2 DEF LockOK

\* A request gets another stage, or is over.
LEMMA ReqSet ==
  ASSUME TypeOK, NEW c \in Clients, NEW r \in Requests, SetReq(c, r)
  PROVE  /\ req' \in [Clients -> Requests] /\ req'[c] = r
         /\ \A d \in Clients : d # c => req'[d] = req[d]
  BY DEF TypeOK, SetReq

\* No request is one.
LEMMA NoReqType ==
  /\ NoReq \in Requests /\ NoReq.op = "none" /\ NoReq.stage = "none"
  /\ NoReq.lesson = NoLesson /\ NoReq.session = <<>>
<1>1. <<>> \in Seq(SessionSet) /\ NoLesson \in 0..MaxLessons
  BY EmptySeq, LessonStoreAssumption DEF NoLesson
<1> QED
  BY <1>1 DEF NoReq, Requests

\* A new session, which its window shows.
LEMMA Registered ==
  ASSUME TypeOK, NEW c \in Clients, NEW session \in SessionSet, Register(c, session)
  PROVE  /\ sessions' \in Seq(SessionSet) /\ Len(sessions') = Len(sessions) + 1
         /\ DOMAIN sessions' = DOMAIN sessions \cup {Len(sessions) + 1}
         /\ Len(sessions) + 1 \notin DOMAIN sessions /\ Len(sessions) \in Nat
         /\ sessions'[Len(sessions) + 1] = session
         /\ \A n \in DOMAIN sessions : sessions'[n] = sessions[n]
         /\ tab' \in [Clients -> [sid : Nat, lesson : 0..MaxLessons, since : 0..crashes]]
         /\ tab'[c].sid = Len(sessions) + 1 /\ tab'[c].lesson = session.lesson
         /\ \A d \in Clients : d # c => tab'[d] = tab[d]
<1>1. sessions \in Seq(SessionSet) /\ Len(sessions) \in Nat /\ sessions' = Append(sessions, session)
  BY LenProperties DEF TypeOK, Register
<1>2. /\ sessions' \in Seq(SessionSet) /\ Len(sessions') = Len(sessions) + 1
      /\ DOMAIN sessions = 1..Len(sessions) /\ DOMAIN sessions' = 1..(Len(sessions) + 1)
      /\ sessions'[Len(sessions) + 1] = session
      /\ \A n \in DOMAIN sessions : sessions'[n] = sessions[n]
  BY <1>1, Appended
<1>3. session.lesson \in 0..MaxLessons /\ crashes \in 0..crashes
  BY LessonStoreAssumption DEF SessionSet, TypeOK
<1>4. tab' = [tab EXCEPT ![c] = [sid |-> Len(sessions) + 1, lesson |-> session.lesson,
                                 since |-> crashes]]
  BY <1>2 DEF Register, Shows
<1>5. [sid |-> Len(sessions) + 1, lesson |-> session.lesson, since |-> crashes]
        \in [sid : Nat, lesson : 0..MaxLessons, since : 0..crashes]
  BY <1>1, <1>3
<1>6. /\ tab' \in [Clients -> [sid : Nat, lesson : 0..MaxLessons, since : 0..crashes]]
      /\ tab'[c].sid = Len(sessions) + 1 /\ tab'[c].lesson = session.lesson
      /\ \A d \in Clients : d # c => tab'[d] = tab[d]
  BY <1>4, <1>5 DEF TypeOK
<1>7. DOMAIN sessions' = DOMAIN sessions \cup {Len(sessions) + 1}
      /\ Len(sessions) + 1 \notin DOMAIN sessions
  BY <1>1, <1>2
<1> QED
  BY <1>1, <1>2, <1>6, <1>7

\* What a request reads of a lesson is a session of that lesson.
LEMMA RebuiltType ==
  ASSUME TypeOK, NEW id \in DOMAIN view.lessons
  PROVE  /\ id \in Ids /\ view.lessons[id] \in LessonSet
         /\ Rebuilt(id) \in SessionSet /\ Rebuilt(id).lesson = id
         /\ Rebuilt(id).log = view.lessons[id].log
         /\ Session(id, view.lessons[id].subject, <<>>) \in SessionSet
         /\ Session(id, view.lessons[id].subject, <<>>).lesson = id
         /\ Session(id, view.lessons[id].subject, <<>>).log = <<>>
<1>1. id \in Ids /\ id \in 0..MaxLessons
  BY LessonStoreAssumption DEF TypeOK, IsStore, Ids
<1>2. view.lessons[id] \in LessonSet
  BY DEF TypeOK, IsStore
<1>3. <<>> \in Log
  BY EmptySeq DEF Log
<1> QED
  BY <1>1, <1>2, <1>3 DEF Rebuilt, Session, SessionSet, LessonSet

\* The connection's store stays one when a statement has raised, or was undone with all
\* before it.
LEMMA RaisedStore ==
  ASSUME TypeOK, Linked, Raises
  PROVE  /\ IsStore(view') /\ db' = db /\ lock' = {} /\ failures' \in 0..MaxFailures
         /\ DOMAIN db.lessons \subseteq DOMAIN view'.lessons
  BY LessonStoreAssumption DEF TypeOK, Linked, Raises

\* A turn stays linked while it stays the same and its session keeps its lesson.
LEMMA TurnsStayLinked ==
  ASSUME TypeOK, Linked, UNCHANGED turns,
         \A n \in DOMAIN sessions :
            n \in DOMAIN sessions' /\ sessions'[n].lesson = sessions[n].lesson
  PROVE  \A t \in DOMAIN turns' : LinkedTurn(t)'
<1> SUFFICES ASSUME NEW t \in DOMAIN turns PROVE LinkedTurn(t)'
  OBVIOUS
<1>1. LinkedTurn(t)
  BY DEF Linked
<1> QED
  BY <1>1 DEF LinkedTurn, Persisting, Writing

\* The steps of a request that leave the store.
LEMMA SessionKeepsType ==
  ASSUME TypeInv, NEW c \in Clients,
         \/ CreateSession(c) \/ CreateForLesson(c) \/ RegisterResumed(c)
         \/ \E id \in DOMAIN view.lessons : Resume(c, id)
         \/ \E s \in Subjects : SetSubject(c, s)
  PROVE  TypeInv'
<1> USE DEF TypeInv
<1>1. ASSUME NEW session \in SessionSet, Register(c, session), UNCHANGED req \/ SetReq(c, NoReq),
             UNCHANGED req \/ req[c].stage # "commit",
             UNCHANGED <<server, db, view, lock, turns, started, failures, crashes>>
      PROVE  TypeInv'
  <2>1. req' \in [Clients -> Requests] /\ \A d \in Clients : req'[d] = req[d] \/ (d = c /\ req'[d] = NoReq)
    BY <1>1, ReqSet, NoReqType DEF TypeOK
  <2>2. LockOK'
    BY <1>1, <2>1, NoReqType DEF TypeOK, LockOK, Writing
  <2>3. \A t \in DOMAIN turns' : LinkedTurn(t)'
    BY <1>1, Registered, TurnsStayLinked
  <2>4. \A d \in Clients : LinkedReq(d)'
    BY <1>1, <2>1, NoReqType DEF Linked, LinkedReq
  <2>5. TypeOK'
    BY <1>1, <2>1, <2>2, Registered DEF TypeOK, LockOK, Writing, IsStore
  <2> QED
    BY <1>1, <2>3, <2>4, <2>5 DEF Linked
<1>2. CASE CreateSession(c)
  <2>1. Session(NoLesson, NoSubject, <<>>) \in SessionSet
    BY EmptySeq, LessonStoreAssumption DEF Session, SessionSet, NoLesson, Log
  <2> QED
    BY <1>1, <1>2, <2>1 DEF CreateSession
<1>3. CASE CreateForLesson(c)
  <2>1. req[c].op = "create" /\ req[c].lesson \in DOMAIN view.lessons
    BY <1>3, NoReqType DEF CreateForLesson, Linked, LinkedReq, TypeOK, Requests
  <2> QED
    BY <1>1, <1>3, <2>1, RebuiltType DEF CreateForLesson
<1>4. CASE RegisterResumed(c)
  <2>1. req[c].op = "resume"
    BY <1>4, NoReqType DEF RegisterResumed, Linked, LinkedReq, TypeOK, Requests
  <2>2. req[c].session \in Seq(SessionSet) /\ 1 \in DOMAIN req[c].session
    BY <2>1, LenProperties DEF Linked, LinkedReq, TypeOK, Requests
  <2>3. req[c].session[1] \in SessionSet
    BY <2>2, ElementOfSeq
  <2> QED
    BY <1>1, <1>4, <2>3 DEF RegisterResumed
<1>5. ASSUME NEW id \in DOMAIN view.lessons, Resume(c, id) PROVE TypeInv'
  <2> DEFINE r == [op |-> "resume",
                   stage |-> IF view.lessons[id].whole THEN "register" ELSE "save",
                   lesson |-> id, session |-> <<Rebuilt(id)>>]
  <2>1. <<Rebuilt(id)>> \in Seq(SessionSet) /\ Len(<<Rebuilt(id)>>) = 1
        /\ <<Rebuilt(id)>>[1] = Rebuilt(id)
    BY RebuiltType
  <2>2. r \in Requests /\ r.stage # "commit"
    BY <2>1, RebuiltType, LessonStoreAssumption DEF Requests, Ids
  <2>3. /\ req' \in [Clients -> Requests] /\ req'[c] = r
        /\ \A d \in Clients : d # c => req'[d] = req[d]
    BY <1>5, <2>2, ReqSet DEF Resume
  <2>4. req[c].stage # "commit"
    BY <1>5, NoReqType DEF Resume, Free
  <2>5. LockOK'
    BY <1>5, <2>2, <2>3, <2>4 DEF Resume, TypeOK, LockOK, Writing
  <2>6. \A t \in DOMAIN turns' : LinkedTurn(t)'
    BY <1>5, TurnsStayLinked DEF Resume
  <2>7. \A d \in Clients : LinkedReq(d)'
    <3> TAKE d \in Clients
    <3>1. CASE d = c
      <4>1. /\ req'[c].op = "resume" /\ req'[c].stage \in {"save", "register"}
            /\ req'[c].lesson = id /\ req'[c].session = <<Rebuilt(id)>>
        BY <2>3
      <4> QED
        BY <2>1, <3>1, <4>1, RebuiltType DEF LinkedReq
    <3>2. CASE d # c
      BY <1>5, <2>3, <3>2 DEF Resume, Linked, LinkedReq
    <3> QED
      BY <3>1, <3>2
  <2>8. TypeOK'
    BY <1>5, <2>3, <2>5 DEF Resume, TypeOK, LockOK, Writing, IsStore
  <2> QED
    BY <1>5, <2>6, <2>7, <2>8 DEF Resume, Linked
<1>6. ASSUME NEW s \in Subjects, SetSubject(c, s) PROVE TypeInv'
  <2> DEFINE sid == tab[c].sid
             new == [sessions[sid] EXCEPT !.subject = s]
  <2>1. sid \in DOMAIN sessions /\ sessions[sid] \in SessionSet /\ sessions \in Seq(SessionSet)
    BY <1>6, ElementOfSeq DEF SetSubject, TypeOK
  <2>2. new \in SessionSet /\ new.lesson = sessions[sid].lesson
    BY <2>1 DEF SessionSet
  <2>3. sessions' = [sessions EXCEPT ![sid] = new]
    BY <1>6 DEF SetSubject
  <2>4. /\ sessions' \in Seq(SessionSet) /\ DOMAIN sessions' = DOMAIN sessions
        /\ \A n \in DOMAIN sessions : sessions'[n].lesson = sessions[n].lesson
    <3> HIDE DEF sid, new
    <3> QED
      BY <2>1, <2>2, <2>3, Replaced
  <2>5. \A t \in DOMAIN turns' : LinkedTurn(t)'
    BY <1>6, <2>4, TurnsStayLinked DEF SetSubject
  <2>6. \A d \in Clients : LinkedReq(d)'
    BY <1>6 DEF SetSubject, Linked, LinkedReq
  <2>7. TypeOK'
    BY <1>6, <2>4 DEF SetSubject, TypeOK, IsStore
  <2> QED
    BY <1>6, <2>5, <2>6, <2>7 DEF SetSubject, Linked
<1> QED
  BY <1>2, <1>3, <1>4, <1>5, <1>6

\* A request stays linked while it stays the same and the lessons it names stay.
LEMMA ReqStaysLinked ==
  ASSUME Linked, NEW c \in Clients, req'[c] = req[c],
         req[c].stage # "commit" \/ DOMAIN view.lessons \subseteq DOMAIN view'.lessons,
         DOMAIN db.lessons \subseteq DOMAIN db'.lessons
  PROVE  LinkedReq(c)'
<1>1. LinkedReq(c)
  BY DEF Linked
<1> QED
  BY <1>1 DEF LinkedReq

\* The log that a resume is about to save.
LEMMA SavedType ==
  ASSUME TypeInv, NEW c \in Clients, req[c].op = "resume"
  PROVE  /\ req[c].lesson \in Ids /\ req[c].session[1] \in SessionSet
         /\ req[c].session[1].log \in Log
         /\ req[c].session[1].lesson = req[c].lesson
<1>1. req[c] \in Requests /\ LinkedReq(c)
  BY DEF TypeInv, TypeOK, Linked
<1>2. req[c].session \in Seq(SessionSet) /\ 1 \in DOMAIN req[c].session
  BY <1>1, LenProperties DEF LinkedReq, Requests
<1>3. req[c].session[1] \in SessionSet
  BY <1>2, ElementOfSeq
<1> QED
  BY <1>1, <1>3 DEF LinkedReq, SessionSet

\* A request that saves or registers a lesson's log resumes it.
LEMMA Resumes ==
  ASSUME TypeInv, NEW c \in Clients, req[c].stage \in {"save", "register"}
  PROVE  req[c].op = "resume"
  BY NoReqType DEF TypeInv, Linked, LinkedReq, TypeOK, Requests

\* Another client's request is not in a transaction while one of a client is.
LEMMA SessionWritesType ==
  ASSUME TypeInv, NEW c \in Clients,
         \/ \E s \in Subjects, op \in {"create", "start"} : StartLesson(c, op, s)
         \/ CommitRequest(c) \/ SaveSession(c) \/ RequestRaises(c)
  PROVE  TypeInv'
<1> USE DEF TypeInv
<1>1. ASSUME NEW s \in Subjects, NEW op \in {"create", "start"}, StartLesson(c, op, s)
      PROVE  TypeInv'
  <2> DEFINE r == [NoReq EXCEPT !.op = op, !.stage = "commit", !.lesson = started']
  <2>1. started' = started + 1 /\ started' \in Ids /\ started' \in 0..MaxLessons
    BY <1>1, NextLessonId DEF TypeOK
  <2>2. PICK id \in Ids : id = started'
    BY <2>1
  <2>3. Lesson(s, <<>>, TRUE) \in LessonSet
    BY EmptySeq DEF Lesson, LessonSet, Log
  <2>4. /\ r \in Requests /\ r.stage = "commit" /\ r.op = op /\ r.lesson = id
    BY <2>1, <2>2, NoReqType DEF Requests, NoReq
  <2>5. /\ req' \in [Clients -> Requests] /\ req'[c] = r
        /\ \A d \in Clients : d # c => req'[d] = req[d]
    BY <1>1, <2>4, ReqSet DEF StartLesson
  <2>6. lock = {} /\ lock' = {c}
    BY <1>1 DEF StartLesson, Locks
  <2>7. LockOK'
    BY <1>1, <2>4, <2>5, <2>6, RequestHolds DEF StartLesson
  <2>8. InsertLesson(id, Lesson(s, <<>>, TRUE)) /\ UNCHANGED db
    BY <1>1, <2>2 DEF StartLesson, InsertLesson
  <2>9. /\ view' = [lessons |-> view'.lessons, rows |-> view'.rows] /\ view'.rows = view.rows
        /\ DOMAIN view'.lessons = DOMAIN view.lessons \cup {id}
        /\ view'.lessons \in [DOMAIN view'.lessons -> LessonSet]
    BY <2>3, <2>8, LessonInserted
  <2>10. IsStore(view)' /\ IsStore(db)'
    <3>1. 1..started \subseteq 1..started' /\ id \in 1..started'
      BY <2>1, <2>2 DEF TypeOK, Ids
    <3>2. DOMAIN view.lessons \subseteq 1..started /\ view.rows \in [Ids -> Seq(Row)] /\ IsStore(db)
      BY DEF TypeOK, IsStore
    <3>3. IsStore(view)'
      BY <2>9, <3>1, <3>2 DEF IsStore
    <3>4. DOMAIN db.lessons \subseteq 1..started'
      BY <3>1, <3>2 DEF IsStore
    <3>5. IsStore(db)'
      BY <2>8, <3>2, <3>4, Zenon DEF IsStore
    <3> QED
      BY <3>3, <3>5
  <2>11. \A t \in DOMAIN turns' : LinkedTurn(t)'
    BY <1>1, TurnsStayLinked DEF StartLesson
  <2>12. \A d \in Clients : LinkedReq(d)'
    <3> TAKE d \in Clients
    <3>1. CASE d = c
      BY <2>4, <2>5, <2>9, <3>1 DEF LinkedReq
    <3>2. CASE d # c
      BY <2>5, <2>8, <2>9, <3>2, ReqStaysLinked
    <3> QED
      BY <3>1, <3>2
  <2>13. TypeOK'
    BY <1>1, <2>1, <2>5, <2>7, <2>10 DEF StartLesson, TypeOK, LockOK, Writing
  <2> QED
    BY <2>8, <2>9, <2>11, <2>12, <2>13 DEF Linked
<1>2. CASE CommitRequest(c)
  <2>1. lock = {c} /\ lock' = {} /\ db' = view /\ view' = view /\ req[c].stage = "commit"
    BY <1>2 DEF CommitRequest, Commits, TypeOK
  <2> DEFINE stage == IF req[c].op = "create" THEN "new_session" ELSE "register"
             r == IF req[c].op = "start" THEN NoReq ELSE [req[c] EXCEPT !.stage = stage]
  <2>2. req[c] \in Requests
    BY DEF TypeOK
  <2>3. [req[c] EXCEPT !.stage = stage] \in Requests
    BY <2>2 DEF Requests
  <2>4. r \in Requests
    BY <2>3, NoReqType
  <2>5. SetReq(c, r)
    BY <1>2 DEF CommitRequest
  <2>6. /\ req' \in [Clients -> Requests] /\ req'[c] = r
        /\ \A d \in Clients : d # c => req'[d] = req[d]
    <3> HIDE DEF r
    <3> QED
      BY <2>4, <2>5, ReqSet
  <2>7. /\ req[c].op = "start" => req'[c] = NoReq
        /\ req[c].op # "start" =>
             /\ req'[c].stage = stage /\ req'[c].op = req[c].op
             /\ req'[c].lesson = req[c].lesson /\ req'[c].session = req[c].session
    BY <2>2, <2>6 DEF Requests
  <2>8. req'[c].stage # "commit"
    BY <2>7, NoReqType
  <2>9. LockOK'
    BY <1>2, <2>1, <2>6, <2>8, Holder DEF CommitRequest, LockOK
  <2>10. \A d \in Clients : LinkedReq(d)'
    <3> TAKE d \in Clients
    <3>1. CASE d = c
      <4>1. LinkedReq(c) /\ req[c].op \in {"create", "start", "resume"}
        BY <2>1, <2>2, NoReqType DEF Linked, LinkedReq, Requests
      <4>2. CASE req[c].op = "start"
        BY <2>7, <3>1, <4>2, NoReqType DEF LinkedReq
      <4>3. CASE req[c].op # "start"
        BY <2>1, <2>7, <3>1, <4>1, <4>3 DEF LinkedReq
      <4> QED
        BY <4>2, <4>3
    <3>2. CASE d # c
      BY <2>1, <2>6, <3>2, ReqStaysLinked DEF Linked
    <3> QED
      BY <3>1, <3>2
  <2>11. \A t \in DOMAIN turns' : LinkedTurn(t)'
    BY <1>2, TurnsStayLinked DEF CommitRequest
  <2>12. TypeOK'
    BY <1>2, <2>1, <2>6, <2>9 DEF CommitRequest, TypeOK, LockOK, Writing, IsStore
  <2> QED
    BY <2>1, <2>10, <2>11, <2>12 DEF Linked
<1>3. CASE SaveSession(c)
  <2> DEFINE r == [req[c] EXCEPT !.stage = "commit"]
  <2>1. req[c] \in Requests /\ req[c].op = "resume" /\ LinkedReq(c)
    BY <1>3, NoReqType DEF SaveSession, Linked, LinkedReq, TypeOK, Requests
  <2>2. /\ r \in Requests /\ r.stage = "commit" /\ r.op = req[c].op
        /\ r.lesson = req[c].lesson /\ r.session = req[c].session
    BY <2>1 DEF Requests
  <2>3. /\ req' \in [Clients -> Requests] /\ req'[c] = r
        /\ \A d \in Clients : d # c => req'[d] = req[d]
    BY <1>3, <2>2, ReqSet DEF SaveSession
  <2>4. lock = {} /\ lock' = {c}
    BY <1>3 DEF SaveSession, Locks
  <2>5. LockOK'
    BY <1>3, <2>2, <2>3, <2>4, RequestHolds DEF SaveSession
  <2>6. req[c].lesson \in Ids /\ req[c].session[1].log \in Log
    BY <2>1, SavedType
  <2>7. /\ view' = [lessons |-> view'.lessons, rows |-> view'.rows] /\ view'.rows = view.rows
        /\ DOMAIN view'.lessons = DOMAIN view.lessons
        /\ view'.lessons \in [DOMAIN view.lessons -> LessonSet]
    BY <1>3, <2>6, LessonUpdated DEF SaveSession
  <2>8. UNCHANGED <<db, started>>
    BY <1>3 DEF SaveSession, UpdateLesson
  <2>9. IsStore(view)' /\ IsStore(db)'
    BY <2>7, <2>8 DEF TypeOK, IsStore
  <2>10. \A t \in DOMAIN turns' : LinkedTurn(t)'
    BY <1>3, TurnsStayLinked DEF SaveSession
  <2>11. \A d \in Clients : LinkedReq(d)'
    <3> TAKE d \in Clients
    <3>1. CASE d = c
      BY <2>1, <2>2, <2>3, <3>1 DEF LinkedReq
    <3>2. CASE d # c
      BY <2>3, <2>7, <2>8, <3>2, ReqStaysLinked
    <3> QED
      BY <3>1, <3>2
  <2>12. TypeOK'
    BY <1>3, <2>3, <2>5, <2>9 DEF SaveSession, TypeOK, LockOK, Writing
  <2> QED
    BY <2>7, <2>8, <2>10, <2>11, <2>12 DEF Linked
<1>4. CASE RequestRaises(c)
  <2>1. /\ req' \in [Clients -> Requests] /\ req'[c] = NoReq
        /\ \A d \in Clients : d # c => req'[d] = req[d]
    BY <1>4, NoReqType, ReqSet DEF RequestRaises
  <2>2. IsStore(view') /\ db' = db /\ lock' = {} /\ failures' \in 0..MaxFailures
        /\ DOMAIN db.lessons \subseteq DOMAIN view'.lessons
    BY <1>4, RaisedStore DEF RequestRaises
  <2>3. LockOK'
    BY <1>4, <2>1, <2>2, Holder, NoReqType DEF RequestRaises, LockOK
  <2>4. \A t \in DOMAIN turns' : LinkedTurn(t)'
    BY <1>4, TurnsStayLinked DEF RequestRaises
  <2>5. \A d \in Clients : LinkedReq(d)'
    <3> TAKE d \in Clients
    <3>1. CASE d = c
      BY <2>1, <3>1, NoReqType DEF LinkedReq
    <3>2. CASE d # c
      <4>1. req[d].stage # "commit"
        BY <1>4, <3>2, Holder DEF RequestRaises
      <4> QED
        BY <2>1, <2>2, <3>2, <4>1, ReqStaysLinked
    <3> QED
      BY <3>1, <3>2
  <2>6. TypeOK'
    BY <1>4, <2>1, <2>2, <2>3 DEF RequestRaises, TypeOK, LockOK, Writing, IsStore
  <2> QED
    BY <2>2, <2>4, <2>5, <2>6 DEF Linked
<1> QED
  BY <1>1, <1>2, <1>3, <1>4

\* A step of a thread: its own turn changes, and the lock goes with it.
LEMMA ThreadType ==
  ASSUME TypeInv, NEW t \in DOMAIN turns, Changes(t), LinkedTurn(t)',
         UNCHANGED <<server, req, tab, started, crashes>>, failures' \in 0..MaxFailures,
         sessions' \in Seq(SessionSet), DOMAIN sessions' = DOMAIN sessions,
         \A n \in DOMAIN sessions : sessions'[n].lesson = sessions[n].lesson,
         IsStore(view'), IsStore(db'),
         DOMAIN db.lessons \subseteq DOMAIN db'.lessons,
         DOMAIN db'.lessons \subseteq DOMAIN view'.lessons,
         lock = {t} \/ DOMAIN view.lessons \subseteq DOMAIN view'.lessons,
         turns'[t].stage \in Writing => lock \in {{}, {t}} /\ lock' = {t},
         turns'[t].stage \notin Writing => lock' = IF lock = {t} THEN {} ELSE lock
  PROVE  TypeInv'
<1> USE DEF TypeInv
<1>1. \A c \in Clients : {c} # {t}
  BY Apart
<1>2. ASSUME NEW c \in Clients PROVE lock' = {c} <=> req'[c].stage = "commit"
  <2>1. lock = {c} <=> req[c].stage = "commit"
    BY DEF TypeOK
  <2> QED
    BY <1>1, <2>1
<1>3. ASSUME NEW u \in DOMAIN turns PROVE lock' = {u} <=> turns'[u].stage \in Writing
  <2>1. lock = {u} <=> turns[u].stage \in Writing
    BY DEF TypeOK, Writing
  <2>2. CASE u = t
    BY <2>1, <2>2
  <2>3. CASE u # t
    <3>1. turns'[u] = turns[u]
      BY <2>3 DEF Changes
    <3>2. {u} # {t}
      BY <2>3, Zenon
    <3> QED
      BY <2>1, <3>1, <3>2
  <2> QED
    BY <2>2, <2>3
<1>4. DOMAIN turns' = DOMAIN turns /\ turns' \in Seq(TurnSet) /\ Len(turns') = Len(turns)
  BY DEF Changes
<1>5. TypeOK'
  BY <1>2, <1>3, <1>4 DEF TypeOK, Writing, IsStore
<1>6. ASSUME NEW u \in DOMAIN turns PROVE LinkedTurn(u)'
  <2>1. CASE u = t
    BY <2>1
  <2>2. CASE u # t
    <3>1. turns'[u] = turns[u] /\ LinkedTurn(u)
      BY <2>2 DEF Changes, Linked
    <3> QED
      BY <3>1 DEF LinkedTurn, Persisting, Writing
  <2> QED
    BY <2>1, <2>2
<1>7. ASSUME NEW c \in Clients PROVE LinkedReq(c)'
  <2>1. req[c].stage # "commit" \/ DOMAIN view.lessons \subseteq DOMAIN view'.lessons
    BY <1>1 DEF TypeOK
  <2> QED
    BY <2>1, ReqStaysLinked
<1> QED
  BY <1>4, <1>5, <1>6, <1>7 DEF Linked

\* What a turn's fields are.
LEMMA TurnType ==
  ASSUME TypeInv, NEW t \in DOMAIN turns
  PROVE  /\ turns[t] \in TurnSet /\ LinkedTurn(t) /\ t \in 1..MaxTurns
         /\ lock = {t} <=> turns[t].stage \in Writing
         /\ turns[t].stage # "over" =>
              turns[t].sid \in DOMAIN sessions /\ sessions[turns[t].sid] \in SessionSet
<1>1. DOMAIN turns = 1..Len(turns) /\ Len(turns) \in Nat /\ Len(turns) <= MaxTurns
  BY LenProperties DEF TypeInv, TypeOK
<1>2. t \in 1..MaxTurns
  BY <1>1, LessonStoreAssumption
<1>3. turns[t] \in TurnSet /\ LinkedTurn(t)
  BY ElementOfSeq DEF TypeInv, TypeOK, Linked
<1>4. turns[t].stage # "over" =>
        turns[t].sid \in DOMAIN sessions /\ sessions[turns[t].sid] \in SessionSet
  BY <1>3, ElementOfSeq DEF TypeInv, TypeOK, LinkedTurn
<1> QED
  BY <1>2, <1>3, <1>4 DEF TypeInv, TypeOK, Writing

\* The steps of a thread keep the shape.
LEMMA ThreadKeepsType ==
  ASSUME TypeInv, NEW t \in DOMAIN turns, Thread(t)
  PROVE  TypeInv'
<1>0. /\ turns[t] \in TurnSet /\ LinkedTurn(t) /\ t \in 1..MaxTurns
      /\ lock = {t} <=> turns[t].stage \in Writing
      /\ turns[t].stage # "over" =>
           turns[t].sid \in DOMAIN sessions /\ sessions[turns[t].sid] \in SessionSet
      /\ TypeOK /\ Linked /\ IsStore(view) /\ IsStore(db)
      /\ DOMAIN db.lessons \subseteq DOMAIN view.lessons
      /\ sessions \in Seq(SessionSet) /\ failures \in 0..MaxFailures
      /\ turns[t].stage \in Stages
  BY TurnType DEF TypeInv, TypeOK, Linked, TurnSet, Stages
<1>1. CASE Leave(t)
  <2>1. /\ Changes(t) /\ turns'[t].sid = turns[t].sid /\ turns'[t].stage = turns[t].stage
        /\ turns'[t].lesson = turns[t].lesson /\ turns'[t].outcome = turns[t].outcome
    BY <1>0, <1>1, LeavesTurn DEF Leave
  <2>2. UNCHANGED <<server, db, view, lock, sessions, req, tab, started, failures, crashes>>
    BY <1>1 DEF Leave
  <2>3. LinkedTurn(t)'
    BY <1>0, <2>1, <2>2 DEF LinkedTurn
  <2> QED
    BY <1>0, <2>1, <2>2, <2>3, ThreadType
<1>2. CASE Answer(t)
  <2> DEFINE sid == turns[t].sid
             new == [sessions[sid] EXCEPT !.log = Append(sessions[sid].log, t)]
  <2>1. turns[t].stage = "answering" /\ sid \in DOMAIN sessions /\ sessions[sid] \in SessionSet
        /\ UNCHANGED <<server, db, view, lock, req, tab, started, failures, crashes>>
        /\ sessions' = [sessions EXCEPT ![sid] = new]
    BY <1>0, <1>2 DEF Answer
  <2>2. Append(sessions[sid].log, t) \in Log
    BY <1>0, <2>1, Appended DEF SessionSet, Log
  <2>3. new \in SessionSet /\ new.lesson = sessions[sid].lesson
        /\ sessions[sid].lesson \in 0..MaxLessons
    BY <2>1, <2>2 DEF SessionSet
  <2>4. /\ sessions' \in Seq(SessionSet) /\ DOMAIN sessions' = DOMAIN sessions
        /\ \A n \in DOMAIN sessions : sessions'[n].lesson = sessions[n].lesson
    <3> HIDE DEF new, sid
    <3> QED
      BY <1>0, <2>1, <2>3, Replaced
  <2>5. CASE sessions[sid].lesson = NoLesson
    <3>1. Changes(t) /\ turns'[t].stage = "over" /\ turns'[t].outcome = "plain"
      BY <1>0, <1>2, <2>5, EndsTurn DEF Answer, Outcomes
    <3>2. LinkedTurn(t)'
      BY <3>1 DEF LinkedTurn, Persisting, Writing
    <3> QED
      BY <1>0, <2>1, <2>4, <3>1, <3>2, ThreadType DEF Writing
  <2>6. CASE sessions[sid].lesson # NoLesson
    <3>1. Becomes(t, [turns[t] EXCEPT !.stage = "check", !.lesson = sessions[sid].lesson])
      BY <1>2, <2>6 DEF Answer
    <3>2. /\ Changes(t) /\ turns'[t].stage = "check" /\ turns'[t].lesson = sessions[sid].lesson
          /\ turns'[t].sid = sid /\ turns'[t].outcome = turns[t].outcome
      BY <1>0, <2>3, <3>1, ChecksTurn
    <3>3. sessions[sid].lesson \in Ids
      BY <2>3, <2>6, LessonStoreAssumption DEF NoLesson, Ids
    <3>4. LinkedTurn(t)'
      BY <1>0, <2>1, <2>4, <3>2, <3>3 DEF LinkedTurn
    <3> QED
      BY <1>0, <2>1, <2>4, <3>2, <3>4, ThreadType DEF Writing
  <2> QED
    BY <2>5, <2>6
<1>3. CASE Check(t)
  <2>1. turns[t].stage = "check" /\ sessions[turns[t].sid].log \in Log
        /\ UNCHANGED <<server, db, view, lock, sessions, req, tab, started, failures, crashes>>
    BY <1>0, <1>3 DEF Check, SessionSet
  <2>2. CASE Ends(t, "refused")
    <3>1. Changes(t) /\ turns'[t].stage = "over" /\ turns'[t].outcome = "refused"
      BY <1>0, <2>2, EndsTurn DEF Outcomes
    <3>2. LinkedTurn(t)'
      BY <3>1 DEF LinkedTurn, Persisting, Writing
    <3> QED
      BY <1>0, <2>1, <3>1, <3>2, ThreadType DEF Writing
  <2>3. CASE Becomes(t, [turns[t] EXCEPT !.stage = "count", !.entries = sessions[turns[t].sid].log])
    <3>1. /\ Changes(t) /\ turns'[t].stage = "count" /\ turns'[t].lesson = turns[t].lesson
          /\ turns'[t].sid = turns[t].sid /\ turns'[t].outcome = turns[t].outcome
      BY <1>0, <2>1, <2>3, CountsTurn
    <3>2. LinkedTurn(t)'
      BY <1>0, <2>1, <3>1 DEF LinkedTurn, Persisting, Writing
    <3> QED
      BY <1>0, <2>1, <3>1, <3>2, ThreadType DEF Writing
  <2> QED
    BY <1>3, <2>2, <2>3 DEF Check
<1>4. CASE CountRows(t)
  <2>1. turns[t].stage = "count" /\ turns[t].lesson \in Ids /\ lock = {} /\ lock' = {t}
        /\ UNCHANGED <<server, db, view, sessions, req, tab, started, failures, crashes>>
    BY <1>0, <1>4 DEF CountRows, Locks, LinkedTurn, Persisting
  <2>2. Len(view.rows[turns[t].lesson]) \in Nat
    BY <1>0, <2>1, LenProperties DEF IsStore
  <2>3. /\ Changes(t) /\ turns'[t].stage = "insert" /\ turns'[t].lesson = turns[t].lesson
        /\ turns'[t].sid = turns[t].sid /\ turns'[t].outcome = turns[t].outcome
    BY <1>0, <1>4, <2>2, InsertsTurn DEF CountRows
  <2>4. LinkedTurn(t)'
    BY <1>0, <2>1, <2>3 DEF LinkedTurn, Persisting, Writing
  <2> QED
    BY <1>0, <2>1, <2>3, <2>4, ThreadType DEF Writing
<1>5. CASE InsertTurn(t)
  <2>1. turns[t].stage = "insert" /\ turns[t].lesson \in Ids /\ lock = {t}
        /\ UNCHANGED <<server, db, lock, sessions, req, tab, started, failures, crashes>>
    BY <1>0, <1>5 DEF InsertTurn, InsertRow, LinkedTurn, Persisting, Writing
  <2>2. [turn |-> t, seq |-> turns[t].seq] \in Row
    BY <1>0 DEF Row, TurnSet
  <2>3. /\ view' = [lessons |-> view'.lessons, rows |-> view'.rows]
        /\ view'.lessons = view.lessons /\ view'.rows \in [Ids -> Seq(Row)]
    BY <1>0, <1>5, <2>1, <2>2, RowInserted DEF InsertTurn
  <2>4. IsStore(view')
    BY <1>0, <2>3 DEF IsStore
  <2>5. /\ Changes(t) /\ turns'[t].stage = "update" /\ turns'[t].lesson = turns[t].lesson
        /\ turns'[t].sid = turns[t].sid /\ turns'[t].outcome = turns[t].outcome
    BY <1>0, <1>5, GoesTurn DEF InsertTurn, Stages
  <2>6. LinkedTurn(t)'
    BY <1>0, <2>1, <2>5 DEF LinkedTurn, Persisting, Writing
  <2> QED
    BY <1>0, <2>1, <2>3, <2>4, <2>5, <2>6, ThreadType DEF Writing
<1>6. CASE UpdateLog(t)
  <2>1. turns[t].stage = "update" /\ turns[t].lesson \in Ids /\ lock = {t}
        /\ turns[t].entries \in Log
        /\ UNCHANGED <<server, db, lock, sessions, req, tab, started, failures, crashes>>
    BY <1>0, <1>6 DEF UpdateLog, UpdateLesson, LinkedTurn, Persisting, Writing, TurnSet
  <2>2. /\ view' = [lessons |-> view'.lessons, rows |-> view'.rows] /\ view'.rows = view.rows
        /\ DOMAIN view'.lessons = DOMAIN view.lessons
        /\ view'.lessons \in [DOMAIN view.lessons -> LessonSet]
    BY <1>0, <1>6, <2>1, LessonUpdated DEF UpdateLog
  <2>3. IsStore(view')
    BY <1>0, <2>2 DEF IsStore
  <2>4. /\ Changes(t) /\ turns'[t].stage = "commit" /\ turns'[t].lesson = turns[t].lesson
        /\ turns'[t].sid = turns[t].sid /\ turns'[t].outcome = turns[t].outcome
    BY <1>0, <1>6, GoesTurn DEF UpdateLog, Stages
  <2>5. LinkedTurn(t)'
    BY <1>0, <2>1, <2>4 DEF LinkedTurn, Persisting, Writing
  <2> QED
    BY <1>0, <2>1, <2>2, <2>3, <2>4, <2>5, ThreadType DEF Writing
<1>7. CASE CommitTurn(t)
  <2>1. turns[t].stage = "commit" /\ lock = {t} /\ lock' = {} /\ db' = view /\ view' = view
        /\ UNCHANGED <<server, sessions, req, tab, started, failures, crashes>>
    BY <1>0, <1>7 DEF CommitTurn, Commits, Writing
  <2>2. Changes(t) /\ turns'[t].stage = "over" /\ turns'[t].outcome = "kept"
    BY <1>0, <1>7, EndsTurn DEF CommitTurn, Outcomes
  <2>3. LinkedTurn(t)'
    BY <2>2 DEF LinkedTurn, Persisting, Writing
  <2> QED
    BY <1>0, <2>1, <2>2, <2>3, ThreadType DEF Writing
<1>8. CASE PersistRaises(t)
  <2>1. lock = {t} /\ UNCHANGED <<server, sessions, req, tab, started, crashes>>
    BY <1>8 DEF PersistRaises
  <2>2. IsStore(view') /\ db' = db /\ lock' = {} /\ failures' \in 0..MaxFailures
        /\ DOMAIN db.lessons \subseteq DOMAIN view'.lessons
    BY <1>0, <1>8, RaisedStore DEF PersistRaises
  <2>3. Changes(t) /\ turns'[t].stage = "over" /\ turns'[t].outcome = "raised"
    BY <1>0, <1>8, EndsTurn DEF PersistRaises, Outcomes
  <2>4. LinkedTurn(t)'
    BY <2>3 DEF LinkedTurn, Persisting, Writing
  <2> QED
    BY <1>0, <2>1, <2>2, <2>3, <2>4, ThreadType DEF Writing
<1> QED
  BY <1>1, <1>2, <1>3, <1>4, <1>5, <1>6, <1>7, <1>8 DEF Thread

\* A turn begins in the session its window shows, and holds nothing yet.
LEMMA TurnStarts ==
  ASSUME TypeInv, NEW c \in Clients, StartTurn(c)
  PROVE  /\ turns' \in Seq(TurnSet) /\ Len(turns') = Len(turns) + 1 /\ Len(turns) \in Nat
         /\ DOMAIN turns = 1..Len(turns) /\ DOMAIN turns' = DOMAIN turns \cup {Len(turns) + 1}
         /\ Len(turns) + 1 \notin DOMAIN turns /\ Len(turns') <= MaxTurns
         /\ \A t \in DOMAIN turns : turns'[t] = turns[t]
         /\ turns'[Len(turns) + 1] = Turn(c)
         /\ Turn(c).sid \in DOMAIN sessions
<1>1. /\ turns \in Seq(TurnSet) /\ Len(turns) \in Nat /\ Len(turns) < MaxTurns
      /\ tab[c] \in [sid : Nat, lesson : 0..MaxLessons, since : 0..crashes]
      /\ tab[c].sid \in DOMAIN sessions /\ turns' = Append(turns, Turn(c))
  BY LenProperties DEF TypeInv, TypeOK, StartTurn
<1>2. <<>> \in Log /\ NoLesson \in 0..MaxLessons
  BY EmptySeq, LessonStoreAssumption DEF Log, NoLesson
<1>3. Turn(c) \in TurnSet /\ Turn(c).sid = tab[c].sid
  BY <1>1, <1>2 DEF Turn, TurnSet
<1>4. /\ turns' \in Seq(TurnSet) /\ Len(turns') = Len(turns) + 1
      /\ DOMAIN turns = 1..Len(turns) /\ DOMAIN turns' = 1..(Len(turns) + 1)
      /\ turns'[Len(turns) + 1] = Turn(c)
      /\ \A t \in DOMAIN turns : turns'[t] = turns[t]
  BY <1>1, <1>3, Appended
<1>5. DOMAIN turns' = DOMAIN turns \cup {Len(turns) + 1} /\ Len(turns) + 1 \notin DOMAIN turns
  BY <1>1, <1>4
<1>6. Len(turns') <= MaxTurns
  BY <1>1, <1>4, LessonStoreAssumption
<1> QED
  BY <1>1, <1>3, <1>4, <1>5, <1>6

\* A turn that begins keeps the shape.
LEMMA StartKeepsType ==
  ASSUME TypeInv, NEW c \in Clients, StartTurn(c)
  PROVE  TypeInv'
<1> USE DEF TypeInv
<1> DEFINE new == Len(turns) + 1
<1>1. /\ turns' \in Seq(TurnSet) /\ Len(turns') <= MaxTurns
      /\ DOMAIN turns' = DOMAIN turns \cup {new} /\ new \notin DOMAIN turns
      /\ \A t \in DOMAIN turns : turns'[t] = turns[t]
      /\ turns'[new] = Turn(c) /\ Turn(c).sid \in DOMAIN sessions /\ new \in Nat
      /\ DOMAIN turns' = 1..new /\ new <= MaxTurns
  BY TurnStarts, LenProperties
<1>2. UNCHANGED <<server, db, view, lock, sessions, req, tab, started, failures, crashes>>
  BY DEF StartTurn
<1>3. /\ Turn(c).stage = "answering" /\ Turn(c).outcome = "none" /\ Turn(c).lesson = NoLesson
  BY DEF Turn
<1>4. lock # {new}
  <2>1. ASSUME NEW d \in Clients PROVE {d} # {new}
    BY <1>1, LessonStoreAssumption
  <2>2. ASSUME NEW t \in DOMAIN turns PROVE {t} # {new}
    BY <1>1
  <2> QED
    BY <2>1, <2>2 DEF TypeOK
<1> HIDE DEF new
<1>5. TypeOK'
  BY <1>1, <1>2, <1>3, <1>4 DEF TypeOK, Writing, IsStore
<1>6. ASSUME NEW t \in DOMAIN turns' PROVE LinkedTurn(t)'
  <2>1. CASE t = new
    BY <1>1, <1>2, <1>3, <2>1 DEF LinkedTurn, Persisting, Writing
  <2>2. CASE t # new
    <3>1. t \in DOMAIN turns /\ turns'[t] = turns[t] /\ LinkedTurn(t)
      BY <1>1, <2>2 DEF Linked
    <3> QED
      BY <1>2, <3>1 DEF LinkedTurn
  <2> QED
    BY <2>1, <2>2
<1>7. ASSUME NEW d \in Clients PROVE LinkedReq(d)'
  BY <1>2, ReqStaysLinked
<1> QED
  BY <1>2, <1>5, <1>6, <1>7 DEF Linked

\* The turns that a crash leaves.
LEMMA CrashedTurns ==
  ASSUME TypeInv, Crash
  PROVE  /\ turns' \in Seq(TurnSet) /\ DOMAIN turns' = DOMAIN turns /\ Len(turns') = Len(turns)
         /\ \A t \in DOMAIN turns :
              /\ turns'[t].stage = "over"
              /\ turns[t].stage = "over" => turns'[t] = turns[t]
              /\ turns[t].stage # "over" => turns'[t].outcome = "lost"
              /\ turns'[t].lesson = turns[t].lesson /\ turns'[t].left = turns[t].left
              /\ turns'[t].opened = turns[t].opened /\ turns'[t].stale = turns[t].stale
<1> DEFINE after(t) == IF turns[t].stage = "over" THEN turns[t] ELSE Ended(turns[t], "lost")
<1>1. ASSUME NEW t \in DOMAIN turns
      PROVE  /\ after(t) \in TurnSet /\ after(t).stage = "over"
             /\ turns[t].stage = "over" => after(t) = turns[t]
             /\ turns[t].stage # "over" => after(t).outcome = "lost"
             /\ after(t).lesson = turns[t].lesson /\ after(t).left = turns[t].left
             /\ after(t).opened = turns[t].opened /\ after(t).stale = turns[t].stale
  BY TurnType, EndedTurn DEF Outcomes
<1>2. turns' = [t \in DOMAIN turns |-> after(t)]
  BY DEF Crash
<1>3. DOMAIN turns = 1..Len(turns) /\ Len(turns) \in Nat
  BY LenProperties DEF TypeInv, TypeOK
<1> HIDE DEF after
<1>4. DOMAIN turns' = DOMAIN turns /\ \A t \in DOMAIN turns : turns'[t] = after(t)
  BY <1>2
<1>5. turns' \in Seq(TurnSet)
  BY <1>1, <1>2, <1>3, IsASeq
<1>6. Len(turns') = Len(turns)
  BY <1>3, <1>4, <1>5, LenProperties
<1> QED
  BY <1>1, <1>4, <1>5, <1>6

\* The steps of the process keep the shape: a crash leaves no request, no session and no
\* turn under way.
LEMMA ServerKeepsType ==
  ASSUME TypeInv, Open \/ Opened \/ OpenFails \/ Crash
  PROVE  TypeInv'
<1> USE DEF TypeInv
<1>1. ASSUME server' \in [phase : {"down", "opening", "fallback", "up"},
                          statement : 0..Len(Statements), attempt : 0..Retries],
             failures' \in 0..MaxFailures,
             UNCHANGED <<db, view, lock, sessions, req, tab, turns, started, crashes>>
      PROVE  TypeInv'
  <2>1. TypeOK'
    BY <1>1 DEF TypeOK, IsStore
  <2> QED
    BY <1>1, <2>1, TurnsStayLinked, ReqStaysLinked DEF Linked
<1>2. Len(Statements) = 5
  BY DEF Statements
<1>3. Retries \in Nat /\ Retries > 0 /\ MaxFailures \in Nat /\ MaxCrashes \in Nat
  BY LessonStoreAssumption
<1>4. server \in [phase : {"down", "opening", "fallback", "up"}, statement : 0..5, attempt : 0..Retries]
      /\ failures \in 0..MaxFailures
  BY <1>2 DEF TypeOK
<1>5. Down \in [phase : {"down", "opening", "fallback", "up"}, statement : 0..5, attempt : 0..Retries]
  BY <1>3 DEF Down
<1>6. CASE Open
  BY <1>1, <1>2, <1>3, <1>4, <1>6 DEF Open
<1>7. CASE Opened
  <2>1. server' \in [phase : {"down", "opening", "fallback", "up"}, statement : 0..5, attempt : 0..Retries]
    BY <1>2, <1>3, <1>4, <1>7 DEF Opened
  <2> QED
    BY <1>1, <1>2, <1>4, <1>7, <2>1 DEF Opened
<1>8. CASE OpenFails
  <2>1. server' \in [phase : {"down", "opening", "fallback", "up"}, statement : 0..5, attempt : 0..Retries]
    <3>1. server.attempt \in 0..Retries /\ server.statement \in 0..5
      BY <1>4
    <3>2. CASE server.attempt < Retries
      <4>1. server.attempt + 1 \in 0..Retries
        BY <1>3, <3>1, <3>2
      <4> QED
        BY <1>4, <1>8, <3>2, <4>1 DEF OpenFails
    <3>3. CASE server.attempt = Retries
      <4>1. server' = [phase |-> "fallback", statement |-> server.statement, attempt |-> 1]
            \/ server' = Down
        BY <1>3, <1>8, <3>3 DEF OpenFails
      <4> QED
        BY <1>3, <1>5, <3>1, <4>1
    <3> QED
      BY <1>3, <3>1, <3>2, <3>3
  <2>2. failures' \in 0..MaxFailures
    BY <1>3, <1>4, <1>8 DEF OpenFails
  <2> QED
    BY <1>1, <1>2, <1>8, <2>1, <2>2 DEF OpenFails
<1>9. CASE Crash
  <2>1. /\ server' = Down /\ view' = db /\ db' = db /\ lock' = {} /\ sessions' = <<>>
        /\ req' = [c \in Clients |-> NoReq] /\ UNCHANGED <<tab, started, failures>>
        /\ crashes' = crashes + 1 /\ crashes' \in 0..MaxCrashes
    BY <1>3, <1>9 DEF Crash, TypeOK
  <2>2. /\ turns' \in Seq(TurnSet) /\ DOMAIN turns' = DOMAIN turns /\ Len(turns') = Len(turns)
        /\ \A t \in DOMAIN turns :
             /\ turns'[t].stage = "over"
             /\ turns[t].stage = "over" => turns'[t] = turns[t]
             /\ turns[t].stage # "over" => turns'[t].outcome = "lost"
    BY <1>9, CrashedTurns
  <2>3. tab' \in [Clients -> [sid : Nat, lesson : 0..MaxLessons, since : 0..crashes']]
    <3>1. 0..crashes \subseteq 0..crashes'
      BY <2>1 DEF TypeOK
    <3> QED
      BY <2>1, <3>1 DEF TypeOK
  <2>4. req' \in [Clients -> Requests] /\ \A c \in Clients : req'[c] = NoReq
    BY <2>1, NoReqType
  <2>5. sessions' \in Seq(SessionSet)
    BY <2>1, EmptySeq
  <2>6. LockOK'
    BY <2>1, <2>2, <2>4, NoReqType DEF LockOK, Writing
  <2>7. TypeOK'
    BY <1>2, <1>5, <2>1, <2>2, <2>3, <2>4, <2>5, <2>6 DEF TypeOK, LockOK, Writing, IsStore
  <2>8. ASSUME NEW t \in DOMAIN turns PROVE LinkedTurn(t)'
    <3>1. LinkedTurn(t)
      BY DEF Linked
    <3> QED
      BY <2>2, <3>1 DEF LinkedTurn, Persisting, Writing
  <2>9. ASSUME NEW c \in Clients PROVE LinkedReq(c)'
    BY <2>4, NoReqType DEF LinkedReq
  <2> QED
    BY <2>1, <2>2, <2>7, <2>8, <2>9 DEF Linked
<1> QED
  BY <1>6, <1>7, <1>8, <1>9

\* So does every request.
LEMMA RequestKeepsType ==
  ASSUME TypeInv, NEW c \in Clients, Request(c)
  PROVE  TypeInv'
  BY SessionKeepsType, SessionWritesType, StartKeepsType DEF Request

\* The library that one lesson is in.
LEMMA InitType ==
  ASSUME Init
  PROVE  TypeInv
<1>1. PICK s \in Subjects :
        db = [lessons |-> [id \in {1} |-> Lesson(s, <<>>, FALSE)], rows |-> [id \in Ids |-> <<>>]]
  BY DEF Init
<1>2. <<>> \in Log /\ <<>> \in Seq(Row) /\ <<>> \in Seq(SessionSet) /\ <<>> \in Seq(TurnSet)
      /\ Len(<<>>) = 0 /\ DOMAIN <<>> = {}
  BY EmptySeq DEF Log
<1>3. Lesson(s, <<>>, FALSE) \in LessonSet
  BY <1>2 DEF Lesson, LessonSet
<1>4. started = 1 /\ 1 \in Ids /\ 1..started = {1}
  BY LessonStoreAssumption DEF Init, Ids
<1>5. db.lessons = [id \in {1} |-> Lesson(s, <<>>, FALSE)] /\ db.rows = [id \in Ids |-> <<>>]
  BY <1>1
<1>6. db = [lessons |-> db.lessons, rows |-> db.rows] /\ DOMAIN db.lessons = {1}
      /\ db.lessons \in [{1} -> LessonSet] /\ db.rows \in [Ids -> Seq(Row)]
  BY <1>1, <1>2, <1>3, <1>5
<1>7. IsStore(db) /\ view = db
  BY <1>4, <1>6 DEF IsStore, Init
<1>8. /\ sessions = <<>> /\ turns = <<>> /\ lock = {} /\ failures = 0 /\ crashes = 0
      /\ req = [c \in Clients |-> NoReq] /\ tab = [c \in Clients |-> NoTab] /\ server = Down
  BY DEF Init
<1>9. NoTab \in [sid : Nat, lesson : 0..MaxLessons, since : 0..crashes]
  BY <1>8, LessonStoreAssumption DEF NoTab, NoLesson
<1>10. server \in [phase : {"down", "opening", "fallback", "up"},
                   statement : 0..Len(Statements), attempt : 0..Retries]
  BY <1>8, LessonStoreAssumption DEF Down, Statements
<1>11. failures \in 0..MaxFailures /\ crashes \in 0..MaxCrashes /\ Len(turns) <= MaxTurns
  BY <1>2, <1>8, LessonStoreAssumption
<1>12. TypeOK
  BY <1>2, <1>4, <1>7, <1>8, <1>9, <1>10, <1>11, NoReqType DEF TypeOK
<1> QED
  BY <1>2, <1>7, <1>8, <1>12, NoReqType DEF TypeInv, Linked, LinkedReq

\* Every step keeps the shape.
LEMMA NextKeepsType ==
  TypeInv /\ [Next]_vars => TypeInv'
<1> SUFFICES ASSUME TypeInv, [Next]_vars PROVE TypeInv'
  OBVIOUS
<1>1. CASE UNCHANGED vars
  BY <1>1 DEF vars, TypeInv, TypeOK, IsStore, Linked, LinkedTurn, LinkedReq
<1>2. CASE Next
  BY <1>2, ServerKeepsType, RequestKeepsType, ThreadKeepsType DEF Next
<1> QED
  BY <1>1, <1>2

\* The shape of the state, always.
LEMMA TypeAlways == Spec => []TypeInv
<1>1. Init => TypeInv
  BY InitType
<1> QED
  BY <1>1, NextKeepsType, PTL DEF Spec

\* Every variable keeps its shape, for any number of windows, lessons and turns; the lock is
\* held by the client or the turn whose transaction is under way, and by no other.
THEOREM TypeCorrect == Spec => []TypeOK
  BY TypeAlways, PTL DEF TypeInv

-----------------------------------------------------------------------------
(* Rows *)

\* The turns of a lesson that gets another row.
LEMMA TurnsOfAppend ==
  ASSUME NEW rows \in Seq(Row), NEW row \in Row
  PROVE  TurnsOf(Append(rows, row)) = TurnsOf(rows) \cup {row.turn}
<1>1. Range(Append(rows, row)) = Range(rows) \cup {row}
  BY Appended
<1> QED
  BY <1>1 DEF TurnsOf

\* A step that writes no row and starts or ends no transaction.
LEMMA RowsStay ==
  ASSUME TypeInv, RowInv, view'.rows = view.rows, db'.rows = db.rows,
         \A t \in DOMAIN turns' :
            \/ turns'[t].stage \notin Writing /\ turns'[t].outcome # "kept"
            \/ /\ t \in DOMAIN turns
               /\ turns'[t].lesson = turns[t].lesson /\ turns'[t].outcome = turns[t].outcome
               /\ \/ turns'[t].stage = turns[t].stage /\ turns'[t].seq = turns[t].seq
                  \/ turns'[t].stage = "commit" /\ turns[t].stage = "update"
  PROVE  RowInv'
<1>1. KeptInOrder'
  BY DEF RowInv, KeptInOrder
<1>2. ASSUME NEW t \in DOMAIN turns'
      PROVE  /\ turns'[t].outcome = "kept" => turns'[t].lesson \in Ids
             /\ turns'[t].stage = "insert" => turns'[t].seq = Len(view'.rows[turns'[t].lesson])
             /\ turns'[t].stage \in {"update", "commit"} =>
                  t \in TurnsOf(view'.rows[turns'[t].lesson])
  BY DEF RowInv, Writing
<1>3. /\ \A id \in Ids : TurnsOf(db'.rows[id]) \subseteq TurnsOf(view'.rows[id])
      /\ \A id \in Ids : \A i \in DOMAIN view'.rows[id] : view'.rows[id][i].seq = i - 1
  BY DEF RowInv
<1> QED
  BY <1>1, <1>2, <1>3 DEF RowInv

\* A transaction that is undone, or given up.
LEMMA RowsUndone ==
  ASSUME TypeInv, RowInv, view' \in {view, db}, db' = db, DOMAIN turns' = DOMAIN turns,
         \A t \in DOMAIN turns :
            /\ turns'[t].stage \notin Writing
            /\ \/ turns'[t].outcome # "kept"
               \/ turns'[t].outcome = turns[t].outcome /\ turns'[t].lesson = turns[t].lesson
  PROVE  RowInv'
<1>1. KeptInOrder'
  BY DEF RowInv, KeptInOrder
<1>2. /\ \A id \in Ids : TurnsOf(db'.rows[id]) \subseteq TurnsOf(view'.rows[id])
      /\ \A id \in Ids : \A i \in DOMAIN view'.rows[id] : view'.rows[id][i].seq = i - 1
  BY DEF RowInv, KeptInOrder
<1> QED
  BY <1>1, <1>2 DEF RowInv, Writing

\* A transaction is committed, with the row of its turn.
LEMMA RowsCommitted ==
  ASSUME TypeInv, RowInv, db' = view, view' = view, DOMAIN turns' = DOMAIN turns,
         \A t \in DOMAIN turns :
            /\ turns'[t].stage \notin Writing
            /\ \/ turns'[t].outcome # "kept"
               \/ turns'[t].outcome = turns[t].outcome /\ turns'[t].lesson = turns[t].lesson
               \/ turns[t].stage = "commit" /\ turns'[t].lesson = turns[t].lesson
  PROVE  RowInv'
<1>1. ASSUME NEW t \in DOMAIN turns, turns'[t].outcome = "kept"
      PROVE  turns'[t].lesson \in Ids /\ t \in TurnsOf(view.rows[turns'[t].lesson])
  <2>1. CASE turns[t].stage = "commit" /\ turns'[t].lesson = turns[t].lesson
    BY <2>1, TurnType DEF RowInv, LinkedTurn, Persisting, Writing
  <2>2. CASE turns'[t].outcome = turns[t].outcome /\ turns'[t].lesson = turns[t].lesson
    BY <1>1, <2>2 DEF RowInv, KeptInOrder
  <2> QED
    BY <1>1, <2>1, <2>2
<1>2. KeptInOrder'
  BY <1>1 DEF RowInv, KeptInOrder
<1> QED
  BY <1>1, <1>2 DEF RowInv, Writing

\* A thread's step keeps the rows in order.
LEMMA ThreadKeepsRows ==
  ASSUME TypeInv, RowInv, NEW t \in DOMAIN turns, Thread(t)
  PROVE  RowInv'
<1>0. /\ turns[t] \in TurnSet /\ LinkedTurn(t) /\ t \in 1..MaxTurns
      /\ lock = {t} <=> turns[t].stage \in Writing
      /\ turns[t].stage # "over" => sessions[turns[t].sid] \in SessionSet
      /\ TypeOK
  BY TurnType DEF TypeInv
<1>1. CASE Leave(t)
  BY <1>0, <1>1, LeavesTurn, RowsStay DEF Leave, Changes
<1>2. CASE Answer(t)
  <2>1. CASE sessions[turns[t].sid].lesson = NoLesson
    <3>1. Changes(t) /\ turns'[t].stage = "over" /\ turns'[t].outcome = "plain"
      BY <1>0, <1>2, <2>1, EndsTurn DEF Answer, Outcomes
    <3> QED
      BY <1>2, <3>1, RowsStay DEF Answer, Changes, Writing
  <2>2. CASE sessions[turns[t].sid].lesson # NoLesson
    <3>1. Becomes(t, [turns[t] EXCEPT !.stage = "check", !.lesson = sessions[turns[t].sid].lesson])
          /\ sessions[turns[t].sid].lesson \in 0..MaxLessons
      BY <1>0, <1>2, <2>2 DEF Answer, SessionSet
    <3>2. Changes(t) /\ turns'[t].stage = "check" /\ turns'[t].outcome = turns[t].outcome
      BY <1>0, <3>1, ChecksTurn
    <3>3. turns[t].outcome = "none"
      BY <1>0, <1>2 DEF Answer, LinkedTurn
    <3> QED
      BY <1>2, <3>2, <3>3, RowsStay DEF Answer, Changes, Writing
  <2> QED
    BY <2>1, <2>2
<1>3. CASE Check(t)
  <2>1. turns[t].outcome = "none" /\ sessions[turns[t].sid].log \in Log /\ UNCHANGED <<db, view>>
    BY <1>0, <1>3 DEF Check, LinkedTurn, SessionSet
  <2>2. CASE Ends(t, "refused")
    <3>1. Changes(t) /\ turns'[t].stage = "over" /\ turns'[t].outcome = "refused"
      BY <1>0, <2>2, EndsTurn DEF Outcomes
    <3> QED
      BY <2>1, <3>1, RowsStay DEF Changes, Writing
  <2>3. CASE Becomes(t, [turns[t] EXCEPT !.stage = "count", !.entries = sessions[turns[t].sid].log])
    <3>1. Changes(t) /\ turns'[t].stage = "count" /\ turns'[t].outcome = turns[t].outcome
      BY <1>0, <2>1, <2>3, CountsTurn
    <3> QED
      BY <2>1, <3>1, RowsStay DEF Changes, Writing
  <2> QED
    BY <1>3, <2>2, <2>3 DEF Check
<1>4. CASE CountRows(t)
  <2>1. turns[t].lesson \in Ids /\ turns[t].outcome = "none" /\ UNCHANGED <<db, view>>
    BY <1>0, <1>4 DEF CountRows, LinkedTurn, Persisting
  <2>2. Len(view.rows[turns[t].lesson]) \in Nat
    BY <1>0, <2>1, LenProperties DEF TypeOK, IsStore
  <2>3. /\ Changes(t) /\ turns'[t].stage = "insert" /\ turns'[t].lesson = turns[t].lesson
        /\ turns'[t].seq = Len(view.rows[turns[t].lesson])
        /\ turns'[t].outcome = turns[t].outcome
    BY <1>0, <1>4, <2>2, InsertsTurn DEF CountRows
  <2>4. KeptInOrder'
    BY <2>1, <2>3 DEF RowInv, KeptInOrder, Changes
  <2>5. ASSUME NEW u \in DOMAIN turns
        PROVE  /\ turns'[u].outcome = "kept" => turns'[u].lesson \in Ids
               /\ turns'[u].stage = "insert" => turns'[u].seq = Len(view.rows[turns'[u].lesson])
               /\ turns'[u].stage \in {"update", "commit"} =>
                    u \in TurnsOf(view.rows[turns'[u].lesson])
    <3>1. CASE u = t
      BY <2>1, <2>3, <3>1
    <3>2. CASE u # t
      BY <2>3, <3>2 DEF RowInv, Changes
    <3> QED
      BY <3>1, <3>2
  <2> QED
    BY <2>1, <2>3, <2>4, <2>5 DEF RowInv, Changes
<1>5. CASE InsertTurn(t)
  <2> DEFINE id == turns[t].lesson
             row == [turn |-> t, seq |-> turns[t].seq]
  <2>1. /\ turns[t].stage = "insert" /\ id \in Ids /\ row \in Row /\ turns[t].outcome = "none"
        /\ view.rows \in [Ids -> Seq(Row)] /\ UNCHANGED db
    BY <1>0, <1>5 DEF InsertTurn, InsertRow, LinkedTurn, Persisting, Writing, Row, TurnSet,
                      TypeOK, IsStore
  <2>2. /\ view'.rows[id] = Append(view.rows[id], row)
        /\ \A i \in Ids : i # id => view'.rows[i] = view.rows[i]
    <3>1. InsertRow(id, row)
      BY <1>5 DEF InsertTurn
    <3> HIDE DEF row, id
    <3> QED
      BY <1>0, <2>1, <3>1, RowInserted
  <2>3. /\ Changes(t) /\ turns'[t].stage = "update" /\ turns'[t].lesson = id
        /\ turns'[t].outcome = turns[t].outcome
    BY <1>0, <1>5, GoesTurn DEF InsertTurn, Stages
  <2>4. turns[t].seq = Len(view.rows[id]) /\ view.rows[id] \in Seq(Row)
    BY <2>1 DEF RowInv
  <2>5. TurnsOf(view'.rows[id]) = TurnsOf(view.rows[id]) \cup {t}
    <3>1. row.turn = t
      OBVIOUS
    <3> HIDE DEF row
    <3> QED
      BY <2>1, <2>2, <2>4, <3>1, TurnsOfAppend
  <2>6. ASSUME NEW i \in Ids, NEW n \in DOMAIN view'.rows[i]
        PROVE  view'.rows[i][n].seq = n - 1
    <3>1. CASE i = id
      <4>1. /\ Len(view.rows[id]) \in Nat /\ DOMAIN view.rows[id] = 1..Len(view.rows[id])
            /\ DOMAIN Append(view.rows[id], row) = 1..(Len(view.rows[id]) + 1)
            /\ Append(view.rows[id], row)[Len(view.rows[id]) + 1] = row
            /\ \A j \in DOMAIN view.rows[id] : Append(view.rows[id], row)[j] = view.rows[id][j]
        BY <2>1, <2>4, Appended, LenProperties
      <4>2. row.seq = Len(view.rows[id])
        BY <2>4
      <4>3. n \in 1..(Len(view.rows[id]) + 1)
        BY <2>2, <3>1, <4>1
      <4>4. CASE n = Len(view.rows[id]) + 1
        <5>1. view'.rows[i][n] = row
          BY <2>2, <3>1, <4>1, <4>4
        <5> QED
          BY <4>1, <4>2, <4>4, <5>1
      <4>5. CASE n # Len(view.rows[id]) + 1
        <5>1. n \in DOMAIN view.rows[id]
          BY <4>1, <4>3, <4>5
        <5>2. view'.rows[i][n] = view.rows[id][n]
          BY <2>2, <3>1, <4>1, <5>1
        <5>3. view.rows[id][n].seq = n - 1
          BY <2>1, <5>1 DEF RowInv
        <5> QED
          BY <5>2, <5>3
      <4> QED
        BY <4>4, <4>5
    <3>2. CASE i # id
      BY <2>2, <3>2 DEF RowInv
    <3> QED
      BY <3>1, <3>2
  <2>7. KeptInOrder'
    BY <2>1, <2>3 DEF RowInv, KeptInOrder, Changes
  <2>8. ASSUME NEW u \in DOMAIN turns
        PROVE  /\ turns'[u].outcome = "kept" => turns'[u].lesson \in Ids
               /\ turns'[u].stage = "insert" => turns'[u].seq = Len(view'.rows[turns'[u].lesson])
               /\ turns'[u].stage \in {"update", "commit"} =>
                    u \in TurnsOf(view'.rows[turns'[u].lesson])
    <3>1. CASE u = t
      BY <2>1, <2>3, <2>5, <3>1
    <3>2. CASE u # t
      <4>1. turns[u].stage \notin Writing /\ turns'[u] = turns[u]
        BY <1>0, <2>1, <2>3, <3>2, Holder DEF Changes, Writing
      <4> QED
        BY <4>1 DEF RowInv, Writing
    <3> QED
      BY <3>1, <3>2
  <2>9. \A i \in Ids : TurnsOf(db'.rows[i]) \subseteq TurnsOf(view'.rows[i])
    BY <2>1, <2>2, <2>5 DEF RowInv
  <2> QED
    BY <2>3, <2>6, <2>7, <2>8, <2>9 DEF RowInv, Changes
<1>6. CASE UpdateLog(t)
  <2>1. turns[t].stage = "update" /\ turns[t].lesson \in Ids /\ turns[t].entries \in Log
        /\ UNCHANGED db
    BY <1>0, <1>6 DEF UpdateLog, UpdateLesson, LinkedTurn, Persisting, Writing, TurnSet
  <2>2. view'.rows = view.rows
    BY <1>0, <1>6, <2>1, LessonUpdated DEF UpdateLog
  <2>3. /\ Changes(t) /\ turns'[t].stage = "commit" /\ turns'[t].lesson = turns[t].lesson
        /\ turns'[t].outcome = turns[t].outcome
    BY <1>0, <1>6, GoesTurn DEF UpdateLog, Stages
  <2> QED
    BY <2>1, <2>2, <2>3, RowsStay DEF Changes
<1>7. CASE CommitTurn(t)
  <2>1. turns[t].stage = "commit" /\ db' = view /\ view' = view
    BY <1>7 DEF CommitTurn, Commits
  <2>2. Changes(t) /\ turns'[t].stage = "over" /\ turns'[t].lesson = turns[t].lesson
    BY <1>0, <1>7, EndsTurn DEF CommitTurn, Outcomes
  <2>3. \A u \in DOMAIN turns : u # t => turns[u].stage \notin Writing
    BY <1>0, <2>1, Holder DEF Writing
  <2> QED
    BY <2>1, <2>2, <2>3, RowsCommitted DEF Changes, Writing
<1>8. CASE PersistRaises(t)
  <2>1. lock = {t} /\ view' \in {view, db} /\ db' = db
    BY <1>8 DEF PersistRaises, Raises
  <2>2. Changes(t) /\ turns'[t].stage = "over" /\ turns'[t].outcome = "raised"
    BY <1>0, <1>8, EndsTurn DEF PersistRaises, Outcomes
  <2>3. \A u \in DOMAIN turns : u # t => turns[u].stage \notin Writing
    BY <1>0, <2>1, Holder
  <2> QED
    BY <2>1, <2>2, <2>3, RowsUndone DEF Changes, Writing
<1> QED
  BY <1>1, <1>2, <1>3, <1>4, <1>5, <1>6, <1>7, <1>8 DEF Thread

\* So does a client's request.
LEMMA RequestKeepsRows ==
  ASSUME TypeInv, RowInv, NEW c \in Clients, Request(c)
  PROVE  RowInv'
<1>0. TypeOK /\ Linked
  BY DEF TypeInv
<1>1. ASSUME UNCHANGED turns, view'.rows = view.rows, db' = db PROVE RowInv'
  BY <1>1, RowsStay
<1>2. CASE CreateSession(c) \/ CreateForLesson(c) \/ RegisterResumed(c)
            \/ (\E id \in DOMAIN view.lessons : Resume(c, id))
            \/ (\E s \in Subjects : SetSubject(c, s))
  BY <1>1, <1>2 DEF CreateSession, CreateForLesson, RegisterResumed, Resume, SetSubject
<1>3. ASSUME NEW s \in Subjects, NEW op \in {"create", "start"}, StartLesson(c, op, s)
      PROVE  RowInv'
  <2>1. PICK id \in Ids : id = started'
    BY <1>3, NextLessonId DEF TypeInv, TypeOK
  <2>2. Lesson(s, <<>>, TRUE) \in LessonSet
    BY EmptySeq DEF Lesson, LessonSet, Log
  <2>3. InsertLesson(id, Lesson(s, <<>>, TRUE)) /\ db' = db
    BY <1>3, <2>1 DEF StartLesson, InsertLesson
  <2>4. view'.rows = view.rows
    BY <1>0, <2>2, <2>3, LessonInserted
  <2> QED
    BY <1>1, <1>3, <2>3, <2>4 DEF StartLesson
<1>4. CASE CommitRequest(c)
  <2>1. lock = {c} /\ db' = view /\ view' = view /\ turns' = turns
    BY <1>4 DEF CommitRequest, Commits
  <2> QED
    BY <1>0, <2>1, Holder, RowsCommitted
<1>5. CASE SaveSession(c)
  <2>1. req[c].lesson \in Ids /\ req[c].session[1].log \in Log
    BY <1>5, Resumes, SavedType DEF SaveSession
  <2>2. view'.rows = view.rows /\ db' = db
    BY <1>0, <1>5, <2>1, LessonUpdated DEF SaveSession, UpdateLesson
  <2> QED
    BY <1>1, <1>5, <2>2 DEF SaveSession
<1>6. CASE RequestRaises(c)
  <2>1. lock = {c} /\ view' \in {view, db} /\ db' = db /\ turns' = turns
    BY <1>6 DEF RequestRaises, Raises
  <2> QED
    BY <1>0, <2>1, Holder, RowsUndone
<1>7. CASE StartTurn(c)
  <2>1. /\ DOMAIN turns' = DOMAIN turns \cup {Len(turns) + 1}
        /\ \A t \in DOMAIN turns : turns'[t] = turns[t]
        /\ turns'[Len(turns) + 1] = Turn(c)
    BY <1>7, TurnStarts
  <2>2. Turn(c).stage = "answering" /\ Turn(c).outcome = "none"
    BY DEF Turn
  <2> QED
    BY <1>7, <2>1, <2>2, RowsStay DEF StartTurn, Writing
<1> QED
  BY <1>2, <1>3, <1>4, <1>5, <1>6, <1>7 DEF Request

\* The rows of the lessons, always.
LEMMA RowsAlways == Spec => []RowInv
<1>1. Init => RowInv
  <2> SUFFICES ASSUME Init PROVE RowInv
    OBVIOUS
  <2>1. PICK s \in Subjects :
          db = [lessons |-> [id \in {1} |-> Lesson(s, <<>>, FALSE)], rows |-> [id \in Ids |-> <<>>]]
    BY DEF Init
  <2>2. \A id \in Ids : db.rows[id] = <<>>
    BY <2>1
  <2>3. view = db /\ turns = <<>> /\ DOMAIN turns = {} /\ DOMAIN <<>> = {}
    BY EmptySeq DEF Init
  <2> QED
    BY <2>2, <2>3 DEF RowInv, KeptInOrder
<1>2. TypeInv /\ RowInv /\ [Next]_vars => RowInv'
  <2> SUFFICES ASSUME TypeInv, RowInv, [Next]_vars PROVE RowInv'
    OBVIOUS
  <2>1. CASE UNCHANGED vars
    BY <2>1 DEF vars, RowInv, KeptInOrder
  <2>2. CASE Open \/ Opened \/ OpenFails
    BY <2>2, RowsStay DEF Open, Opened, OpenFails
  <2>3. CASE Crash
    <3>1. /\ DOMAIN turns' = DOMAIN turns
          /\ \A t \in DOMAIN turns :
               /\ turns'[t].stage = "over"
               /\ turns[t].stage = "over" => turns'[t] = turns[t]
               /\ turns[t].stage # "over" => turns'[t].outcome = "lost"
      BY <2>3, CrashedTurns
    <3> QED
      BY <2>3, <3>1, RowsUndone DEF Crash, Writing
  <2> QED
    BY <2>1, <2>2, <2>3, RequestKeepsRows, ThreadKeepsRows DEF Next
<1> QED
  BY <1>1, <1>2, TypeAlways, PTL DEF Spec

\* A turn whose persist_turn returned is on disk from then on, and the rows of every lesson
\* are numbered without a gap or a repetition: whoever holds LessonStore._lock has counted
\* all the rows there are, and a commit makes them durable together.
THEOREM KeptInOrderHolds == Spec => []KeptInOrder
  BY RowsAlways, PTL DEF RowInv

-----------------------------------------------------------------------------
(* Lessons *)

\* Another subject for a session leaves its lesson and its log.
LEMMA SubjectSet ==
  ASSUME TypeInv, NEW c \in Clients, NEW s \in Subjects, SetSubject(c, s)
  PROVE  /\ DOMAIN sessions' = DOMAIN sessions
         /\ \A n \in DOMAIN sessions :
              sessions'[n].lesson = sessions[n].lesson /\ sessions'[n].log = sessions[n].log
         /\ UNCHANGED <<server, db, view, lock, req, tab, turns, started, failures, crashes>>
<1> DEFINE sid == tab[c].sid
           new == [sessions[sid] EXCEPT !.subject = s]
<1>1. sid \in DOMAIN sessions /\ sessions[sid] \in SessionSet /\ sessions \in Seq(SessionSet)
  BY ElementOfSeq DEF SetSubject, TypeInv, TypeOK
<1>2. new \in SessionSet /\ new.lesson = sessions[sid].lesson /\ new.log = sessions[sid].log
  BY <1>1 DEF SessionSet
<1>3. sessions' = [sessions EXCEPT ![sid] = new]
  BY DEF SetSubject
<1>4. /\ DOMAIN sessions' = DOMAIN sessions
      /\ \A n \in DOMAIN sessions :
           sessions'[n].lesson = sessions[n].lesson /\ sessions'[n].log = sessions[n].log
  <2> HIDE DEF sid, new
  <2> QED
    BY <1>1, <1>2, <1>3, Replaced
<1> QED
  BY <1>4 DEF SetSubject

\* An answer joins the log of its session.
LEMMA Answered ==
  ASSUME TypeInv, NEW t \in DOMAIN turns, Answer(t)
  PROVE  /\ turns[t].sid \in DOMAIN sessions /\ DOMAIN sessions' = DOMAIN sessions
         /\ \A n \in DOMAIN sessions : sessions'[n].lesson = sessions[n].lesson
         /\ \A n \in DOMAIN sessions : n # turns[t].sid => sessions'[n].log = sessions[n].log
         /\ Range(sessions'[turns[t].sid].log) = Range(sessions[turns[t].sid].log) \cup {t}
         /\ UNCHANGED <<server, db, view, lock, req, tab, started, failures, crashes>>
<1> DEFINE sid == turns[t].sid
           log == Append(sessions[sid].log, t)
           new == [sessions[sid] EXCEPT !.log = log]
<1>1. sid \in DOMAIN sessions /\ sessions[sid] \in SessionSet /\ sessions \in Seq(SessionSet)
      /\ t \in 1..MaxTurns
  BY TurnType DEF Answer, TypeInv, TypeOK
<1>2. log \in Log /\ Range(log) = Range(sessions[sid].log) \cup {t}
  <2>1. PICK s \in Seq(1..MaxTurns) : s = sessions[sid].log
    BY <1>1 DEF SessionSet, Log
  <2>2. Append(s, t) \in Seq(1..MaxTurns) /\ Range(Append(s, t)) = Range(s) \cup {t}
    <3>1. t \in 1..MaxTurns
      BY <1>1
    <3>2. PICK S : S = 1..MaxTurns
      OBVIOUS
    <3>3. s \in Seq(S) /\ t \in S
      BY <3>1, <3>2
    <3>4. Append(s, t) \in Seq(S)
      BY <3>3, Appended
    <3>5. Range(Append(s, t)) = Range(s) \cup {t}
      BY <3>3, Appended
    <3> QED
      BY <3>2, <3>4, <3>5
  <2> QED
    BY <2>1, <2>2 DEF Log
<1>3. sessions' = [sessions EXCEPT ![sid] = new]
  BY DEF Answer
<1> HIDE DEF log
<1>4. new \in SessionSet /\ new.lesson = sessions[sid].lesson /\ new.log = log
  BY <1>1, <1>2 DEF SessionSet
<1>5. /\ DOMAIN sessions' = DOMAIN sessions /\ sessions'[sid] = new
      /\ \A n \in DOMAIN sessions : n # sid => sessions'[n] = sessions[n]
  <2> HIDE DEF sid, new
  <2> QED
    BY <1>1, <1>3, <1>4, Replaced
<1> QED
  BY <1>1, <1>2, <1>4, <1>5 DEF Answer

\* What every step of a thread leaves alone.
LEMMA ThreadStep ==
  ASSUME TypeInv, NEW t \in DOMAIN turns, Thread(t)
  PROVE  /\ Changes(t) /\ UNCHANGED <<tab, req, crashes>>
         /\ turns'[t].stage # "over" => turns[t].stage # "over" /\ turns'[t].sid = turns[t].sid
         /\ DOMAIN sessions' = DOMAIN sessions
         /\ \A n \in DOMAIN sessions : sessions'[n].lesson = sessions[n].lesson
         /\ InsertTurn(t) \/ view'.rows = view.rows \/ view' = db
<1>0. /\ turns[t] \in TurnSet /\ LinkedTurn(t) /\ t \in 1..MaxTurns
      /\ turns[t].stage # "over" => sessions[turns[t].sid] \in SessionSet
      /\ TypeOK
  BY TurnType DEF TypeInv
<1>1. CASE Leave(t)
  BY <1>0, <1>1, LeavesTurn DEF Leave
<1>2. CASE Answer(t)
  <2>1. CASE sessions[turns[t].sid].lesson = NoLesson
    BY <1>0, <1>2, <2>1, EndsTurn, Answered DEF Answer, Outcomes
  <2>2. CASE sessions[turns[t].sid].lesson # NoLesson
    <3>1. Becomes(t, [turns[t] EXCEPT !.stage = "check", !.lesson = sessions[turns[t].sid].lesson])
          /\ sessions[turns[t].sid].lesson \in 0..MaxLessons /\ turns[t].stage # "over"
      BY <1>0, <1>2, <2>2 DEF Answer, SessionSet
    <3> QED
      BY <1>0, <1>2, <3>1, ChecksTurn, Answered
  <2> QED
    BY <2>1, <2>2
<1>3. CASE Check(t)
  <2>1. turns[t].stage = "check" /\ sessions[turns[t].sid].log \in Log
        /\ UNCHANGED <<db, view, sessions, tab, req, crashes>>
    BY <1>0, <1>3 DEF Check, SessionSet
  <2>2. CASE Ends(t, "refused")
    BY <1>0, <2>1, <2>2, EndsTurn DEF Outcomes
  <2>3. CASE Becomes(t, [turns[t] EXCEPT !.stage = "count", !.entries = sessions[turns[t].sid].log])
    BY <1>0, <2>1, <2>3, CountsTurn
  <2> QED
    BY <1>3, <2>2, <2>3 DEF Check
<1>4. CASE CountRows(t)
  <2>1. turns[t].stage = "count" /\ turns[t].lesson \in Ids
        /\ UNCHANGED <<db, view, sessions, tab, req, crashes>>
    BY <1>0, <1>4 DEF CountRows, LinkedTurn, Persisting
  <2>2. Len(view.rows[turns[t].lesson]) \in Nat
    BY <1>0, <2>1, LenProperties DEF TypeOK, IsStore
  <2> QED
    BY <1>0, <1>4, <2>1, <2>2, InsertsTurn DEF CountRows
<1>5. CASE InsertTurn(t)
  BY <1>0, <1>5, GoesTurn DEF InsertTurn, Stages
<1>6. CASE UpdateLog(t)
  <2>1. turns[t].stage = "update" /\ turns[t].lesson \in Ids /\ turns[t].entries \in Log
        /\ UNCHANGED <<sessions, tab, req, crashes>>
    BY <1>0, <1>6 DEF UpdateLog, LinkedTurn, Persisting, Writing, TurnSet
  <2>2. view'.rows = view.rows
    BY <1>0, <1>6, <2>1, LessonUpdated DEF UpdateLog
  <2> QED
    BY <1>0, <1>6, <2>1, <2>2, GoesTurn DEF UpdateLog, Stages
<1>7. CASE CommitTurn(t)
  BY <1>0, <1>7, EndsTurn DEF CommitTurn, Commits, Outcomes
<1>8. CASE PersistRaises(t)
  BY <1>0, <1>8, EndsTurn DEF PersistRaises, Raises, Outcomes
<1> QED
  BY <1>1, <1>2, <1>3, <1>4, <1>5, <1>6, <1>7, <1>8 DEF Thread

\* What every step of a request leaves alone.
LEMMA RequestStep ==
  ASSUME TypeInv, NEW c \in Clients, Request(c)
  PROVE  /\ UNCHANGED crashes /\ (view'.rows = view.rows \/ view' = db)
         /\ UNCHANGED turns \/ StartTurn(c)
         /\ \/ UNCHANGED turns /\ \E session \in SessionSet : Register(c, session)
            \/ /\ UNCHANGED tab /\ DOMAIN sessions' = DOMAIN sessions
               /\ \A n \in DOMAIN sessions : sessions'[n].lesson = sessions[n].lesson
<1>0. TypeOK /\ Linked
  BY DEF TypeInv
<1>1. CASE CreateSession(c)
  <2>1. Session(NoLesson, NoSubject, <<>>) \in SessionSet
    BY EmptySeq, LessonStoreAssumption DEF Session, SessionSet, NoLesson, Log
  <2> QED
    BY <1>1, <2>1 DEF CreateSession
<1>2. CASE CreateForLesson(c)
  <2>1. req[c].lesson \in DOMAIN view.lessons
    BY <1>0, <1>2, NoReqType DEF CreateForLesson, Linked, LinkedReq, TypeOK, Requests
  <2> QED
    BY <1>0, <1>2, <2>1, RebuiltType DEF CreateForLesson
<1>3. CASE RegisterResumed(c)
  <2>1. req[c].session[1] \in SessionSet
    BY <1>3, Resumes, SavedType DEF RegisterResumed
  <2> QED
    BY <1>3, <2>1 DEF RegisterResumed
<1>4. ASSUME NEW s \in Subjects, NEW op \in {"create", "start"}, StartLesson(c, op, s)
      PROVE  view'.rows = view.rows
  <2>1. PICK id \in Ids : id = started'
    BY <1>4, NextLessonId DEF TypeInv, TypeOK
  <2>2. Lesson(s, <<>>, TRUE) \in LessonSet
    BY EmptySeq DEF Lesson, LessonSet, Log
  <2>3. InsertLesson(id, Lesson(s, <<>>, TRUE))
    BY <1>4, <2>1 DEF StartLesson, InsertLesson
  <2> QED
    BY <1>0, <2>2, <2>3, LessonInserted
<1>5. CASE \E s \in Subjects, op \in {"create", "start"} : StartLesson(c, op, s)
  BY <1>4, <1>5 DEF StartLesson
<1>6. CASE SaveSession(c)
  <2>1. req[c].lesson \in Ids /\ req[c].session[1].log \in Log
    BY <1>6, Resumes, SavedType DEF SaveSession
  <2>2. view'.rows = view.rows
    BY <1>0, <1>6, <2>1, LessonUpdated DEF SaveSession
  <2> QED
    BY <1>6, <2>2 DEF SaveSession
<1>7. CASE CommitRequest(c) \/ RequestRaises(c)
  BY <1>7 DEF CommitRequest, Commits, RequestRaises, Raises
<1>8. CASE \E id \in DOMAIN view.lessons : Resume(c, id)
  BY <1>8 DEF Resume
<1>9. CASE \E s \in Subjects : SetSubject(c, s)
  BY <1>9, SubjectSet
<1>10. CASE StartTurn(c)
  BY <1>10 DEF StartTurn
<1> QED
  BY <1>1, <1>2, <1>3, <1>5, <1>6, <1>7, <1>8, <1>9, <1>10 DEF Request

\* The steps that keep the sessions keep what their turns and windows know of them.
LEMMA OwnStays ==
  ASSUME TypeInv, RowInv, OwnInv, crashes' = crashes,
         \A t \in DOMAIN turns :
            /\ t \in DOMAIN turns'
            /\ turns'[t].opened = turns[t].opened /\ turns'[t].stale = turns[t].stale
            /\ turns'[t].stage # "over" => turns[t].stage # "over" /\ turns'[t].sid = turns[t].sid,
         \A t \in DOMAIN turns' \ DOMAIN turns :
            turns'[t].stale \/ sessions'[turns'[t].sid].lesson = turns'[t].opened,
         \A n \in DOMAIN sessions :
            n \in DOMAIN sessions' /\ sessions'[n].lesson = sessions[n].lesson,
         \A c \in Clients :
            \/ tab'[c] = tab[c]
            \/ tab'[c].sid \in DOMAIN sessions' /\ sessions'[tab'[c].sid].lesson = tab'[c].lesson,
         \A id \in Ids : \A t \in TurnsOf(view'.rows[id]) :
            \/ t \in TurnsOf(view.rows[id])
            \/ t \in DOMAIN turns /\ (turns[t].opened = id \/ turns[t].stale)
  PROVE  OwnInv'
<1>1. ASSUME NEW id \in Ids, NEW t \in TurnsOf(view'.rows[id])
      PROVE  t \in DOMAIN turns' /\ (turns'[t].opened = id \/ turns'[t].stale)
  <2>1. t \in DOMAIN turns /\ (turns[t].opened = id \/ turns[t].stale)
    BY DEF OwnInv, OwnLesson
  <2> QED
    BY <2>1
<1>2. ASSUME NEW c \in Clients, tab'[c].since = crashes'
      PROVE  \/ tab'[c].sid = 0
             \/ tab'[c].sid \in DOMAIN sessions' /\ sessions'[tab'[c].sid].lesson = tab'[c].lesson
  BY <1>2 DEF OwnInv
<1>3. ASSUME NEW t \in DOMAIN turns', turns'[t].stage # "over", ~turns'[t].stale
      PROVE  sessions'[turns'[t].sid].lesson = turns'[t].opened
  <2>1. CASE t \in DOMAIN turns
    <3>1. turns[t].sid \in DOMAIN sessions
      BY <1>3, <2>1, TurnType
    <3> QED
      BY <1>3, <2>1, <3>1 DEF OwnInv
  <2> QED
    BY <1>3, <2>1
<1> QED
  BY <1>1, <1>2, <1>3 DEF OwnInv, OwnLesson

\* A turn is stored in the lesson of its session.
LEMMA ThreadKeepsOwn ==
  ASSUME TypeInv, RowInv, OwnInv, NEW t \in DOMAIN turns, Thread(t)
  PROVE  OwnInv'
<1>1. /\ Changes(t) /\ UNCHANGED <<tab, req, crashes>>
      /\ turns'[t].stage # "over" => turns[t].stage # "over" /\ turns'[t].sid = turns[t].sid
      /\ DOMAIN sessions' = DOMAIN sessions
      /\ \A n \in DOMAIN sessions : sessions'[n].lesson = sessions[n].lesson
      /\ InsertTurn(t) \/ view'.rows = view.rows \/ view' = db
  BY ThreadStep
<1>2. ASSUME NEW id \in Ids, NEW u \in TurnsOf(view'.rows[id])
      PROVE  \/ u \in TurnsOf(view.rows[id])
             \/ u \in DOMAIN turns /\ (turns[u].opened = id \/ turns[u].stale)
  <2>1. CASE view'.rows = view.rows \/ view' = db
    BY <2>1 DEF RowInv
  <2>2. CASE InsertTurn(t)
    <3> DEFINE row == [turn |-> t, seq |-> turns[t].seq]
    <3>1. /\ turns[t].lesson \in Ids /\ row \in Row /\ turns[t].stage # "over"
          /\ turns[t].lesson = sessions[turns[t].sid].lesson /\ InsertRow(turns[t].lesson, row)
          /\ view.rows[turns[t].lesson] \in Seq(Row) /\ row.turn = t
      BY <2>2, TurnType DEF InsertTurn, LinkedTurn, Persisting, Writing, Row, TurnSet,
                            TypeInv, TypeOK, IsStore
    <3> HIDE DEF row
    <3>2. /\ view'.rows[turns[t].lesson] = Append(view.rows[turns[t].lesson], row)
          /\ \A i \in Ids : i # turns[t].lesson => view'.rows[i] = view.rows[i]
      BY <3>1, RowInserted DEF TypeInv
    <3>3. TurnsOf(view'.rows[turns[t].lesson]) = TurnsOf(view.rows[turns[t].lesson]) \cup {t}
      BY <3>1, <3>2, TurnsOfAppend
    <3>4. turns[t].opened = turns[t].lesson \/ turns[t].stale
      BY <3>1 DEF OwnInv
    <3> QED
      BY <3>2, <3>3, <3>4
  <2> QED
    BY <1>1, <2>1, <2>2
<1> QED
  BY <1>1, <1>2, OwnStays DEF Changes

\* A window shows the lesson of the session it has got.
LEMMA RequestKeepsOwn ==
  ASSUME TypeInv, RowInv, OwnInv, NEW c \in Clients, Request(c)
  PROVE  OwnInv'
<1>1. /\ UNCHANGED crashes /\ (view'.rows = view.rows \/ view' = db)
      /\ UNCHANGED turns \/ StartTurn(c)
      /\ \/ UNCHANGED turns /\ \E session \in SessionSet : Register(c, session)
         \/ /\ UNCHANGED tab /\ DOMAIN sessions' = DOMAIN sessions
            /\ \A n \in DOMAIN sessions : sessions'[n].lesson = sessions[n].lesson
  BY RequestStep
<1>2. \A id \in Ids : TurnsOf(view'.rows[id]) \subseteq TurnsOf(view.rows[id])
  BY <1>1 DEF RowInv
<1>3. ASSUME UNCHANGED turns, NEW session \in SessionSet, Register(c, session)
      PROVE  OwnInv'
  <2>1. /\ DOMAIN sessions' = DOMAIN sessions \cup {Len(sessions) + 1}
        /\ sessions'[Len(sessions) + 1] = session
        /\ Len(sessions) + 1 \notin DOMAIN sessions
        /\ \A n \in DOMAIN sessions : sessions'[n] = sessions[n]
        /\ tab'[c].sid = Len(sessions) + 1 /\ tab'[c].lesson = session.lesson
        /\ \A d \in Clients : d # c => tab'[d] = tab[d]
    BY <1>3, Registered DEF TypeInv
  <2>2. \A d \in Clients :
          \/ tab'[d] = tab[d]
          \/ tab'[d].sid \in DOMAIN sessions' /\ sessions'[tab'[d].sid].lesson = tab'[d].lesson
    BY <2>1
  <2>3. \A n \in DOMAIN sessions :
          n \in DOMAIN sessions' /\ sessions'[n].lesson = sessions[n].lesson
    BY <2>1
  <2> QED
    BY <1>1, <1>2, <1>3, <2>2, <2>3, OwnStays
<1>4. CASE StartTurn(c)
  <2>1. /\ DOMAIN turns' = DOMAIN turns \cup {Len(turns) + 1}
        /\ \A t \in DOMAIN turns : turns'[t] = turns[t]
        /\ turns'[Len(turns) + 1] = Turn(c)
    BY <1>4, TurnStarts
  <2>2. UNCHANGED <<view, sessions, tab>>
    BY <1>4 DEF StartTurn
  <2>3. Turn(c).stale \/ sessions[Turn(c).sid].lesson = Turn(c).opened
    <3>1. Turn(c).stale = (tab[c].since # crashes) /\ Turn(c).sid = tab[c].sid
          /\ Turn(c).opened = tab[c].lesson
      BY DEF Turn
    <3>2. tab[c].sid # 0
      BY <1>4, LenProperties DEF StartTurn, TypeInv, TypeOK
    <3> QED
      BY <3>1, <3>2 DEF OwnInv
  <2> QED
    BY <1>1, <1>2, <2>1, <2>2, <2>3, OwnStays
<1>5. ASSUME UNCHANGED <<turns, tab>>, DOMAIN sessions' = DOMAIN sessions,
             \A n \in DOMAIN sessions : sessions'[n].lesson = sessions[n].lesson
      PROVE  OwnInv'
  BY <1>1, <1>2, <1>5, OwnStays
<1> QED
  BY <1>1, <1>3, <1>4, <1>5

\* The turns of windows and their lessons, always.
LEMMA OwnAlways == Spec => []OwnInv
<1>1. Init => OwnInv
  <2> SUFFICES ASSUME Init PROVE OwnInv
    OBVIOUS
  <2>1. PICK s \in Subjects :
          db = [lessons |-> [id \in {1} |-> Lesson(s, <<>>, FALSE)], rows |-> [id \in Ids |-> <<>>]]
    BY DEF Init
  <2>2. view = db /\ \A id \in Ids : db.rows[id] = <<>>
    BY <2>1 DEF Init
  <2>3. TurnsOf(<<>>) = {} /\ DOMAIN <<>> = {}
    BY EmptySeq DEF TurnsOf, Range
  <2>4. turns = <<>> /\ \A c \in Clients : tab[c].sid = 0
    BY DEF Init, NoTab
  <2> QED
    BY <2>2, <2>3, <2>4 DEF OwnInv, OwnLesson
<1>2. TypeInv /\ RowInv /\ OwnInv /\ [Next]_vars => OwnInv'
  <2> SUFFICES ASSUME TypeInv, RowInv, OwnInv, [Next]_vars PROVE OwnInv'
    OBVIOUS
  <2>1. CASE UNCHANGED vars
    BY <2>1 DEF vars, OwnInv, OwnLesson
  <2>2. CASE Open \/ Opened \/ OpenFails
    BY <2>2, OwnStays DEF Open, Opened, OpenFails
  <2>3. CASE Crash
    <3>1. /\ DOMAIN turns' = DOMAIN turns
          /\ \A t \in DOMAIN turns : turns'[t].stage = "over"
               /\ turns'[t].opened = turns[t].opened /\ turns'[t].stale = turns[t].stale
      BY <2>3, CrashedTurns
    <3>2. \A id \in Ids : TurnsOf(view'.rows[id]) \subseteq TurnsOf(view.rows[id])
      BY <2>3 DEF Crash, RowInv
    <3>3. \A c \in Clients : tab'[c].since # crashes'
      <4>1. crashes' = crashes + 1 /\ tab' = tab /\ crashes \in Nat
        BY <2>3, LessonStoreAssumption DEF Crash, TypeInv, TypeOK
      <4>2. \A c \in Clients : tab[c].since \in 0..crashes
        BY DEF TypeInv, TypeOK
      <4> QED
        BY <4>1, <4>2
    <3> QED
      BY <3>1, <3>2, <3>3 DEF OwnInv, OwnLesson
  <2> QED
    BY <2>1, <2>2, <2>3, RequestKeepsOwn, ThreadKeepsOwn DEF Next
<1> QED
  BY <1>1, <1>2, TypeAlways, RowsAlways, PTL DEF Spec

\* A turn is stored in the lesson its window opened, unless the window is older than the
\* process: while the process runs, a session id is given out once, and keeps its lesson.
THEOREM OwnLessonHolds == Spec => []OwnLesson
  BY OwnAlways, PTL DEF OwnInv

-----------------------------------------------------------------------------
(* Rows and logs *)

\* A turn that is persisted and whose row the disk lacks has the lock.
LEMMA RowOfHolder ==
  ASSUME CommitInv, NEW id \in Ids, NEW t \in TurnsOf(view.rows[id]) \ TurnsOf(db.rows[id]),
         turns[t].stage \notin Writing
  PROVE  turns[t].outcome = "raised"
  BY DEF CommitInv, RowComesWithLog, Writing

\* A step that leaves the store, or that only those who have no row in it see change.
LEMMA RowsStayLogged ==
  ASSUME TypeInv, OwnInv, CommitInv, view'.rows = view.rows, db'.rows = db.rows,
         \A t \in DOMAIN turns :
            \/ turns'[t].outcome = turns[t].outcome /\ turns[t].stage \notin Writing
            \/ turns[t].outcome = "none" /\ turns[t].stage \notin Writing
            \/ /\ turns'[t].outcome = turns[t].outcome /\ turns'[t].lesson = turns[t].lesson
               /\ turns'[t].stage = turns[t].stage /\ view'.lessons = view.lessons
  PROVE  \A id \in Ids : \A t \in TurnsOf(view'.rows[id]) \ TurnsOf(db'.rows[id]) :
            RowComesWithLog(id, t)'
<1> SUFFICES ASSUME NEW id \in Ids, NEW t \in TurnsOf(view.rows[id]) \ TurnsOf(db.rows[id])
             PROVE  RowComesWithLog(id, t)'
  OBVIOUS
<1>1. t \in DOMAIN turns
  BY DEF OwnInv
<1>2. RowComesWithLog(id, t)
  BY DEF CommitInv
<1>3. CASE turns[t].stage \notin Writing
  BY <1>1, <1>3, RowOfHolder DEF RowComesWithLog, Writing
<1>4. CASE /\ turns'[t].outcome = turns[t].outcome /\ turns'[t].lesson = turns[t].lesson
           /\ turns'[t].stage = turns[t].stage /\ view'.lessons = view.lessons
  BY <1>2, <1>4 DEF RowComesWithLog
<1> QED
  BY <1>1, <1>3, <1>4

\* What the log of a session has stays there, and what the entries of a turn have.
LEMMA EntriesStay ==
  ASSUME TypeInv, CommitInv,
         \A n \in DOMAIN sessions : Range(sessions[n].log) \subseteq Range(sessions'[n].log),
         \A t \in DOMAIN turns' :
            \/ turns'[t].stage \in {"answering", "commit", "over"}
            \/ turns'[t].stage = "check" /\ t \in Range(sessions'[turns'[t].sid].log)
            \/ turns'[t].stage = "count" /\ t \in Range(turns'[t].entries)
            \/ /\ t \in DOMAIN turns /\ turns'[t].entries = turns[t].entries
               /\ turns'[t].sid = turns[t].sid
               /\ \/ turns'[t].stage = turns[t].stage
                  \/ turns'[t].stage = "insert" /\ turns[t].stage = "count"
                  \/ turns'[t].stage = "update" /\ turns[t].stage = "insert"
  PROVE  \A t \in DOMAIN turns' :
            /\ turns'[t].stage = "check" => t \in Range(sessions'[turns'[t].sid].log)
            /\ turns'[t].stage \in {"count", "insert", "update"} => t \in Range(turns'[t].entries)
<1> SUFFICES ASSUME NEW t \in DOMAIN turns'
             PROVE  /\ turns'[t].stage = "check" => t \in Range(sessions'[turns'[t].sid].log)
                    /\ turns'[t].stage \in {"count", "insert", "update"} =>
                         t \in Range(turns'[t].entries)
  OBVIOUS
<1>1. CASE t \in DOMAIN turns /\ turns'[t].stage = turns[t].stage
           /\ turns'[t].entries = turns[t].entries /\ turns'[t].sid = turns[t].sid
  <2>1. turns[t].stage = "check" => turns[t].sid \in DOMAIN sessions
    BY <1>1, TurnType
  <2> QED
    BY <1>1, <2>1 DEF CommitInv
<1>2. CASE t \in DOMAIN turns /\ turns'[t].entries = turns[t].entries
           /\ \/ turns'[t].stage = "insert" /\ turns[t].stage = "count"
              \/ turns'[t].stage = "update" /\ turns[t].stage = "insert"
  BY <1>2 DEF CommitInv
<1> QED
  BY <1>1, <1>2

\* A turn's row and the log that has the turn go through the thread together.
LEMMA ThreadKeepsCommit ==
  ASSUME TypeInv, RowInv, OwnInv, CommitInv, NEW t \in DOMAIN turns, Thread(t)
  PROVE  CommitInv'
<1>0. /\ turns[t] \in TurnSet /\ LinkedTurn(t) /\ t \in 1..MaxTurns
      /\ lock = {t} <=> turns[t].stage \in Writing
      /\ turns[t].stage # "over" =>
           turns[t].sid \in DOMAIN sessions /\ sessions[turns[t].sid] \in SessionSet
      /\ TypeOK
      /\ turns[t].stage # "over" => turns[t].outcome = "none"
  BY TurnType DEF TypeInv, LinkedTurn
<1> DEFINE RowsLogged == \A id \in Ids : \A u \in TurnsOf(view.rows[id]) \ TurnsOf(db.rows[id]) :
                            RowComesWithLog(id, u)
           InEntries == \A u \in DOMAIN turns :
                           /\ turns[u].stage = "check" => u \in Range(sessions[turns[u].sid].log)
                           /\ turns[u].stage \in {"count", "insert", "update"} =>
                                u \in Range(turns[u].entries)
<1>a. ASSUME RowsLogged', InEntries' PROVE CommitInv'
  BY <1>a DEF CommitInv
<1>1. CASE Leave(t)
  <2>1. /\ Changes(t) /\ turns'[t].sid = turns[t].sid /\ turns'[t].stage = turns[t].stage
        /\ turns'[t].lesson = turns[t].lesson /\ turns'[t].entries = turns[t].entries
        /\ turns'[t].outcome = turns[t].outcome /\ UNCHANGED <<db, view, sessions>>
    BY <1>0, <1>1, LeavesTurn DEF Leave
  <2>2. RowsLogged'
    BY <2>1, RowsStayLogged DEF Changes
  <2>3. InEntries'
    BY <2>1, EntriesStay DEF Changes
  <2> QED
    BY <1>a, <2>2, <2>3
<1>2. CASE Answer(t)
  <2>1. turns[t].stage = "answering" /\ turns[t].outcome = "none"
    BY <1>0, <1>2 DEF Answer
  <2>2. /\ turns[t].sid \in DOMAIN sessions /\ UNCHANGED <<db, view>>
        /\ \A n \in DOMAIN sessions : n # turns[t].sid => sessions'[n].log = sessions[n].log
        /\ Range(sessions'[turns[t].sid].log) = Range(sessions[turns[t].sid].log) \cup {t}
    BY <1>2, Answered
  <2>3. /\ Changes(t)
        /\ \/ turns'[t].stage = "over"
           \/ turns'[t].stage = "check" /\ turns'[t].sid = turns[t].sid
    <3>1. CASE sessions[turns[t].sid].lesson = NoLesson
      BY <1>0, <1>2, <3>1, EndsTurn DEF Answer, Outcomes
    <3>2. CASE sessions[turns[t].sid].lesson # NoLesson
      <4>1. Becomes(t, [turns[t] EXCEPT !.stage = "check", !.lesson = sessions[turns[t].sid].lesson])
            /\ sessions[turns[t].sid].lesson \in 0..MaxLessons
        BY <1>0, <1>2, <3>2 DEF Answer, SessionSet
      <4> QED
        BY <1>0, <4>1, ChecksTurn
    <3> QED
      BY <3>1, <3>2
  <2>4. RowsLogged'
    BY <2>1, <2>2, <2>3, RowsStayLogged DEF Changes, Writing
  <2>5. \A n \in DOMAIN sessions : Range(sessions[n].log) \subseteq Range(sessions'[n].log)
    BY <2>2
  <2>6. InEntries'
    BY <2>2, <2>3, <2>5, EntriesStay DEF Changes
  <2> QED
    BY <1>a, <2>4, <2>6
<1>3. CASE Check(t)
  <2>1. turns[t].stage = "check" /\ turns[t].outcome = "none"
        /\ sessions[turns[t].sid].log \in Log /\ UNCHANGED <<db, view, sessions>>
    BY <1>0, <1>3 DEF Check, SessionSet
  <2>2. /\ Changes(t)
        /\ \/ turns'[t].stage = "over"
           \/ turns'[t].stage = "count" /\ turns'[t].entries = sessions[turns[t].sid].log
    <3>1. CASE Ends(t, "refused")
      BY <1>0, <3>1, EndsTurn DEF Outcomes
    <3>2. CASE Becomes(t, [turns[t] EXCEPT !.stage = "count", !.entries = sessions[turns[t].sid].log])
      BY <1>0, <2>1, <3>2, CountsTurn
    <3> QED
      BY <1>3, <3>1, <3>2 DEF Check
  <2>3. RowsLogged'
    BY <2>1, <2>2, RowsStayLogged DEF Changes, Writing
  <2>4. t \in Range(sessions[turns[t].sid].log)
    BY <2>1 DEF CommitInv
  <2>5. InEntries'
    BY <2>1, <2>2, <2>4, EntriesStay DEF Changes
  <2> QED
    BY <1>a, <2>3, <2>5
<1>4. CASE CountRows(t)
  <2>1. turns[t].stage = "count" /\ turns[t].outcome = "none" /\ turns[t].lesson \in Ids
        /\ UNCHANGED <<db, view, sessions>>
    BY <1>0, <1>4 DEF CountRows, LinkedTurn, Persisting
  <2>2. Len(view.rows[turns[t].lesson]) \in Nat
    BY <1>0, <2>1, LenProperties DEF TypeOK, IsStore
  <2>3. /\ Changes(t) /\ turns'[t].stage = "insert" /\ turns'[t].entries = turns[t].entries
        /\ turns'[t].sid = turns[t].sid
    BY <1>0, <1>4, <2>2, InsertsTurn DEF CountRows
  <2>4. RowsLogged'
    BY <2>1, <2>3, RowsStayLogged DEF Changes, Writing
  <2>5. InEntries'
    BY <2>1, <2>3, EntriesStay DEF Changes
  <2> QED
    BY <1>a, <2>4, <2>5
<1>5. CASE InsertTurn(t)
  <2> DEFINE id == turns[t].lesson
             row == [turn |-> t, seq |-> turns[t].seq]
  <2>1. /\ turns[t].stage = "insert" /\ id \in Ids /\ row \in Row
        /\ view.rows[id] \in Seq(Row) /\ UNCHANGED <<db, sessions>> /\ row.turn = t
    BY <1>0, <1>5 DEF InsertTurn, InsertRow, LinkedTurn, Persisting, Writing, Row, TurnSet,
                      TypeOK, IsStore
  <2>2. /\ view'.rows[id] = Append(view.rows[id], row)
        /\ \A i \in Ids : i # id => view'.rows[i] = view.rows[i]
    <3>1. InsertRow(id, row)
      BY <1>5 DEF InsertTurn
    <3> HIDE DEF row, id
    <3> QED
      BY <1>0, <2>1, <3>1, RowInserted
  <2>3. /\ Changes(t) /\ turns'[t].stage = "update" /\ turns'[t].lesson = id
        /\ turns'[t].entries = turns[t].entries /\ turns'[t].sid = turns[t].sid
    BY <1>0, <1>5, GoesTurn DEF InsertTurn, Stages
  <2>4. TurnsOf(view'.rows[id]) = TurnsOf(view.rows[id]) \cup {t}
    <3> HIDE DEF row, id
    <3> QED
      BY <2>1, <2>2, TurnsOfAppend
  <2>5. \A u \in DOMAIN turns : u # t => turns[u].stage \notin Writing
    BY <1>0, <2>1, Holder DEF Writing
  <2>6. ASSUME NEW i \in Ids, NEW u \in TurnsOf(view'.rows[i]) \ TurnsOf(db'.rows[i])
        PROVE  RowComesWithLog(i, u)'
    <3>1. CASE u \in TurnsOf(view.rows[i]) \ TurnsOf(db.rows[i])
      <4>1. u \in DOMAIN turns /\ RowComesWithLog(i, u)
        BY <3>1 DEF OwnInv, CommitInv
      <4>2. CASE u # t
        <5>1. turns[u].outcome = "raised" /\ turns'[u] = turns[u]
          BY <2>3, <2>5, <3>1, <4>1, <4>2, RowOfHolder DEF Changes
        <5> QED
          BY <5>1 DEF RowComesWithLog
      <4>3. CASE u = t
        BY <1>0, <2>1, <4>1, <4>3 DEF RowComesWithLog
      <4> QED
        BY <4>2, <4>3
    <3>2. CASE u \notin TurnsOf(view.rows[i]) \ TurnsOf(db.rows[i])
      <4>1. i = id /\ u = t
        <5> HIDE DEF id, row
        <5>1. CASE i # id
          BY <2>1, <2>2, <3>2, <5>1
        <5>2. CASE i = id
          BY <2>1, <2>4, <3>2, <5>2
        <5> QED
          BY <5>1, <5>2
      <4> QED
        BY <2>3, <4>1 DEF RowComesWithLog
    <3> QED
      BY <3>1, <3>2
  <2>7. InEntries'
    BY <2>1, <2>3, EntriesStay DEF Changes
  <2> QED
    BY <1>a, <2>6, <2>7
<1>6. CASE UpdateLog(t)
  <2> DEFINE id == turns[t].lesson
  <2>1. turns[t].stage = "update" /\ id \in Ids /\ turns[t].entries \in Log
        /\ UNCHANGED <<db, sessions>>
    BY <1>0, <1>6 DEF UpdateLog, UpdateLesson, LinkedTurn, Persisting, Writing, TurnSet
  <2>2. /\ view'.rows = view.rows /\ DOMAIN view'.lessons = DOMAIN view.lessons
        /\ id \in DOMAIN view.lessons => view'.lessons[id].log = turns[t].entries
    BY <1>0, <1>6, <2>1, LessonUpdated DEF UpdateLog
  <2>3. /\ Changes(t) /\ turns'[t].stage = "commit" /\ turns'[t].lesson = id
    BY <1>0, <1>6, GoesTurn DEF UpdateLog, Stages
  <2>4. \A u \in DOMAIN turns : u # t => turns[u].stage \notin Writing
    BY <1>0, <2>1, Holder DEF Writing
  <2>5. ASSUME NEW i \in Ids, NEW u \in TurnsOf(view'.rows[i]) \ TurnsOf(db'.rows[i])
        PROVE  RowComesWithLog(i, u)'
    <3>1. u \in TurnsOf(view.rows[i]) \ TurnsOf(db.rows[i])
      BY <2>1, <2>2
    <3>2. u \in DOMAIN turns /\ RowComesWithLog(i, u)
      BY <3>1 DEF OwnInv, CommitInv
    <3>3. CASE u # t
      <4>1. turns[u].outcome = "raised" /\ turns'[u] = turns[u]
        BY <2>3, <2>4, <3>1, <3>2, <3>3, RowOfHolder DEF Changes
      <4> QED
        BY <4>1 DEF RowComesWithLog
    <3>4. CASE u = t
      <4>1. i = id /\ t \in Range(turns[t].entries)
        BY <1>0, <2>1, <3>2, <3>4 DEF RowComesWithLog, CommitInv
      <4> QED
        BY <2>2, <2>3, <3>4, <4>1 DEF RowComesWithLog
    <3> QED
      BY <3>3, <3>4
  <2>6. InEntries'
    BY <2>1, <2>3, EntriesStay DEF Changes
  <2> QED
    BY <1>a, <2>5, <2>6
<1>7. CASE CommitTurn(t)
  <2>1. db' = view /\ view' = view /\ UNCHANGED sessions
    BY <1>7 DEF CommitTurn, Commits
  <2>2. Changes(t) /\ turns'[t].stage = "over"
    BY <1>0, <1>7, EndsTurn DEF CommitTurn, Outcomes
  <2>3. RowsLogged'
    BY <2>1
  <2>4. InEntries'
    BY <2>1, <2>2, EntriesStay DEF Changes
  <2> QED
    BY <1>a, <2>3, <2>4
<1>8. CASE PersistRaises(t)
  <2>1. lock = {t} /\ view' \in {view, db} /\ db' = db /\ UNCHANGED sessions
    BY <1>8 DEF PersistRaises, Raises
  <2>2. Changes(t) /\ turns'[t].stage = "over" /\ turns'[t].outcome = "raised"
    BY <1>0, <1>8, EndsTurn DEF PersistRaises, Outcomes
  <2>3. \A u \in DOMAIN turns : u # t => turns[u].stage \notin Writing
    BY <1>0, <2>1, Holder
  <2>4. ASSUME NEW i \in Ids, NEW u \in TurnsOf(view'.rows[i]) \ TurnsOf(db'.rows[i])
        PROVE  RowComesWithLog(i, u)'
    <3>1. u \in TurnsOf(view.rows[i]) \ TurnsOf(db.rows[i])
      BY <2>1
    <3>2. u \in DOMAIN turns
      BY <3>1 DEF OwnInv
    <3>3. turns'[u].outcome = "raised"
      BY <2>2, <2>3, <3>1, <3>2, RowOfHolder DEF Changes
    <3> QED
      BY <3>3 DEF RowComesWithLog
  <2>5. InEntries'
    BY <2>1, <2>2, EntriesStay DEF Changes
  <2> QED
    BY <1>a, <2>4, <2>5
<1> QED
  BY <1>1, <1>2, <1>3, <1>4, <1>5, <1>6, <1>7, <1>8 DEF Thread

\* No request writes a row, or takes a turn out of a log.
LEMMA RequestKeepsCommit ==
  ASSUME TypeInv, RowInv, OwnInv, CommitInv, NEW c \in Clients, Request(c)
  PROVE  CommitInv'
<1>0. TypeOK /\ Linked
  BY DEF TypeInv
<1> DEFINE RowsLogged == \A id \in Ids : \A u \in TurnsOf(view.rows[id]) \ TurnsOf(db.rows[id]) :
                            RowComesWithLog(id, u)
           InEntries == \A u \in DOMAIN turns :
                           /\ turns[u].stage = "check" => u \in Range(sessions[turns[u].sid].log)
                           /\ turns[u].stage \in {"count", "insert", "update"} =>
                                u \in Range(turns[u].entries)
<1>a. ASSUME RowsLogged', InEntries' PROVE CommitInv'
  BY <1>a DEF CommitInv
<1>b. ASSUME UNCHANGED turns,
             \A n \in DOMAIN sessions : Range(sessions[n].log) \subseteq Range(sessions'[n].log)
      PROVE  InEntries'
  BY <1>b, EntriesStay
<1>c. ASSUME UNCHANGED <<db, view, turns>> PROVE RowsLogged'
  BY <1>c DEF CommitInv, RowComesWithLog
<1>1. ASSUME NEW session \in SessionSet, Register(c, session), UNCHANGED <<db, view, turns>>
      PROVE  CommitInv'
  <2>1. \A n \in DOMAIN sessions : sessions'[n] = sessions[n]
    BY <1>0, <1>1, Registered
  <2> QED
    BY <1>a, <1>b, <1>c, <1>1, <2>1
<1>2. CASE CreateSession(c)
  <2>1. Session(NoLesson, NoSubject, <<>>) \in SessionSet
    BY EmptySeq, LessonStoreAssumption DEF Session, SessionSet, NoLesson, Log
  <2> QED
    BY <1>1, <1>2, <2>1 DEF CreateSession
<1>3. CASE CreateForLesson(c)
  <2>1. req[c].lesson \in DOMAIN view.lessons
    BY <1>0, <1>3, NoReqType DEF CreateForLesson, Linked, LinkedReq, TypeOK, Requests
  <2> QED
    BY <1>0, <1>1, <1>3, <2>1, RebuiltType DEF CreateForLesson
<1>4. CASE RegisterResumed(c)
  <2>1. req[c].session[1] \in SessionSet
    BY <1>4, Resumes, SavedType DEF RegisterResumed
  <2> QED
    BY <1>1, <1>4, <2>1 DEF RegisterResumed
<1>5. ASSUME lock = {}, view'.rows = view.rows, db' = db, UNCHANGED <<turns, sessions>>
      PROVE  CommitInv'
  <2>1. RowsLogged'
    BY <1>0, <1>5, Holder, RowsStayLogged
  <2> QED
    BY <1>a, <1>b, <1>5, <2>1
<1>6. ASSUME NEW s \in Subjects, NEW op \in {"create", "start"}, StartLesson(c, op, s)
      PROVE  CommitInv'
  <2>1. PICK id \in Ids : id = started'
    BY <1>6, NextLessonId DEF TypeInv, TypeOK
  <2>2. Lesson(s, <<>>, TRUE) \in LessonSet
    BY EmptySeq DEF Lesson, LessonSet, Log
  <2>3. InsertLesson(id, Lesson(s, <<>>, TRUE)) /\ db' = db
    BY <1>6, <2>1 DEF StartLesson, InsertLesson
  <2>4. view'.rows = view.rows
    BY <1>0, <2>2, <2>3, LessonInserted
  <2> QED
    BY <1>5, <1>6, <2>3, <2>4 DEF StartLesson, Locks
<1>7. CASE SaveSession(c)
  <2>1. req[c].lesson \in Ids /\ req[c].session[1].log \in Log
    BY <1>7, Resumes, SavedType DEF SaveSession
  <2>2. view'.rows = view.rows /\ db' = db
    BY <1>0, <1>7, <2>1, LessonUpdated DEF SaveSession, UpdateLesson
  <2> QED
    BY <1>5, <1>7, <2>2 DEF SaveSession, Locks
<1>8. CASE CommitRequest(c)
  <2>1. db' = view /\ view' = view /\ UNCHANGED <<turns, sessions>>
    BY <1>8 DEF CommitRequest, Commits
  <2>2. RowsLogged'
    BY <2>1
  <2> QED
    BY <1>a, <1>b, <2>1, <2>2
<1>9. CASE RequestRaises(c)
  <2>1. lock = {c} /\ view' \in {view, db} /\ db' = db /\ UNCHANGED <<turns, sessions>>
    BY <1>9 DEF RequestRaises, Raises
  <2>2. ASSUME NEW i \in Ids, NEW u \in TurnsOf(view'.rows[i]) \ TurnsOf(db'.rows[i])
        PROVE  RowComesWithLog(i, u)'
    <3>1. u \in TurnsOf(view.rows[i]) \ TurnsOf(db.rows[i])
      BY <2>1
    <3>2. u \in DOMAIN turns
      BY <3>1 DEF OwnInv
    <3>3. turns[u].stage \notin Writing
      BY <1>0, <2>1, <3>2, Holder
    <3>4. turns[u].outcome = "raised"
      BY <3>1, <3>3, RowOfHolder
    <3> QED
      BY <2>1, <3>4 DEF RowComesWithLog
  <2>3. InEntries'
    BY <1>b, <2>1
  <2> QED
    BY <1>a, <2>2, <2>3
<1>10. CASE \E id \in DOMAIN view.lessons : Resume(c, id)
  BY <1>a, <1>b, <1>c, <1>10 DEF Resume
<1>11. CASE \E s \in Subjects : SetSubject(c, s)
  <2>1. UNCHANGED <<db, view, turns>> /\ \A n \in DOMAIN sessions : sessions'[n].log = sessions[n].log
    BY <1>11, SubjectSet
  <2> QED
    BY <1>a, <1>b, <1>c, <2>1
<1>12. CASE StartTurn(c)
  <2>1. /\ DOMAIN turns' = DOMAIN turns \cup {Len(turns) + 1}
        /\ \A t \in DOMAIN turns : turns'[t] = turns[t]
        /\ turns'[Len(turns) + 1] = Turn(c) /\ UNCHANGED <<db, view, sessions>>
    BY <1>12, TurnStarts DEF StartTurn
  <2>2. Turn(c).stage = "answering"
    BY DEF Turn
  <2>3. RowsLogged'
    BY <2>1, RowsStayLogged
  <2>4. InEntries'
    BY <2>1, <2>2, EntriesStay
  <2> QED
    BY <1>a, <2>3, <2>4
<1> QED
  BY <1>2, <1>3, <1>4, <1>6, <1>7, <1>8, <1>9, <1>10, <1>11, <1>12 DEF Request

\* Every step keeps it.
LEMMA NextKeepsCommit ==
  TypeInv /\ RowInv /\ OwnInv /\ CommitInv /\ [Next]_vars => CommitInv'
<1> SUFFICES ASSUME TypeInv, RowInv, OwnInv, CommitInv, [Next]_vars PROVE CommitInv'
  OBVIOUS
<1>1. CASE UNCHANGED vars
  BY <1>1 DEF vars, CommitInv, RowComesWithLog
<1>2. CASE Open \/ Opened \/ OpenFails
  <2>1. UNCHANGED <<db, view, sessions, turns>>
    BY <1>2 DEF Open, Opened, OpenFails
  <2> QED
    BY <2>1 DEF CommitInv, RowComesWithLog
<1>3. CASE Crash
  <2>1. view' = db /\ db' = db /\ DOMAIN turns' = DOMAIN turns
        /\ \A t \in DOMAIN turns : turns'[t].stage = "over"
    BY <1>3, CrashedTurns DEF Crash
  <2> QED
    BY <2>1 DEF CommitInv
<1> QED
  BY <1>1, <1>2, <1>3, RequestKeepsCommit, ThreadKeepsCommit DEF Next

\* The rows that the disk lacks and their logs, always.
LEMMA CommitAlways == Spec => []CommitInv
<1>1. Init => CommitInv
  <2>1. Init => view = db /\ turns = <<>> /\ DOMAIN <<>> = {}
    BY EmptySeq DEF Init
  <2> QED
    BY <2>1 DEF CommitInv
<1> QED
  BY <1>1, NextKeepsCommit, TypeAlways, RowsAlways, OwnAlways, PTL DEF Spec

\* What reaches the disk is a transaction that its holder has finished.
LEMMA DiskChanges ==
  ASSUME TypeInv, Next, db' # db
  PROVE  db' = view /\ \A t \in DOMAIN turns : turns[t].stage # "update"
<1>0. TypeOK
  BY DEF TypeInv
<1>1. \/ \E c \in Clients : CommitRequest(c)
      \/ \E t \in DOMAIN turns : CommitTurn(t)
  <2>1. ASSUME NEW c \in Clients, Request(c) PROVE CommitRequest(c)
    BY <2>1 DEF Request, CreateSession, StartLesson, InsertLesson, CreateForLesson, Resume,
                SaveSession, UpdateLesson, RegisterResumed, RequestRaises, Raises, SetSubject,
                StartTurn
  <2>2. ASSUME NEW t \in DOMAIN turns, Thread(t) PROVE CommitTurn(t)
    BY <2>2 DEF Thread, Leave, Answer, Check, CountRows, InsertTurn, InsertRow, UpdateLog,
                UpdateLesson, PersistRaises, Raises
  <2>3. ~(Open \/ Opened \/ OpenFails \/ Crash)
    BY DEF Open, Opened, OpenFails, Crash
  <2> QED
    BY <2>1, <2>2, <2>3 DEF Next
<1>2. ASSUME NEW c \in Clients, CommitRequest(c)
      PROVE  db' = view /\ \A t \in DOMAIN turns : turns[t].stage # "update"
  BY <1>0, <1>2, Holder DEF CommitRequest, Commits, Writing
<1>3. ASSUME NEW t \in DOMAIN turns, CommitTurn(t)
      PROVE  db' = view /\ \A u \in DOMAIN turns : turns[u].stage # "update"
  BY <1>0, <1>3, Holder DEF CommitTurn, Commits, Writing
<1> QED
  BY <1>1, <1>2, <1>3

\* A turn's row reaches the disk together with a log that has the turn: its thread inserts
\* the row and updates the lesson before it commits, and nobody else does in between, unless
\* a statement of the thread raised or the lesson itself has been rolled back.
THEOREM TurnComesWithLogHolds == Spec => TurnComesWithLog
<1> DEFINE A == \A id \in Ids : \A t \in NewRows(id) :
                  \/ turns[t].outcome = "raised" \/ id \notin DOMAIN db'.lessons
                  \/ t \in Range(db'.lessons[id].log)
<1>1. TypeInv /\ OwnInv /\ CommitInv /\ [Next]_vars => [A]_vars
  <2> SUFFICES ASSUME TypeInv, OwnInv, CommitInv, Next,
                      NEW id \in Ids, NEW t \in NewRows(id)
               PROVE  \/ turns[t].outcome = "raised" \/ id \notin DOMAIN db'.lessons
                      \/ t \in Range(db'.lessons[id].log)
    OBVIOUS
  <2>1. db' # db
    BY DEF NewRows
  <2>2. db' = view /\ \A u \in DOMAIN turns : turns[u].stage # "update"
    BY <2>1, DiskChanges
  <2>3. t \in TurnsOf(view.rows[id]) \ TurnsOf(db.rows[id])
    BY <2>2 DEF NewRows
  <2>4. RowComesWithLog(id, t) /\ t \in DOMAIN turns
    BY <2>3 DEF OwnInv, CommitInv
  <2> QED
    BY <2>2, <2>4 DEF RowComesWithLog
<1>2. Spec => [][A]_vars
  BY <1>1, TypeAlways, OwnAlways, CommitAlways, PTL DEF Spec
<1> QED
  BY <1>2, PTL DEF TurnComesWithLog

-----------------------------------------------------------------------------
(* Logs *)

\* Requests and sessions of lessons that have been started, always.
LEMMA KnownAlways == Spec => []Known
<1>1. Init => Known
  <2> SUFFICES ASSUME Init PROVE Known
    OBVIOUS
  <2>1. sessions = <<>> /\ started = 1 /\ DOMAIN <<>> = {} /\ \A c \in Clients : req[c] = NoReq
    BY EmptySeq DEF Init
  <2> QED
    BY <2>1, NoReqType DEF Known, NoLesson
<1>2. TypeInv /\ Known /\ [Next]_vars => Known'
  <2> SUFFICES ASSUME TypeInv, Known, [Next]_vars PROVE Known'
    OBVIOUS
  <2>0. TypeOK /\ Linked /\ started \in Nat /\ 0 \in 0..started
        /\ \A id \in DOMAIN view.lessons : id \in 0..started
    <3>1. TypeOK /\ Linked
      BY DEF TypeInv
    <3>2. started \in Nat /\ 1..started \subseteq 0..started /\ 0 \in 0..started
      BY <3>1, LessonStoreAssumption DEF TypeOK, Ids
    <3>3. DOMAIN view.lessons \subseteq 1..started
      BY <3>1 DEF TypeOK, IsStore
    <3> QED
      BY <3>1, <3>2, <3>3
  <2>1. CASE UNCHANGED vars
    BY <2>1 DEF vars, Known
  <2>2. CASE Open \/ Opened \/ OpenFails
    BY <2>2 DEF Open, Opened, OpenFails, Known
  <2>3. CASE Crash
    <3>1. sessions' = <<>> /\ started' = started /\ DOMAIN <<>> = {}
          /\ \A c \in Clients : req'[c] = NoReq
      BY <2>3, EmptySeq DEF Crash
    <3> QED
      BY <2>0, <3>1, NoReqType DEF Known, NoLesson
  <2>4. ASSUME NEW t \in DOMAIN turns, Thread(t) PROVE Known'
    <3>1. /\ UNCHANGED req /\ DOMAIN sessions' = DOMAIN sessions
          /\ \A n \in DOMAIN sessions : sessions'[n].lesson = sessions[n].lesson
      BY <2>4, ThreadStep
    <3>2. UNCHANGED started
      BY <2>4 DEF Thread, Leave, Answer, Check, CountRows, InsertTurn, UpdateLog, CommitTurn,
                  PersistRaises
    <3> QED
      BY <3>1, <3>2 DEF Known
  <2>5. ASSUME NEW c \in Clients, Request(c) PROVE Known'
    <3>1. \/ UNCHANGED started
          \/ \E s \in Subjects, op \in {"create", "start"} : StartLesson(c, op, s)
      BY <2>5 DEF Request, CreateSession, CreateForLesson, Resume, SaveSession, CommitRequest,
                  RegisterResumed, RequestRaises, SetSubject, StartTurn
    <3>2. started' \in Nat /\ started <= started'
      <4>1. started' = started \/ started' = started + 1
        BY <3>1 DEF StartLesson
      <4> QED
        BY <2>0, <4>1
    <3>3. 0..started \subseteq 0..started'
      BY <2>0, <3>2
    <3>4. req'[c].lesson \in 0..started' /\ \A d \in Clients : d # c => req'[d] = req[d]
      <4>1. ASSUME NEW r \in Requests, SetReq(c, r), r.lesson \in 0..started' PROVE <3>4
        BY <2>0, <4>1, ReqSet
      <4>2. ASSUME SetReq(c, NoReq) PROVE <3>4
        BY <2>0, <3>3, <4>1, <4>2, NoReqType DEF NoLesson
      <4>3. req[c] \in Requests /\ req[c].lesson \in 0..started'
        BY <2>0, <3>3 DEF Known, TypeOK
      <4>4. ASSUME NEW stage \in {"new_session", "register", "commit"},
                   SetReq(c, [req[c] EXCEPT !.stage = stage])
            PROVE  <3>4
        <5> DEFINE r == [req[c] EXCEPT !.stage = stage]
        <5>1. r \in Requests /\ r.lesson = req[c].lesson
          BY <4>3 DEF Requests
        <5> HIDE DEF r
        <5>2. SetReq(c, r)
          BY <4>4 DEF r
        <5> QED
          BY <4>1, <4>3, <5>1, <5>2
      <4>5. ASSUME UNCHANGED req PROVE <3>4
        BY <4>3, <4>5
      <4>6. CASE \E s \in Subjects, op \in {"create", "start"} : StartLesson(c, op, s)
        <5>1. PICK s \in Subjects, op \in {"create", "start"} : StartLesson(c, op, s)
          BY <4>6
        <5>2. started' \in 0..MaxLessons
          BY <5>1, NextLessonId DEF TypeInv, TypeOK
        <5> DEFINE r == [NoReq EXCEPT !.op = op, !.stage = "commit", !.lesson = started']
        <5>3. r \in Requests /\ r.lesson = started'
          BY <5>2, NoReqType DEF Requests, NoReq
        <5>4. SetReq(c, r)
          BY <5>1 DEF StartLesson
        <5> HIDE DEF r
        <5>5. started' \in 0..started'
          BY <3>2
        <5> QED
          BY <4>1, <5>3, <5>4, <5>5
      <4>7. CASE CommitRequest(c)
        <5>1. CASE req[c].op = "start"
          BY <4>2, <4>7, <5>1 DEF CommitRequest
        <5>2. CASE req[c].op # "start"
          <6>1. SetReq(c, [req[c] EXCEPT !.stage = IF req[c].op = "create" THEN "new_session"
                                                   ELSE "register"])
            BY <4>7, <5>2 DEF CommitRequest
          <6> QED
            BY <4>4, <6>1
        <5> QED
          BY <5>1, <5>2
      <4>8. CASE \E id \in DOMAIN view.lessons : Resume(c, id)
        <5>1. PICK id \in DOMAIN view.lessons : Resume(c, id)
          BY <4>8
        <5> DEFINE r == [op |-> "resume",
                         stage |-> IF view.lessons[id].whole THEN "register" ELSE "save",
                         lesson |-> id, session |-> <<Rebuilt(id)>>]
        <5>2. <<Rebuilt(id)>> \in Seq(SessionSet) /\ id \in 0..MaxLessons
          BY <2>0, RebuiltType, LessonStoreAssumption DEF Ids
        <5>3. r \in Requests /\ r.lesson = id
          BY <5>2 DEF Requests
        <5>4. SetReq(c, r)
          BY <5>1 DEF Resume
        <5>5. id \in 0..started'
          BY <2>0, <3>3
        <5> HIDE DEF r
        <5> QED
          BY <4>1, <5>3, <5>4, <5>5
      <4>9. CASE SaveSession(c)
        BY <4>4, <4>9 DEF SaveSession
      <4> QED
        BY <2>5, <4>2, <4>5, <4>6, <4>7, <4>8, <4>9
           DEF Request, CreateSession, CreateForLesson, RegisterResumed, RequestRaises,
               SetSubject, StartTurn
    <3>5. ASSUME NEW session \in SessionSet, Register(c, session), session.lesson \in 0..started
          PROVE  \A n \in DOMAIN sessions' : sessions'[n].lesson \in 0..started'
      <4>1. /\ DOMAIN sessions' = DOMAIN sessions \cup {Len(sessions) + 1}
            /\ sessions'[Len(sessions) + 1] = session
            /\ \A n \in DOMAIN sessions : sessions'[n] = sessions[n]
        BY <2>0, <3>5, Registered
      <4> QED
        BY <3>3, <3>5, <4>1 DEF Known
    <3>6. \A n \in DOMAIN sessions' : sessions'[n].lesson \in 0..started'
      <4>1. ASSUME UNCHANGED sessions PROVE <3>6
        BY <3>3, <4>1 DEF Known
      <4>2. CASE CreateSession(c)
        <5>1. Session(NoLesson, NoSubject, <<>>) \in SessionSet
              /\ Session(NoLesson, NoSubject, <<>>).lesson \in 0..started
          BY <2>0, EmptySeq, LessonStoreAssumption DEF Session, SessionSet, NoLesson, Log
        <5> QED
          BY <3>5, <4>2, <5>1 DEF CreateSession
      <4>3. CASE CreateForLesson(c)
        <5>1. req[c].lesson \in DOMAIN view.lessons
          BY <2>0, <4>3, NoReqType DEF CreateForLesson, Linked, LinkedReq, TypeOK, Requests
        <5> QED
          BY <2>0, <3>5, <4>3, <5>1, RebuiltType DEF CreateForLesson
      <4>4. CASE RegisterResumed(c)
        <5>1. req[c].session[1] \in SessionSet /\ req[c].session[1].lesson = req[c].lesson
          BY <4>4, Resumes, SavedType DEF RegisterResumed
        <5> QED
          BY <3>5, <4>4, <5>1 DEF RegisterResumed, Known
      <4>5. CASE \E s \in Subjects : SetSubject(c, s)
        BY <3>3, <4>5, SubjectSet DEF Known
      <4> QED
        BY <2>5, <4>1, <4>2, <4>3, <4>4, <4>5
           DEF Request, StartLesson, CommitRequest, Resume, SaveSession, RequestRaises, StartTurn
    <3> QED
      BY <3>3, <3>4, <3>6 DEF Known
  <2> QED
    BY <2>1, <2>2, <2>3, <2>4, <2>5 DEF Next
<1> QED
  BY <1>1, <1>2, TypeAlways, PTL DEF Spec

\* A window that has left stays away.
LEMMA LeftStays ==
  ASSUME TypeInv, NEW t \in DOMAIN turns, Thread(t), turns[t].left
  PROVE  turns'[t].left
<1>0. /\ turns[t] \in TurnSet /\ LinkedTurn(t)
      /\ turns[t].stage # "over" => sessions[turns[t].sid] \in SessionSet
      /\ TypeOK
  BY TurnType DEF TypeInv
<1>1. CASE Leave(t)
  BY <1>1 DEF Leave
<1>2. CASE Answer(t)
  <2>1. CASE sessions[turns[t].sid].lesson = NoLesson
    BY <1>0, <1>2, <2>1, EndsTurn DEF Answer, Outcomes
  <2>2. CASE sessions[turns[t].sid].lesson # NoLesson
    <3>1. Becomes(t, [turns[t] EXCEPT !.stage = "check", !.lesson = sessions[turns[t].sid].lesson])
          /\ sessions[turns[t].sid].lesson \in 0..MaxLessons
      BY <1>0, <1>2, <2>2 DEF Answer, SessionSet
    <3> QED
      BY <1>0, <3>1, ChecksTurn
  <2> QED
    BY <2>1, <2>2
<1>3. CASE Check(t)
  <2>1. sessions[turns[t].sid].log \in Log
    BY <1>0, <1>3 DEF Check, SessionSet
  <2>2. CASE Ends(t, "refused")
    BY <1>0, <2>2, EndsTurn DEF Outcomes
  <2>3. CASE Becomes(t, [turns[t] EXCEPT !.stage = "count", !.entries = sessions[turns[t].sid].log])
    BY <1>0, <2>1, <2>3, CountsTurn
  <2> QED
    BY <1>3, <2>2, <2>3 DEF Check
<1>4. CASE CountRows(t)
  <2>1. turns[t].lesson \in Ids
    BY <1>0, <1>4 DEF CountRows, LinkedTurn, Persisting
  <2>2. Len(view.rows[turns[t].lesson]) \in Nat
    BY <1>0, <2>1, LenProperties DEF TypeOK, IsStore
  <2> QED
    BY <1>0, <1>4, <2>2, InsertsTurn DEF CountRows
<1>5. CASE InsertTurn(t) \/ UpdateLog(t)
  BY <1>0, <1>5, GoesTurn DEF InsertTurn, UpdateLog, Stages
<1>6. CASE CommitTurn(t) \/ PersistRaises(t)
  BY <1>0, <1>6, EndsTurn DEF CommitTurn, PersistRaises, Outcomes
<1> QED
  BY <1>1, <1>2, <1>3, <1>4, <1>5, <1>6 DEF Thread

\* One turn of a session has its window's stream open, always.
LEMMA StreamsAlways == Spec => []StreamInv
<1>1. Init => StreamInv
  <2>1. Init => turns = <<>> /\ DOMAIN <<>> = {}
    BY EmptySeq DEF Init
  <2> QED
    BY <2>1 DEF StreamInv
<1>2. TypeInv /\ StreamInv /\ [Next]_vars => StreamInv'
  <2> SUFFICES ASSUME TypeInv, StreamInv, [Next]_vars PROVE StreamInv'
    OBVIOUS
  <2>1. ASSUME UNCHANGED turns PROVE StreamInv'
    BY <2>1 DEF StreamInv, Streams
  <2>2. CASE Open \/ Opened \/ OpenFails \/ UNCHANGED vars
    BY <2>1, <2>2 DEF Open, Opened, OpenFails, vars
  <2>3. CASE Crash
    <3>1. DOMAIN turns' = DOMAIN turns /\ \A t \in DOMAIN turns : turns'[t].stage = "over"
      BY <2>3, CrashedTurns
    <3> QED
      BY <3>1 DEF StreamInv, Streams
  <2>4. ASSUME NEW t \in DOMAIN turns, Thread(t) PROVE StreamInv'
    <3>1. Changes(t)
          /\ (turns'[t].stage # "over" => turns[t].stage # "over" /\ turns'[t].sid = turns[t].sid)
      BY <2>4, ThreadStep
    <3>2. turns[t].left => turns'[t].left
      BY <2>4, LeftStays
    <3> QED
      BY <3>1, <3>2 DEF StreamInv, Streams, Changes
  <2>5. ASSUME NEW c \in Clients, Request(c) PROVE StreamInv'
    <3>1. CASE UNCHANGED turns
      BY <2>1, <3>1
    <3>2. CASE StartTurn(c)
      <4> DEFINE new == Len(turns) + 1
      <4>1. /\ DOMAIN turns' = DOMAIN turns \cup {new}
            /\ \A t \in DOMAIN turns : turns'[t] = turns[t]
            /\ turns'[new] = Turn(c)
        BY <3>2, TurnStarts
      <4>2. Turn(c).sid = tab[c].sid /\ tab[c].sid \notin Active
        BY <3>2 DEF StartTurn, Turn
      <4> HIDE DEF new
      <4>3. ASSUME NEW t \in DOMAIN turns, Streams(t)' PROVE turns'[t].sid # turns'[new].sid
        BY <4>1, <4>2, <4>3 DEF Active, Streams
      <4> QED
        BY <4>1, <4>3 DEF StreamInv, Streams
    <3> QED
      BY <2>5, <3>1, <3>2, RequestStep
  <2> QED
    BY <2>2, <2>3, <2>4, <2>5 DEF Next
<1> QED
  BY <1>1, <1>2, TypeAlways, PTL DEF Spec

\* What is stored of a lesson.
LEMMA Stored ==
  ASSUME NEW id
  PROVE  /\ view.lessons[id].log \in StoredLogs(id)
         /\ id \in DOMAIN db.lessons => db.lessons[id].log \in StoredLogs(id)
         /\ \A c \in Clients : req[c].op = "resume" /\ req[c].lesson = id =>
               req[c].session[1].log \in StoredLogs(id)
  BY DEF StoredLogs

\* Nothing is stored that was not: when that holds of the lesson, of the disk and of every
\* resume.
LEMMA StoredOnly ==
  ASSUME NEW id, NEW S, view'.lessons[id].log \in S,
         id \in DOMAIN db'.lessons => db'.lessons[id].log \in S,
         \A c \in Clients : req'[c].op = "resume" /\ req'[c].lesson = id =>
            req'[c].session[1].log \in S
  PROVE  StoredLogs(id)' \subseteq S
  BY DEF StoredLogs

\* A step that stores no log that was not stored before, and whose turns store what their
\* sessions have.
LEMMA LogsStay ==
  ASSUME TypeInv, LogInv,
         \A id \in DOMAIN view'.lessons :
            id \in DOMAIN view.lessons /\ StoredLogs(id)' \subseteq StoredLogs(id),
         \A c \in Clients : req'[c].op = "create" =>
            req[c].op = "create" /\ req'[c].lesson = req[c].lesson,
         DOMAIN sessions' = DOMAIN sessions,
         \A n \in DOMAIN sessions :
            /\ sessions'[n].lesson = sessions[n].lesson
            /\ Range(sessions[n].log) \subseteq Range(sessions'[n].log),
         \A t \in DOMAIN turns :
            turns[t].left /\ turns[t].lesson \in Ids =>
               t \in DOMAIN turns' /\ turns'[t].left /\ turns'[t].lesson = turns[t].lesson,
         \A t \in DOMAIN turns' : turns'[t].stage \in Storing =>
            /\ t \in DOMAIN turns /\ turns[t].stage # "over"
            /\ turns'[t].lesson = turns[t].lesson /\ turns'[t].sid = turns[t].sid
            /\ turns[t].lesson = sessions[turns[t].sid].lesson
            /\ \/ turns[t].stage \in Storing /\ turns'[t].entries = turns[t].entries
               \/ turns'[t].entries = sessions[turns[t].sid].log
  PROVE  LogInv'
<1>1. ASSUME NEW id \in DOMAIN view'.lessons PROVE Agree(id)'
  <2>1. view'.lessons[id].log \in StoredLogs(id)' /\ Agree(id)
    BY Stored DEF LogInv, StoredLogs
  <2>2. Unused(id)' => Unused(id)
    BY DEF Unused
  <2> QED
    BY <2>1, <2>2 DEF Agree
<1>2. ASSUME NEW id \in DOMAIN view'.lessons PROVE Covered(id)'
  <2>1. Covered(id) /\ id \in Ids /\ StoredLogs(id)' \subseteq StoredLogs(id)
    BY RebuiltType DEF LogInv, TypeInv
  <2>2. Stayed(id)' => Stayed(id)
    BY <2>1 DEF Stayed
  <2>3. ASSUME NEW n \in DOMAIN sessions', Sole(n, id)'
        PROVE  /\ \A stored \in StoredLogs(id)' : Range(stored) \subseteq Range(sessions'[n].log)
               /\ Stayed(id)' =>
                    \A t \in DOMAIN turns' : turns'[t].lesson = id /\ turns'[t].stage \in Storing =>
                      \A stored \in StoredLogs(id)' : Range(stored) \subseteq Range(turns'[t].entries)
    <3>1. n \in DOMAIN sessions /\ Sole(n, id)
      BY <2>3 DEF Sole
    <3>2. \A stored \in StoredLogs(id) : Range(stored) \subseteq Range(sessions[n].log)
      BY <2>1, <3>1 DEF Covered
    <3>3. ASSUME Stayed(id), NEW t \in DOMAIN turns', turns'[t].lesson = id,
                 turns'[t].stage \in Storing, NEW stored \in StoredLogs(id)
          PROVE  Range(stored) \subseteq Range(turns'[t].entries)
      <4>1. CASE turns[t].stage \in Storing /\ turns'[t].entries = turns[t].entries
        BY <2>1, <3>1, <3>3, <4>1 DEF Covered
      <4>2. CASE turns'[t].entries = sessions[turns[t].sid].log
        <5>1. t \in DOMAIN turns /\ turns[t].stage # "over" /\ sessions[turns[t].sid].lesson = id
          BY <3>3
        <5>2. turns[t].sid \in DOMAIN sessions
          BY <5>1, TurnType
        <5>3. turns[t].sid = n
          BY <3>1, <5>1, <5>2 DEF Sole
        <5> QED
          BY <3>2, <4>2, <5>3
      <4> QED
        BY <3>3, <4>1, <4>2
    <3> QED
      BY <2>1, <2>2, <3>1, <3>2, <3>3
  <2> QED
    BY <2>3 DEF Covered
<1>3. ASSUME NEW t \in DOMAIN turns', turns'[t].stage \in Storing
      PROVE  Range(turns'[t].entries) \subseteq Range(sessions'[turns'[t].sid].log)
  <2>1. t \in DOMAIN turns /\ turns'[t].sid = turns[t].sid /\ turns[t].sid \in DOMAIN sessions
    BY <1>3, TurnType
  <2>2. Range(turns'[t].entries) \subseteq Range(sessions[turns[t].sid].log)
    BY <1>3, <2>1 DEF LogInv
  <2> QED
    BY <2>1, <2>2
<1> QED
  BY <1>1, <1>2, <1>3 DEF LogInv

\* The turns stay, and so do the logs they are about to store.
LEMMA LogsOfRequest ==
  ASSUME TypeInv, LogInv, UNCHANGED <<turns, sessions>>,
         \A id \in DOMAIN view'.lessons :
            id \in DOMAIN view.lessons /\ StoredLogs(id)' \subseteq StoredLogs(id),
         \A c \in Clients : req'[c].op = "create" =>
            req[c].op = "create" /\ req'[c].lesson = req[c].lesson
  PROVE  LogInv'
<1>1. ASSUME NEW t \in DOMAIN turns, turns[t].stage \in Storing
      PROVE  turns[t].stage # "over" /\ turns[t].lesson = sessions[turns[t].sid].lesson
  BY <1>1, TurnType DEF Storing, LinkedTurn, Persisting, Writing
<1> QED
  BY <1>1, LogsStay

\* A statement raises: what is stored then was stored.
LEMMA StoredRaised ==
  ASSUME TypeInv, Raises, NEW id \in DOMAIN view'.lessons,
         \A c \in Clients : req'[c] = req[c] \/ req'[c].op # "resume"
  PROVE  id \in DOMAIN view.lessons /\ StoredLogs(id)' \subseteq StoredLogs(id)
<1>1. view' \in {view, db} /\ db' = db /\ DOMAIN db.lessons \subseteq DOMAIN view.lessons
  BY DEF Raises, TypeInv, Linked
<1>2. view'.lessons[id].log \in StoredLogs(id) /\ id \in DOMAIN view.lessons
  BY <1>1, Stored
<1>3. id \in DOMAIN db'.lessons => db'.lessons[id].log \in StoredLogs(id)
  BY <1>1, Stored
<1>4. ASSUME NEW c \in Clients, req'[c].op = "resume", req'[c].lesson = id
      PROVE  req'[c].session[1].log \in StoredLogs(id)
  BY <1>4, Stored
<1> QED
  BY <1>2, <1>3, <1>4, StoredOnly

\* A window gets another session of a lesson whose requests agree with what is stored.
LEMMA LogsRegistered ==
  ASSUME TypeInv, LogInv, NEW c \in Clients, NEW session \in SessionSet,
         Register(c, session), UNCHANGED <<db, view, turns>>,
         \A d \in Clients : req'[d] = req[d] \/ req'[d] = NoReq,
         session.lesson \in DOMAIN view.lessons /\ Unused(session.lesson) =>
            session.log = view.lessons[session.lesson].log
  PROVE  LogInv'
<1> DEFINE new == Len(sessions) + 1
<1>1. /\ DOMAIN sessions' = DOMAIN sessions \cup {new} /\ new \notin DOMAIN sessions
      /\ sessions'[new] = session
      /\ \A n \in DOMAIN sessions : sessions'[n] = sessions[n]
  BY Registered DEF TypeInv
<1> HIDE DEF new
<1>2. ASSUME NEW id \in DOMAIN view.lessons
      PROVE  StoredLogs(id)' \subseteq StoredLogs(id) /\ view.lessons[id].log \in StoredLogs(id)
  <2>1. \A d \in Clients : req'[d].op = "resume" => req'[d] = req[d]
    BY NoReqType
  <2> QED
    BY <2>1, Stored, StoredOnly
<1>3. ASSUME NEW id \in DOMAIN view.lessons PROVE Agree(id)'
  <2>1. Unused(id)' => Unused(id)
    BY <1>1 DEF Unused
  <2>2. \A d \in Clients : req'[d].op = "create" => req'[d] = req[d]
    BY NoReqType
  <2>3. Agree(id)
    BY DEF LogInv
  <2> QED
    BY <1>2, <2>1, <2>2, <2>3 DEF Agree
<1>4. ASSUME NEW id \in DOMAIN view.lessons, NEW n \in DOMAIN sessions', Sole(n, id)'
      PROVE  /\ \A stored \in StoredLogs(id) : Range(stored) \subseteq Range(sessions'[n].log)
             /\ Stayed(id) =>
                  \A t \in DOMAIN turns : turns[t].lesson = id /\ turns[t].stage \in Storing =>
                     \A stored \in StoredLogs(id) : Range(stored) \subseteq Range(turns[t].entries)
  <2>1. CASE n = new
    <3>1. Unused(id) /\ session.lesson = id
      BY <1>1, <1>4, <2>1 DEF Unused, Sole
    <3>2. \A stored \in StoredLogs(id) : stored = session.log
      BY <3>1 DEF LogInv, Agree
    <3>3. ASSUME NEW t \in DOMAIN turns, turns[t].lesson = id, turns[t].stage \in Storing
          PROVE  FALSE
      <4>1. turns[t].sid \in DOMAIN sessions /\ sessions[turns[t].sid].lesson = id
        BY <3>3, TurnType DEF LinkedTurn, Storing, Persisting, Writing
      <4> QED
        BY <3>1, <4>1 DEF Unused
    <3> QED
      BY <1>1, <2>1, <3>2, <3>3
  <2>2. CASE n # new
    <3>1. n \in DOMAIN sessions /\ Sole(n, id)
      BY <1>1, <1>4, <2>2 DEF Sole
    <3> QED
      BY <1>1, <3>1 DEF LogInv, Covered
  <2> QED
    BY <2>1, <2>2
<1>5. ASSUME NEW id \in DOMAIN view.lessons PROVE Covered(id)'
  <2>1. Stayed(id)' => Stayed(id)
    BY DEF Stayed
  <2>2. ASSUME NEW n \in DOMAIN sessions', Sole(n, id)'
        PROVE  /\ \A stored \in StoredLogs(id)' : Range(stored) \subseteq Range(sessions'[n].log)
               /\ Stayed(id)' =>
                    \A t \in DOMAIN turns' : turns'[t].lesson = id /\ turns'[t].stage \in Storing =>
                      \A stored \in StoredLogs(id)' : Range(stored) \subseteq Range(turns'[t].entries)
    BY <1>2, <1>4, <2>1, <2>2
  <2> QED
    BY <2>2 DEF Covered
<1>6. ASSUME NEW t \in DOMAIN turns, turns[t].stage \in Storing
      PROVE  Range(turns[t].entries) \subseteq Range(sessions'[turns[t].sid].log)
  <2>1. turns[t].sid \in DOMAIN sessions
    BY <1>6, TurnType DEF Storing
  <2> QED
    BY <1>1, <1>6, <2>1 DEF LogInv
<1> QED
  BY <1>3, <1>5, <1>6 DEF LogInv

\* A new lesson, of which nothing is known yet.
LEMMA LogsStarted ==
  ASSUME TypeInv, Known, LogInv, NEW c \in Clients,
         NEW s \in Subjects, NEW op \in {"create", "start"}, StartLesson(c, op, s)
  PROVE  LogInv'
<1>0. TypeOK /\ Linked /\ started \in Nat
  <2>1. TypeOK /\ Linked
    BY DEF TypeInv
  <2>2. started \in Nat
    BY <2>1, LessonStoreAssumption DEF TypeOK, Ids
  <2> QED
    BY <2>1, <2>2
<1>1. PICK new \in Ids : new = started' /\ new = started + 1
  BY NextLessonId DEF TypeInv, TypeOK
<1>2. Lesson(s, <<>>, TRUE) \in LessonSet /\ Lesson(s, <<>>, TRUE).log = <<>>
  BY EmptySeq DEF Lesson, LessonSet, Log
<1>3. InsertLesson(new, Lesson(s, <<>>, TRUE)) /\ UNCHANGED <<db, sessions, turns>>
  BY <1>1 DEF StartLesson, InsertLesson
<1>4. /\ DOMAIN view'.lessons = DOMAIN view.lessons \cup {new}
      /\ view'.lessons[new].log = <<>>
      /\ \A i \in DOMAIN view.lessons : i # new => view'.lessons[i] = view.lessons[i]
  BY <1>0, <1>2, <1>3, LessonInserted
<1>5. new \notin 0..started /\ new \notin 1..started
  BY <1>0, <1>1
<1>6. new \notin DOMAIN view.lessons /\ new \notin DOMAIN db.lessons
  BY <1>0, <1>5 DEF TypeOK, IsStore
<1> DEFINE r == [NoReq EXCEPT !.op = op, !.stage = "commit", !.lesson = started']
<1>7. r \in Requests /\ r.op = op /\ r.lesson = new
  <2>1. started' \in 0..MaxLessons
    BY <1>1, LessonStoreAssumption DEF Ids
  <2> QED
    BY <1>1, <2>1, NoReqType DEF Requests, NoReq
<1>8. SetReq(c, r)
  BY DEF StartLesson
<1> HIDE DEF r
<1>9. /\ req'[c].op = op /\ req'[c].lesson = new
      /\ \A d \in Clients : d # c => req'[d] = req[d]
  BY <1>0, <1>7, <1>8, ReqSet
<1>10. \A d \in Clients : req'[d].op = "resume" => req'[d] = req[d]
  BY <1>9
<1>11. ASSUME NEW id \in DOMAIN view.lessons
       PROVE  StoredLogs(id)' \subseteq StoredLogs(id) /\ view'.lessons[id] = view.lessons[id]
  <2>1. view'.lessons[id] = view.lessons[id]
    BY <1>4, <1>6
  <2> QED
    BY <1>3, <1>10, <2>1, Stored, StoredOnly
<1>12. ASSUME NEW id \in DOMAIN view.lessons PROVE Agree(id)' /\ Covered(id)'
  <2>1. Agree(id) /\ Covered(id) /\ id # new
    BY <1>6 DEF LogInv
  <2>2. Agree(id)'
    BY <1>3, <1>9, <1>11, <2>1 DEF Agree, Unused
  <2>3. Covered(id)'
    BY <1>3, <1>11, <2>1 DEF Covered, Sole, Stayed
  <2> QED
    BY <2>2, <2>3
<1>13. Agree(new)' /\ Covered(new)'
  <2>1. \A n \in DOMAIN sessions : sessions[n].lesson # new
    BY <1>5 DEF Known
  <2>2. \A d \in Clients : req'[d].op = "resume" => req'[d].lesson # new
    BY <1>5, <1>10 DEF Known
  <2>3. StoredLogs(new)' \subseteq {<<>>}
    BY <1>3, <1>4, <1>6, <2>2, StoredOnly
  <2>4. Agree(new)'
    BY <1>4, <2>3 DEF Agree
  <2>5. Covered(new)'
    BY <1>3, <2>1 DEF Covered, Sole
  <2> QED
    BY <2>4, <2>5
<1>14. \A t \in DOMAIN turns' : turns'[t].stage \in Storing =>
          Range(turns'[t].entries) \subseteq Range(sessions'[turns'[t].sid].log)
  BY <1>3 DEF LogInv
<1> QED
  BY <1>4, <1>12, <1>13, <1>14 DEF LogInv

\* A request stores what was stored, and registers it.
LEMMA RequestKeepsLogs ==
  ASSUME TypeInv, Known, LogInv, NEW c \in Clients, Request(c)
  PROVE  LogInv'
<1>0. TypeOK /\ Linked /\ DOMAIN db.lessons \subseteq DOMAIN view.lessons
      /\ \A id \in DOMAIN view.lessons : id \in Ids
  BY RebuiltType DEF TypeInv, Linked
<1>1. CASE CreateSession(c)
  <2>1. Session(NoLesson, NoSubject, <<>>) \in SessionSet
        /\ Session(NoLesson, NoSubject, <<>>).lesson = NoLesson
    BY EmptySeq, LessonStoreAssumption DEF Session, SessionSet, NoLesson, Log
  <2>2. NoLesson \notin DOMAIN view.lessons
    BY <1>0, LessonStoreAssumption DEF NoLesson, Ids
  <2> QED
    BY <1>1, <2>1, <2>2, LogsRegistered DEF CreateSession
<1>2. CASE CreateForLesson(c)
  <2>1. req[c].op = "create" /\ req[c].lesson \in DOMAIN view.lessons
    BY <1>0, <1>2, NoReqType DEF CreateForLesson, Linked, LinkedReq, TypeOK, Requests
  <2>2. PICK session \in SessionSet :
          /\ session = Session(req[c].lesson, view.lessons[req[c].lesson].subject, <<>>)
          /\ session.lesson = req[c].lesson /\ session.log = <<>>
    BY <1>0, <2>1, RebuiltType
  <2>3. Unused(req[c].lesson) => view.lessons[req[c].lesson].log = <<>>
    BY <2>1 DEF LogInv, Agree
  <2>4. \A d \in Clients : req'[d] = req[d] \/ req'[d] = NoReq
    BY <1>0, <1>2, NoReqType, ReqSet DEF CreateForLesson
  <2>5. Register(c, session) /\ UNCHANGED <<db, view, turns>>
    BY <1>2, <2>2 DEF CreateForLesson
  <2> QED
    BY <2>2, <2>3, <2>4, <2>5, LogsRegistered
<1>3. CASE RegisterResumed(c)
  <2>1. req[c].op = "resume"
    BY <1>3, Resumes DEF RegisterResumed
  <2>2. PICK session \in SessionSet :
          session = req[c].session[1] /\ session.lesson = req[c].lesson
    BY <2>1, SavedType
  <2>3. req[c].lesson \in DOMAIN view.lessons /\ Unused(req[c].lesson) =>
          session.log = view.lessons[req[c].lesson].log
    BY <2>1, <2>2, Stored DEF LogInv, Agree
  <2>4. \A d \in Clients : req'[d] = req[d] \/ req'[d] = NoReq
    BY <1>0, <1>3, NoReqType, ReqSet DEF RegisterResumed
  <2>5. Register(c, session) /\ UNCHANGED <<db, view, turns>>
    BY <1>3, <2>2 DEF RegisterResumed
  <2> QED
    BY <2>2, <2>3, <2>4, <2>5, LogsRegistered
<1>4. CASE \E s \in Subjects, op \in {"create", "start"} : StartLesson(c, op, s)
  BY <1>4, LogsStarted
<1>5. CASE CommitRequest(c)
  <2>1. db' = view /\ view' = view /\ UNCHANGED <<turns, sessions>> /\ req[c] \in Requests
    BY <1>0, <1>5 DEF CommitRequest, Commits, TypeOK
  <2>2. \A d \in Clients :
          \/ req'[d] = NoReq
          \/ /\ req'[d].op = req[d].op /\ req'[d].lesson = req[d].lesson
             /\ req'[d].session = req[d].session
    <3> DEFINE r == [req[c] EXCEPT !.stage = IF req[c].op = "create" THEN "new_session"
                                             ELSE "register"]
    <3>1. r \in Requests /\ r.op = req[c].op /\ r.lesson = req[c].lesson
          /\ r.session = req[c].session
      BY <2>1 DEF Requests
    <3>2. SetReq(c, IF req[c].op = "start" THEN NoReq ELSE r)
      BY <1>5 DEF CommitRequest
    <3> HIDE DEF r
    <3>3. CASE req[c].op = "start"
      <4>1. req'[c] = NoReq /\ \A d \in Clients : d # c => req'[d] = req[d]
        BY <1>0, <3>2, <3>3, NoReqType, ReqSet
      <4> QED
        BY <4>1
    <3>4. CASE req[c].op # "start"
      <4>1. req'[c] = r /\ \A d \in Clients : d # c => req'[d] = req[d]
        BY <1>0, <3>1, <3>2, <3>4, ReqSet
      <4> QED
        BY <3>1, <4>1
    <3> QED
      BY <3>3, <3>4
  <2>3. \A id \in DOMAIN view.lessons : StoredLogs(id)' \subseteq StoredLogs(id)
    BY <2>1, <2>2, NoReqType, Stored, StoredOnly
  <2>4. \A d \in Clients : req'[d].op = "create" => req[d].op = "create" /\ req'[d].lesson = req[d].lesson
    BY <2>2, NoReqType
  <2> QED
    BY <2>1, <2>3, <2>4, LogsOfRequest
<1>6. CASE \E id \in DOMAIN view.lessons : Resume(c, id)
  <2>1. PICK id \in DOMAIN view.lessons : Resume(c, id)
    BY <1>6
  <2> DEFINE r == [op |-> "resume",
                   stage |-> IF view.lessons[id].whole THEN "register" ELSE "save",
                   lesson |-> id, session |-> <<Rebuilt(id)>>]
  <2>2. <<Rebuilt(id)>> \in Seq(SessionSet) /\ <<Rebuilt(id)>>[1].log = view.lessons[id].log
        /\ id \in 0..MaxLessons
    BY <1>0, RebuiltType, LessonStoreAssumption DEF Ids
  <2>3. r \in Requests /\ r.op = "resume" /\ r.lesson = id /\ r.session[1].log = view.lessons[id].log
    BY <2>2 DEF Requests
  <2>4. SetReq(c, r) /\ UNCHANGED <<db, view, turns, sessions>>
    BY <2>1 DEF Resume
  <2> HIDE DEF r
  <2>5. req'[c] = r /\ \A d \in Clients : d # c => req'[d] = req[d]
    BY <1>0, <2>3, <2>4, ReqSet
  <2>6. ASSUME NEW i \in DOMAIN view.lessons PROVE StoredLogs(i)' \subseteq StoredLogs(i)
    BY <2>3, <2>4, <2>5, Stored, StoredOnly
  <2>7. \A d \in Clients : req'[d].op = "create" => req[d].op = "create" /\ req'[d].lesson = req[d].lesson
    BY <2>3, <2>5
  <2> QED
    BY <2>4, <2>6, <2>7, LogsOfRequest
<1>7. CASE SaveSession(c)
  <2>1. req[c].op = "resume" /\ req[c].lesson \in Ids /\ req[c].session[1].log \in Log
        /\ req[c] \in Requests
    BY <1>0, <1>7, Resumes, SavedType DEF SaveSession, TypeOK
  <2>2. /\ DOMAIN view'.lessons = DOMAIN view.lessons /\ db' = db
        /\ req[c].lesson \in DOMAIN view.lessons =>
             view'.lessons[req[c].lesson].log = req[c].session[1].log
        /\ \A i \in DOMAIN view.lessons : i # req[c].lesson => view'.lessons[i] = view.lessons[i]
    BY <1>0, <1>7, <2>1, LessonUpdated DEF SaveSession, UpdateLesson
  <2>3. \A d \in Clients : req'[d].op = req[d].op /\ req'[d].lesson = req[d].lesson
             /\ req'[d].session = req[d].session
    <3> DEFINE r == [req[c] EXCEPT !.stage = "commit"]
    <3>1. r \in Requests /\ r.op = req[c].op /\ r.lesson = req[c].lesson
          /\ r.session = req[c].session
      BY <2>1 DEF Requests
    <3>2. SetReq(c, r)
      BY <1>7 DEF SaveSession
    <3> HIDE DEF r
    <3> QED
      BY <1>0, <3>1, <3>2, ReqSet
  <2>4. ASSUME NEW id \in DOMAIN view.lessons PROVE StoredLogs(id)' \subseteq StoredLogs(id)
    <3>1. view'.lessons[id].log \in StoredLogs(id)
      BY <2>1, <2>2, Stored
    <3> QED
      BY <2>2, <2>3, <3>1, Stored, StoredOnly
  <2>5. UNCHANGED <<turns, sessions>>
    BY <1>7 DEF SaveSession
  <2> QED
    BY <2>2, <2>3, <2>4, <2>5, LogsOfRequest
<1>8. CASE RequestRaises(c)
  <2>1. Raises /\ UNCHANGED <<turns, sessions>>
    BY <1>8 DEF RequestRaises
  <2>2. req'[c] = NoReq /\ \A d \in Clients : d # c => req'[d] = req[d]
    BY <1>0, <1>8, NoReqType, ReqSet DEF RequestRaises
  <2>3. \A d \in Clients : req'[d] = req[d] \/ (req'[d].op # "resume" /\ req'[d].op # "create")
    BY <2>2, NoReqType
  <2>4. \A id \in DOMAIN view'.lessons :
          id \in DOMAIN view.lessons /\ StoredLogs(id)' \subseteq StoredLogs(id)
    BY <2>1, <2>3, StoredRaised
  <2> QED
    BY <2>1, <2>3, <2>4, LogsOfRequest
<1>9. ASSUME UNCHANGED <<db, view, req>> PROVE \A id \in DOMAIN view'.lessons :
          id \in DOMAIN view.lessons /\ StoredLogs(id)' \subseteq StoredLogs(id)
  BY <1>9 DEF StoredLogs
<1>10. CASE \E s \in Subjects : SetSubject(c, s)
  <2>1. /\ DOMAIN sessions' = DOMAIN sessions
        /\ \A n \in DOMAIN sessions :
             sessions'[n].lesson = sessions[n].lesson /\ sessions'[n].log = sessions[n].log
        /\ UNCHANGED <<db, view, req, turns>>
    BY <1>10, SubjectSet
  <2>2. ASSUME NEW t \in DOMAIN turns, turns[t].stage \in Storing
        PROVE  turns[t].stage # "over" /\ turns[t].lesson = sessions[turns[t].sid].lesson
    BY <2>2, TurnType DEF Storing, LinkedTurn, Persisting, Writing
  <2> QED
    BY <1>9, <2>1, <2>2, LogsStay
<1>11. CASE StartTurn(c)
  <2>1. /\ DOMAIN turns' = DOMAIN turns \cup {Len(turns) + 1}
        /\ \A t \in DOMAIN turns : turns'[t] = turns[t]
        /\ turns'[Len(turns) + 1] = Turn(c) /\ UNCHANGED <<db, view, req, sessions>>
    BY <1>11, TurnStarts DEF StartTurn
  <2>2. Turn(c).stage \notin Storing
    BY DEF Turn, Storing
  <2>3. ASSUME NEW t \in DOMAIN turns, turns[t].stage \in Storing
        PROVE  turns[t].stage # "over" /\ turns[t].lesson = sessions[turns[t].sid].lesson
    BY <2>3, TurnType DEF Storing, LinkedTurn, Persisting, Writing
  <2> QED
    BY <1>9, <2>1, <2>2, <2>3, LogsStay
<1> QED
  BY <1>1, <1>2, <1>3, <1>4, <1>5, <1>6, <1>7, <1>8, <1>10, <1>11 DEF Request

\* A thread stores what its session's log had when it was read.
LEMMA ThreadKeepsLogs ==
  ASSUME TypeInv, StreamInv, LogInv, NEW t \in DOMAIN turns, Thread(t)
  PROVE  LogInv'
<1>0. /\ turns[t] \in TurnSet /\ LinkedTurn(t) /\ t \in 1..MaxTurns /\ TypeOK
      /\ turns[t].stage # "over" =>
           turns[t].sid \in DOMAIN sessions /\ sessions[turns[t].sid] \in SessionSet
      /\ NoLesson \notin Ids
  BY TurnType, LessonStoreAssumption DEF TypeInv, Ids, NoLesson
<1>1. /\ Changes(t) /\ UNCHANGED req
      /\ turns'[t].stage # "over" => turns[t].stage # "over" /\ turns'[t].sid = turns[t].sid
      /\ DOMAIN sessions' = DOMAIN sessions
      /\ \A n \in DOMAIN sessions : sessions'[n].lesson = sessions[n].lesson
      /\ turns[t].left => turns'[t].left
  BY ThreadStep, LeftStays
<1>2. ASSUME NEW u \in DOMAIN turns, turns[u].stage \in Storing
      PROVE  turns[u].stage # "over" /\ turns[u].lesson = sessions[turns[u].sid].lesson
  BY <1>2, TurnType DEF Storing, LinkedTurn, Persisting, Writing
<1>3. ASSUME \A id \in DOMAIN view'.lessons :
               id \in DOMAIN view.lessons /\ StoredLogs(id)' \subseteq StoredLogs(id),
             \A n \in DOMAIN sessions : Range(sessions[n].log) \subseteq Range(sessions'[n].log),
             turns'[t].lesson = turns[t].lesson \/ turns[t].stage = "answering",
             turns'[t].stage \in Storing =>
               /\ turns'[t].lesson = turns[t].lesson
               /\ turns[t].lesson = sessions[turns[t].sid].lesson
               /\ \/ turns[t].stage \in Storing /\ turns'[t].entries = turns[t].entries
                  \/ turns'[t].entries = sessions[turns[t].sid].log
      PROVE  LogInv'
  <2>1. \A c \in Clients : req'[c].op = "create" =>
          req[c].op = "create" /\ req'[c].lesson = req[c].lesson
    BY <1>1
  <2>2. ASSUME NEW u \in DOMAIN turns, turns[u].left, turns[u].lesson \in Ids
        PROVE  u \in DOMAIN turns' /\ turns'[u].left /\ turns'[u].lesson = turns[u].lesson
    <3>1. CASE u = t
      <4>1. turns[t].stage # "answering"
        BY <1>0, <2>2, <3>1 DEF LinkedTurn
      <4> QED
        BY <1>1, <1>3, <2>2, <3>1, <4>1 DEF Changes
    <3>2. CASE u # t
      BY <1>1, <2>2, <3>2 DEF Changes
    <3> QED
      BY <3>1, <3>2
  <2>3. ASSUME NEW u \in DOMAIN turns', turns'[u].stage \in Storing
        PROVE  /\ u \in DOMAIN turns /\ turns[u].stage # "over"
               /\ turns'[u].lesson = turns[u].lesson /\ turns'[u].sid = turns[u].sid
               /\ turns[u].lesson = sessions[turns[u].sid].lesson
               /\ \/ turns[u].stage \in Storing /\ turns'[u].entries = turns[u].entries
                  \/ turns'[u].entries = sessions[turns[u].sid].log
    <3>1. CASE u = t
      BY <1>1, <1>3, <2>3, <3>1 DEF Storing
    <3>2. CASE u # t
      <4>1. u \in DOMAIN turns /\ turns'[u] = turns[u]
        BY <1>1, <2>3, <3>2 DEF Changes
      <4> QED
        BY <1>2, <2>3, <4>1
    <3> QED
      BY <3>1, <3>2
  <2> QED
    BY <1>1, <1>3, <2>1, <2>2, <2>3, LogsStay
<1>4. ASSUME UNCHANGED <<db, view>> PROVE \A id \in DOMAIN view'.lessons :
          id \in DOMAIN view.lessons /\ StoredLogs(id)' \subseteq StoredLogs(id)
  BY <1>1, <1>4 DEF StoredLogs
<1>5. CASE Leave(t)
  <2>1. /\ turns'[t].stage = turns[t].stage /\ turns'[t].lesson = turns[t].lesson
        /\ turns'[t].entries = turns[t].entries /\ UNCHANGED <<db, view, sessions>>
    BY <1>0, <1>5, LeavesTurn DEF Leave
  <2> QED
    BY <1>2, <1>3, <1>4, <2>1
<1>6. CASE Answer(t)
  <2>1. /\ UNCHANGED <<db, view>>
        /\ \A n \in DOMAIN sessions : n # turns[t].sid => sessions'[n].log = sessions[n].log
        /\ Range(sessions'[turns[t].sid].log) = Range(sessions[turns[t].sid].log) \cup {t}
    BY <1>6, Answered
  <2>2. turns'[t].stage \in {"over", "check"} /\ turns[t].stage = "answering"
    <3>1. CASE sessions[turns[t].sid].lesson = NoLesson
      BY <1>0, <1>6, <3>1, EndsTurn DEF Answer, Outcomes
    <3>2. CASE sessions[turns[t].sid].lesson # NoLesson
      <4>1. Becomes(t, [turns[t] EXCEPT !.stage = "check", !.lesson = sessions[turns[t].sid].lesson])
            /\ sessions[turns[t].sid].lesson \in 0..MaxLessons /\ turns[t].stage = "answering"
        BY <1>0, <1>6, <3>2 DEF Answer, SessionSet
      <4> QED
        BY <1>0, <4>1, ChecksTurn
    <3> QED
      BY <3>1, <3>2
  <2>3. \A n \in DOMAIN sessions : Range(sessions[n].log) \subseteq Range(sessions'[n].log)
    BY <2>1
  <2> QED
    BY <1>3, <1>4, <2>1, <2>2, <2>3 DEF Storing
<1>7. CASE Check(t)
  <2>1. turns[t].stage = "check" /\ sessions[turns[t].sid].log \in Log
        /\ UNCHANGED <<db, view, sessions>>
        /\ turns[t].lesson = sessions[turns[t].sid].lesson
    BY <1>0, <1>7 DEF Check, SessionSet, LinkedTurn, Persisting
  <2>2. CASE Ends(t, "refused")
    <3>1. turns'[t].stage = "over" /\ turns'[t].lesson = turns[t].lesson
      BY <1>0, <2>2, EndsTurn DEF Outcomes
    <3> QED
      BY <1>3, <1>4, <2>1, <3>1 DEF Storing
  <2>3. CASE Becomes(t, [turns[t] EXCEPT !.stage = "count", !.entries = sessions[turns[t].sid].log])
    <3>1. turns'[t].entries = sessions[turns[t].sid].log /\ turns'[t].lesson = turns[t].lesson
      BY <1>0, <2>1, <2>3, CountsTurn
    <3> QED
      BY <1>3, <1>4, <2>1, <3>1
  <2> QED
    BY <1>7, <2>2, <2>3 DEF Check
<1>8. CASE CountRows(t)
  <2>1. turns[t].stage = "count" /\ turns[t].lesson \in Ids /\ UNCHANGED <<db, view, sessions>>
    BY <1>0, <1>8 DEF CountRows, LinkedTurn, Persisting
  <2>2. Len(view.rows[turns[t].lesson]) \in Nat
    BY <1>0, <2>1, LenProperties DEF TypeOK, IsStore
  <2>3. turns'[t].entries = turns[t].entries /\ turns'[t].lesson = turns[t].lesson
    BY <1>0, <1>8, <2>2, InsertsTurn DEF CountRows
  <2> QED
    BY <1>2, <1>3, <1>4, <2>1, <2>3 DEF Storing
<1>9. CASE InsertTurn(t)
  <2>1. turns[t].stage = "insert" /\ turns[t].lesson \in Ids /\ UNCHANGED <<db, sessions>>
        /\ [turn |-> t, seq |-> turns[t].seq] \in Row
        /\ InsertRow(turns[t].lesson, [turn |-> t, seq |-> turns[t].seq])
    BY <1>0, <1>9 DEF InsertTurn, InsertRow, LinkedTurn, Persisting, Writing, Row, TurnSet
  <2>2. view'.lessons = view.lessons
    BY <1>0, <2>1, RowInserted
  <2>3. turns'[t].entries = turns[t].entries /\ turns'[t].lesson = turns[t].lesson
    BY <1>0, <1>9, GoesTurn DEF InsertTurn, Stages
  <2>4. \A id \in DOMAIN view'.lessons :
          id \in DOMAIN view.lessons /\ StoredLogs(id)' \subseteq StoredLogs(id)
    BY <1>1, <2>1, <2>2 DEF StoredLogs
  <2> QED
    BY <1>2, <1>3, <2>1, <2>3, <2>4 DEF Storing
<1>10. CASE UpdateLog(t)
  <2>0. PICK l, n : l = turns[t].lesson /\ n = turns[t].sid
    OBVIOUS
  <2>1. turns[t].stage = "update" /\ l \in Ids /\ turns[t].entries \in Log
        /\ UNCHANGED <<db, sessions>> /\ n \in DOMAIN sessions /\ sessions[n].lesson = l
    BY <1>0, <1>10, <2>0 DEF UpdateLog, UpdateLesson, LinkedTurn, Persisting, Writing, TurnSet
  <2>2. /\ DOMAIN view'.lessons = DOMAIN view.lessons
        /\ l \in DOMAIN view.lessons => view'.lessons[l].log = turns[t].entries
        /\ \A i \in DOMAIN view.lessons : i # l => view'.lessons[i] = view.lessons[i]
    BY <1>0, <1>10, <2>0, <2>1, LessonUpdated DEF UpdateLog
  <2>3. turns'[t].stage = "commit" /\ turns'[t].lesson = l
        /\ turns'[t].sid = n /\ turns'[t].left = turns[t].left
    BY <1>0, <1>10, <2>0, GoesTurn DEF UpdateLog, Stages
  <2>4. ASSUME NEW id \in DOMAIN view.lessons, id # l
        PROVE  StoredLogs(id)' = StoredLogs(id) /\ view'.lessons[id] = view.lessons[id]
    BY <1>1, <2>1, <2>2, <2>4 DEF StoredLogs
  <2>5. ASSUME l \in DOMAIN view.lessons
        PROVE  StoredLogs(l)' \subseteq StoredLogs(l) \cup {turns[t].entries}
    <3>0. PICK S : S = StoredLogs(l) \cup {turns[t].entries}
      OBVIOUS
    <3>1. view'.lessons[l].log \in S
      BY <2>2, <2>5, <3>0
    <3>2. l \in DOMAIN db'.lessons => db'.lessons[l].log \in S
      BY <2>1, <3>0, Stored
    <3>3. \A c \in Clients : req'[c].op = "resume" /\ req'[c].lesson = l =>
             req'[c].session[1].log \in S
      BY <1>1, <3>0, Stored
    <3> QED
      BY <3>0, <3>1, <3>2, <3>3, StoredOnly
  <2>6. ASSUME NEW u \in DOMAIN turns, u # t
        PROVE  turns'[u] = turns[u]
    BY <1>1, <2>6 DEF Changes
  <2>7. ASSUME NEW id \in DOMAIN view'.lessons PROVE Agree(id)'
    <3>1. CASE id = l
      <4>1. ~Unused(id)'
        BY <2>1, <3>1 DEF Unused
      <4> QED
        BY <4>1 DEF Agree
    <3>2. CASE id # l
      BY <1>1, <2>1, <2>2, <2>4, <3>2 DEF Agree, LogInv, Unused
    <3> QED
      BY <3>1, <3>2
  <2>8. ASSUME NEW id \in DOMAIN view'.lessons PROVE Stayed(id)' => Stayed(id)
    BY <1>1, <2>0, <2>3, <2>6 DEF Stayed, Changes
  <2>9. ASSUME NEW id \in DOMAIN view'.lessons PROVE Covered(id)'
    <3>1. id \in DOMAIN view.lessons /\ Covered(id)
      BY <2>2 DEF LogInv
    <3>2. CASE id # l
      <4>1. ASSUME NEW u \in DOMAIN turns', turns'[u].lesson = id
            PROVE  u \in DOMAIN turns /\ turns'[u] = turns[u]
        BY <1>1, <2>3, <2>6, <3>2, <4>1 DEF Changes
      <4>2. \A m \in DOMAIN sessions : Sole(m, id)' => Sole(m, id)
        BY <2>1 DEF Sole
      <4> QED
        BY <2>1, <2>4, <2>8, <3>1, <3>2, <4>1, <4>2 DEF Covered
    <3>3. CASE id = l
      <4>1. ASSUME NEW m \in DOMAIN sessions, Sole(m, id)'
            PROVE  /\ \A stored \in StoredLogs(id)' : Range(stored) \subseteq Range(sessions[m].log)
                   /\ Stayed(id) => \A u \in DOMAIN turns' :
                        ~(turns'[u].lesson = id /\ turns'[u].stage \in Storing)
        <5>1. m = n /\ Sole(m, id)
          BY <2>1, <3>3, <4>1 DEF Sole
        <5>2. Range(turns[t].entries) \subseteq Range(sessions[n].log)
          BY <2>0, <2>1 DEF LogInv, Storing
        <5>3. \A stored \in StoredLogs(id) : Range(stored) \subseteq Range(sessions[m].log)
          BY <3>1, <5>1 DEF Covered
        <5>4. ASSUME Stayed(id), NEW u \in DOMAIN turns', turns'[u].lesson = id,
                     turns'[u].stage \in Storing
              PROVE  FALSE
          <6>1. u # t /\ u \in DOMAIN turns /\ turns'[u] = turns[u]
            BY <1>1, <2>3, <2>6, <5>4 DEF Changes, Storing
          <6>2. turns[u].sid \in DOMAIN sessions /\ sessions[turns[u].sid].lesson = id
            BY <1>2, <5>4, <6>1, TurnType
          <6>3. turns[u].sid = turns[t].sid
            BY <2>0, <5>1, <6>2 DEF Sole
          <6>4. Streams(u) /\ Streams(t)
            BY <2>0, <2>1, <3>3, <5>4, <6>1 DEF Stayed, Streams, Storing
          <6> QED
            BY <6>1, <6>3, <6>4 DEF StreamInv
        <5>5. StoredLogs(id)' \subseteq StoredLogs(id) \cup {turns[t].entries}
          BY <2>5, <3>1, <3>3
        <5>6. ASSUME NEW stored \in StoredLogs(id)'
              PROVE  Range(stored) \subseteq Range(sessions[m].log)
          BY <5>1, <5>2, <5>3, <5>5
        <5> QED
          BY <5>4, <5>6
      <4> QED
        BY <2>1, <2>8, <4>1 DEF Covered
    <3> QED
      BY <3>2, <3>3
  <2>10. ASSUME NEW u \in DOMAIN turns', turns'[u].stage \in Storing
         PROVE  Range(turns'[u].entries) \subseteq Range(sessions'[turns'[u].sid].log)
    <3>1. u \in DOMAIN turns /\ turns'[u] = turns[u]
      BY <1>1, <2>3, <2>6, <2>10 DEF Changes, Storing
    <3> QED
      BY <2>1, <2>10, <3>1 DEF LogInv
  <2> QED
    BY <2>7, <2>9, <2>10 DEF LogInv
<1>11. CASE CommitTurn(t)
  <2>1. db' = view /\ view' = view /\ UNCHANGED sessions
    BY <1>11 DEF CommitTurn, Commits
  <2>2. turns'[t].stage = "over" /\ turns'[t].lesson = turns[t].lesson
    BY <1>0, <1>11, EndsTurn DEF CommitTurn, Outcomes
  <2>3. \A id \in DOMAIN view.lessons : StoredLogs(id)' \subseteq StoredLogs(id)
    BY <1>1, <2>1, Stored, StoredOnly
  <2> QED
    BY <1>3, <2>1, <2>2, <2>3 DEF Storing
<1>12. CASE PersistRaises(t)
  <2>1. Raises /\ UNCHANGED sessions
    BY <1>12 DEF PersistRaises
  <2>2. turns'[t].stage = "over" /\ turns'[t].lesson = turns[t].lesson
    BY <1>0, <1>12, EndsTurn DEF PersistRaises, Outcomes
  <2>3. \A id \in DOMAIN view'.lessons :
          id \in DOMAIN view.lessons /\ StoredLogs(id)' \subseteq StoredLogs(id)
    BY <1>1, <2>1, StoredRaised
  <2> QED
    BY <1>3, <2>1, <2>2, <2>3 DEF Storing
<1> QED
  BY <1>5, <1>6, <1>7, <1>8, <1>9, <1>10, <1>11, <1>12 DEF Thread

\* The logs of the lessons, always.
LEMMA LogsAlways == Spec => []LogInv
<1>1. Init => LogInv
  <2> SUFFICES ASSUME Init PROVE LogInv
    OBVIOUS
  <2>1. view = db /\ sessions = <<>> /\ turns = <<>> /\ DOMAIN <<>> = {}
        /\ \A c \in Clients : req[c] = NoReq
    BY EmptySeq DEF Init
  <2>2. \A id \in DOMAIN view.lessons : StoredLogs(id) \subseteq {view.lessons[id].log}
    BY <2>1, NoReqType DEF StoredLogs
  <2>3. \A id \in DOMAIN view.lessons : Agree(id) /\ Covered(id)
    BY <2>1, <2>2, NoReqType DEF Agree, Covered
  <2> QED
    BY <2>1, <2>3 DEF LogInv
<1>2. TypeInv /\ Known /\ StreamInv /\ LogInv /\ [Next]_vars => LogInv'
  <2> SUFFICES ASSUME TypeInv, Known, StreamInv, LogInv, [Next]_vars PROVE LogInv'
    OBVIOUS
  <2>1. ASSUME UNCHANGED <<db, view, sessions, req, turns>> PROVE LogInv'
    <3>1. \A id \in DOMAIN view'.lessons :
            id \in DOMAIN view.lessons /\ StoredLogs(id)' \subseteq StoredLogs(id)
      BY <2>1 DEF StoredLogs
    <3> QED
      BY <2>1, <3>1, LogsOfRequest
  <2>2. CASE Open \/ Opened \/ OpenFails \/ UNCHANGED vars
    BY <2>1, <2>2 DEF Open, Opened, OpenFails, vars
  <2>3. CASE Crash
    <3>1. view' = db /\ db' = db /\ sessions' = <<>> /\ DOMAIN <<>> = {}
          /\ \A c \in Clients : req'[c] = NoReq
      BY <2>3, EmptySeq DEF Crash
    <3>2. DOMAIN turns' = DOMAIN turns /\ \A t \in DOMAIN turns : turns'[t].stage = "over"
      BY <2>3, CrashedTurns
    <3>3. \A id \in DOMAIN view'.lessons : StoredLogs(id)' \subseteq {view'.lessons[id].log}
      BY <3>1, NoReqType DEF StoredLogs
    <3>4. \A id \in DOMAIN view'.lessons : Agree(id)' /\ Covered(id)'
      BY <3>1, <3>3, NoReqType DEF Agree, Covered
    <3> QED
      BY <3>2, <3>4 DEF LogInv, Storing
  <2> QED
    BY <2>2, <2>3, RequestKeepsLogs, ThreadKeepsLogs DEF Next
<1> QED
  BY <1>1, <1>2, TypeAlways, KnownAlways, StreamsAlways, PTL DEF Spec

\* A set of more than one element.
LEMMA TwoOf ==
  ASSUME NEW S, IsFiniteSet(S), NEW a \in S, NEW b \in S, a # b
  PROVE  Cardinality(S) \in Nat /\ Cardinality(S) >= 2
<1>1. IsFiniteSet({a}) /\ Cardinality({a}) = 1
  BY FS_Singleton
<1>2. IsFiniteSet({a} \cup {b}) /\ Cardinality({a} \cup {b}) = Cardinality({a}) + 1
  BY <1>1, FS_AddElement
<1>3. {a} \cup {b} \subseteq S
  OBVIOUS
<1>4. Cardinality({a} \cup {b}) <= Cardinality(S) /\ Cardinality(S) \in Nat
  BY <1>3, FS_Subset, FS_CardinalityType
<1> QED
  BY <1>1, <1>2, <1>4

\* A set of at least one element.
LEMMA OneOf ==
  ASSUME NEW S, IsFiniteSet(S), NEW a \in S
  PROVE  Cardinality(S) \in Nat /\ Cardinality(S) >= 1
<1>1. IsFiniteSet({a}) /\ Cardinality({a}) = 1
  BY FS_Singleton
<1>2. Cardinality({a}) <= Cardinality(S) /\ Cardinality(S) \in Nat
  BY FS_Subset, FS_CardinalityType
<1> QED
  BY <1>1, <1>2

\* Who is alone: a session of the lesson is its only one, a resume of it has none.
LEMMA AloneMeans ==
  ASSUME TypeInv, NEW id, Alone(id)
  PROVE  /\ Stayed(id)
         /\ \A n \in DOMAIN sessions : sessions[n].lesson = id => Sole(n, id)
         /\ \A c \in Clients : req[c].op = "resume" /\ req[c].lesson = id => Unused(id)
<1> DEFINE S == {n \in DOMAIN sessions : sessions[n].lesson = id}
           C == {c \in Clients : req[c].op = "resume" /\ req[c].lesson = id}
<1>1. IsFiniteSet(DOMAIN sessions) /\ IsFiniteSet(Clients)
  <2>1. DOMAIN sessions = 1..Len(sessions) /\ Len(sessions) \in Nat
    BY LenProperties DEF TypeInv, TypeOK
  <2> QED
    BY <2>1, FS_Interval, LessonStoreAssumption
<1>2. IsFiniteSet(S) /\ IsFiniteSet(C)
  BY <1>1, FS_Subset
<1>3. Cardinality(S) \in Nat /\ Cardinality(C) \in Nat
  BY <1>2, FS_CardinalityType
<1>4. Cardinality(S) + Cardinality(C) < 2
  BY DEF Alone
<1>5. ASSUME NEW n \in DOMAIN sessions, NEW m \in DOMAIN sessions,
             sessions[n].lesson = id, sessions[m].lesson = id, m # n
      PROVE  FALSE
  <2>1. n \in S /\ m \in S
    BY <1>5
  <2> HIDE DEF S, C
  <2>2. Cardinality(S) >= 2
    BY <1>2, <1>5, <2>1, TwoOf
  <2> QED
    BY <1>3, <1>4, <2>2
<1>6. ASSUME NEW c \in Clients, req[c].op = "resume", req[c].lesson = id,
             NEW n \in DOMAIN sessions, sessions[n].lesson = id
      PROVE  FALSE
  <2>1. n \in S /\ c \in C
    BY <1>6
  <2> HIDE DEF S, C
  <2>2. Cardinality(S) >= 1 /\ Cardinality(C) >= 1
    BY <1>2, <2>1, OneOf
  <2> QED
    BY <1>3, <1>4, <2>2
<1>7. Stayed(id)
  BY DEF Alone, Stayed
<1> QED
  BY <1>5, <1>6, <1>7 DEF Sole, Unused

\* The statements that change what the connection sees of a lesson.
LEMMA ViewChanges ==
  ASSUME TypeInv, Next, view' # db, NEW id \in DOMAIN view.lessons
  PROVE  \/ view'.lessons[id] = view.lessons[id]
         \/ \E c \in Clients : SaveSession(c) /\ req[c].lesson = id
         \/ \E t \in DOMAIN turns : UpdateLog(t) /\ turns[t].lesson = id
<1>0. TypeOK /\ Linked
  BY DEF TypeInv
<1>1. ASSUME NEW c \in Clients, Request(c)
      PROVE  view'.lessons[id] = view.lessons[id] \/ (SaveSession(c) /\ req[c].lesson = id)
  <2>1. ASSUME NEW s \in Subjects, NEW op \in {"create", "start"}, StartLesson(c, op, s)
        PROVE  view'.lessons[id] = view.lessons[id]
    <3>1. PICK new \in Ids : new = started' /\ new = started + 1
      BY <2>1, NextLessonId DEF TypeInv, TypeOK
    <3>2. Lesson(s, <<>>, TRUE) \in LessonSet
      BY EmptySeq DEF Lesson, LessonSet, Log
    <3>3. InsertLesson(new, Lesson(s, <<>>, TRUE))
      BY <2>1, <3>1 DEF StartLesson, InsertLesson
    <3>4. id # new
      <4>1. id \in 1..started /\ started \in Nat
        BY <1>0, LessonStoreAssumption DEF TypeOK, IsStore, Ids
      <4> QED
        BY <3>1, <4>1
    <3> QED
      BY <1>0, <3>2, <3>3, <3>4, LessonInserted
  <2>2. CASE SaveSession(c)
    <3>1. req[c].lesson \in Ids /\ req[c].session[1].log \in Log
      BY <2>2, Resumes, SavedType DEF SaveSession
    <3> QED
      BY <1>0, <2>2, <3>1, LessonUpdated DEF SaveSession
  <2>3. CASE CreateSession(c) \/ CommitRequest(c) \/ CreateForLesson(c) \/ RegisterResumed(c)
             \/ RequestRaises(c) \/ StartTurn(c)
             \/ (\E i \in DOMAIN view.lessons : Resume(c, i)) \/ (\E s \in Subjects : SetSubject(c, s))
    BY <2>3 DEF CreateSession, CommitRequest, Commits, CreateForLesson, RegisterResumed,
                RequestRaises, Raises, StartTurn, Resume, SetSubject
  <2> QED
    BY <1>1, <2>1, <2>2, <2>3 DEF Request
<1>2. ASSUME NEW t \in DOMAIN turns, Thread(t)
      PROVE  view'.lessons[id] = view.lessons[id] \/ (UpdateLog(t) /\ turns[t].lesson = id)
  <2>1. turns[t] \in TurnSet /\ LinkedTurn(t) /\ t \in 1..MaxTurns
    BY TurnType
  <2>2. CASE InsertTurn(t)
    <3>1. /\ turns[t].lesson \in Ids /\ [turn |-> t, seq |-> turns[t].seq] \in Row
          /\ InsertRow(turns[t].lesson, [turn |-> t, seq |-> turns[t].seq])
      BY <2>1, <2>2 DEF InsertTurn, LinkedTurn, Persisting, Writing, Row, TurnSet
    <3> QED
      BY <1>0, <3>1, RowInserted
  <2>3. CASE UpdateLog(t)
    <3>1. turns[t].lesson \in Ids /\ turns[t].entries \in Log
      BY <2>1, <2>3 DEF UpdateLog, LinkedTurn, Persisting, Writing, TurnSet
    <3> QED
      BY <1>0, <2>3, <3>1, LessonUpdated DEF UpdateLog
  <2>4. CASE Leave(t) \/ Answer(t) \/ Check(t) \/ CountRows(t) \/ CommitTurn(t) \/ PersistRaises(t)
    BY <2>4 DEF Leave, Answer, Check, CountRows, CommitTurn, Commits, PersistRaises, Raises
  <2> QED
    BY <1>2, <2>2, <2>3, <2>4 DEF Thread
<1>3. CASE Open \/ Opened \/ OpenFails
  BY <1>3 DEF Open, Opened, OpenFails
<1>4. ~Crash
  BY DEF Crash
<1> QED
  BY <1>1, <1>2, <1>3, <1>4 DEF Next

\* The log of a lesson loses a turn only when two use the lesson at a time, when a turn whose
\* window has left stores it, or when SQLite rolls back: whoever else stores a log has read
\* it since it was last stored, or appended to what was.
THEOREM LogKeepsTurnsHolds == Spec => LogKeepsTurns
<1> DEFINE A == \A id \in DOMAIN view.lessons :
                  Alone(id) /\ view' # db
                    => Range(view.lessons[id].log) \subseteq Range(view'.lessons[id].log)
<1>1. TypeInv /\ LogInv /\ [Next]_vars => [A]_vars
  <2> SUFFICES ASSUME TypeInv, LogInv, Next, NEW id \in DOMAIN view.lessons,
                      Alone(id), view' # db
               PROVE  Range(view.lessons[id].log) \subseteq Range(view'.lessons[id].log)
    OBVIOUS
  <2>0. TypeOK /\ id \in Ids /\ Agree(id) /\ Covered(id) /\ view.lessons[id].log \in StoredLogs(id)
    BY RebuiltType, Stored DEF TypeInv, LogInv
  <2>1. ASSUME NEW c \in Clients, SaveSession(c), req[c].lesson = id
        PROVE  view'.lessons[id].log = view.lessons[id].log
    <3>1. req[c].op = "resume" /\ req[c].session[1].log \in Log
      BY <2>1, Resumes, SavedType DEF SaveSession
    <3>2. view'.lessons[id].log = req[c].session[1].log
      BY <2>0, <2>1, <3>1, LessonUpdated DEF SaveSession
    <3>3. Unused(id) /\ req[c].session[1].log \in StoredLogs(id)
      BY <2>1, <3>1, AloneMeans, Stored
    <3> QED
      BY <2>0, <3>2, <3>3 DEF Agree
  <2>2. ASSUME NEW t \in DOMAIN turns, UpdateLog(t), turns[t].lesson = id
        PROVE  Range(view.lessons[id].log) \subseteq Range(view'.lessons[id].log)
    <3>1. /\ turns[t].entries \in Log /\ turns[t].stage = "update"
          /\ turns[t].sid \in DOMAIN sessions /\ sessions[turns[t].sid].lesson = id
      BY <2>2, TurnType DEF UpdateLog, LinkedTurn, Persisting, Writing, TurnSet
    <3>2. view'.lessons[id].log = turns[t].entries
      BY <2>0, <2>2, <3>1, LessonUpdated DEF UpdateLog
    <3>3. Sole(turns[t].sid, id) /\ Stayed(id)
      BY <3>1, AloneMeans
    <3>4. Range(view.lessons[id].log) \subseteq Range(turns[t].entries)
      BY <2>0, <2>2, <3>1, <3>3 DEF Covered, Storing
    <3> QED
      BY <3>2, <3>4
  <2>3. CASE view'.lessons[id] = view.lessons[id]
    BY <2>3
  <2> QED
    BY <2>1, <2>2, <2>3, ViewChanges
<1>2. Spec => [][A]_vars
  BY <1>1, TypeAlways, LogsAlways, PTL DEF Spec
<1> QED
  BY <1>2, PTL DEF LogKeepsTurns

=============================================================================
