------------------------------ MODULE LessonStore ------------------------------
(***************************************************************************)
(* The lessons on disk (tutor/app/lesson_state.py), the sessions attached  *)
(* to them (_SessionStore, _persist_turn in tutor/app/compose.py) and the  *)
(* routes that open them (tutor/app/routes.py).                            *)
(*                                                                         *)
(* All threads share one SQLite connection under one lock.  A statement    *)
(* may raise; the lock is then released and nothing rolls the transaction  *)
(* back, so what it holds is committed with the next one.  A crash loses   *)
(* the open transaction and every session.  What a log holds of a turn,    *)
(* and its eviction, is the module PromptLog's: here a log is the turns    *)
(* it has been given.                                                      *)
(***************************************************************************)
EXTENDS Naturals, FiniteSets, SequencesExt

CONSTANTS
    Clients,      \* browser windows, each with one request at a time
    Subjects,     \* subjects of lessons
    Retries,      \* _TRANSIENT_IO_RETRIES
    MaxLessons,   \* bound: lessons started
    MaxSessions,  \* bound: sessions registered by one process
    MaxTurns,     \* bound: turns
    MaxFailures,  \* bound: statements that raise
    MaxCrashes    \* bound: crashes

\* A holder of the lock is a client's request or the thread of a turn, and one of them.
ASSUME LessonStoreAssumption ==
    /\ Subjects # {} /\ {Retries, MaxLessons} \subseteq Nat \ {0}
    /\ {MaxSessions, MaxTurns, MaxFailures, MaxCrashes} \subseteq Nat
    /\ IsFiniteSet(Clients) /\ Clients \cap (1..MaxTurns) = {}

VARIABLES
    server,    \* the process: how far its start has come
    db,        \* the committed lessons, by id
    view,      \* the lessons as the connection sees them: with its open transaction
    lock,      \* the client or turn that holds LessonStore._lock
    sessions,  \* _sessions, _lesson_by_session: the n-th is "sess-n"
    req,       \* the request a client waits for
    tab,       \* what a window shows: its session, the lesson it opened, when
    turns,     \* the turns, each run by a thread
    started,   \* lessons started: the last id given out
    failures,  \* statements that raised
    crashes    \* crashes so far

vars == <<server, db, view, lock, sessions, req, tab, turns, started, failures, crashes>>

Up == server.phase = "up"
NoLesson == 0
NoSubject == "none"
NoReq == [op |-> "none", stage |-> "none", lesson |-> NoLesson, session |-> <<>>]
NoTab == [sid |-> 0, lesson |-> NoLesson, since |-> 0]
Down == [phase |-> "down", statement |-> 0, attempt |-> 0]
Ids == 1..MaxLessons

Lesson(subject, log, whole) == [subject |-> subject, log |-> log, whole |-> whole]
Session(lesson, subject, log) == [lesson |-> lesson, subject |-> subject, log |-> log]

\* A library that has one lesson, whose log an earlier version left with a dangling call.
Init ==
    /\ server = Down
    /\ \E s \in Subjects :
         db = [lessons |-> [id \in {1} |-> Lesson(s, <<>>, FALSE)], rows |-> [id \in Ids |-> <<>>]]
    /\ view = db /\ lock = {}
    /\ sessions = <<>>
    /\ req = [c \in Clients |-> NoReq] /\ tab = [c \in Clients |-> NoTab]
    /\ turns = <<>> /\ started = 1 /\ failures = 0 /\ crashes = 0

-----------------------------------------------------------------------------
(* Opening the store *)

\* connect_store's pragmas and __init__'s tables, in order.
Statements == <<"busy_timeout", "wal", "synchronous", "lessons", "turns">>

Open ==
    /\ server = Down
    /\ server' = [phase |-> "opening", statement |-> 1, attempt |-> 1]
    /\ UNCHANGED <<db, view, lock, sessions, req, tab, turns, started, failures, crashes>>

Opened ==
    /\ server.phase \in {"opening", "fallback"}
    /\ server' = IF server.statement = Len(Statements)
                   THEN [server EXCEPT !.phase = "up"]
                   ELSE [phase |-> "opening", statement |-> server.statement + 1, attempt |-> 1]
    /\ UNCHANGED <<db, view, lock, sessions, req, tab, turns, started, failures, crashes>>

\* execute_with_retry: a disk error is retried; the last one is raised, and ends the
\* process, but for the switch to a write-ahead log, which falls back to a journal.
OpenFails ==
    /\ server.phase \in {"opening", "fallback"} /\ failures < MaxFailures
    /\ failures' = failures + 1
    /\ server' =
         CASE server.attempt < Retries -> [server EXCEPT !.attempt = @ + 1]
           [] /\ server.attempt = Retries
              /\ server.phase = "opening" /\ Statements[server.statement] = "wal"
                -> [phase |-> "fallback", statement |-> server.statement, attempt |-> 1]
           [] OTHER -> Down
    /\ UNCHANGED <<db, view, lock, sessions, req, tab, turns, started, crashes>>

\* A thread that ends: only what the properties ask of it remains.
Ended(turn, outcome) ==
    [turn EXCEPT !.stage = "over", !.outcome = outcome,
                 !.sid = 0, !.entries = <<>>, !.seq = 0]

\* The process is killed, at any step; the open transaction and the threads end with it.
Crash ==
    /\ server # Down /\ crashes < MaxCrashes
    /\ crashes' = crashes + 1
    /\ server' = Down
    /\ view' = db /\ lock' = {} /\ sessions' = <<>>
    /\ req' = [c \in Clients |-> NoReq]
    /\ turns' = [t \in DOMAIN turns |->
                   IF turns[t].stage = "over" THEN turns[t]
                   ELSE Ended(turns[t], "lost")]
    /\ UNCHANGED <<db, tab, started, failures>>

-----------------------------------------------------------------------------
(* The connection *)

\* The lock is held by one thread at a time ...
Locks(holder) == lock = {} /\ lock' = {holder}
Reads == lock = {}

\* ... which alone executes statements ...
InsertLesson(id, lesson) ==
    /\ view' = [view EXCEPT !.lessons = [i \in DOMAIN @ \cup {id} |->
                                          IF i = id THEN lesson ELSE @[i]]]
    /\ UNCHANGED db

\* Mutant: the row is committed by itself.
InsertCommits(id, row) ==
    /\ view' = [view EXCEPT !.rows[id] = Append(@, row)]
    /\ db' = view'

InsertRow(id, row) ==
    /\ view' = [view EXCEPT !.rows[id] = Append(@, row)]
    /\ UNCHANGED db

\* An UPDATE of a lesson that has been rolled back changes nothing.
UpdateLesson(id, log) ==
    /\ view' = IF id \in DOMAIN view.lessons
                 THEN [view EXCEPT !.lessons[id] = Lesson(@.subject, log, TRUE)]
                 ELSE view
    /\ UNCHANGED db

\* ... and commits, all that the connection's transaction holds.
Commits == db' = view /\ lock' = {} /\ UNCHANGED view

\* A statement of the lock's holder raises: SQLite has undone the statement or the whole
\* transaction; `with self._lock` lets the lock go, and nothing else is undone.
Raises ==
    /\ failures < MaxFailures /\ failures' = failures + 1
    /\ view' \in {view, db}
    /\ lock' = {} /\ UNCHANGED db

-----------------------------------------------------------------------------
(* Lessons and sessions *)

SetReq(c, r) == req' = [req EXCEPT ![c] = r]

\* A client's next request: the bound leaves every request that is under way its session.
Free(c) == Up /\ req[c] = NoReq
Room == Len(sessions) + Cardinality({c \in Clients : req[c].op \in {"create", "resume"}})
          < MaxSessions

Shows(c, sid, lesson) == tab' = [tab EXCEPT ![c] = [sid |-> sid, lesson |-> lesson,
                                                    since |-> crashes]]

\* Mutant: the counter is not advanced.
RegisterOver(c, session) ==
    /\ sessions' = IF sessions = <<>> THEN <<session>> ELSE [sessions EXCEPT ![Len(sessions)] = session]
    /\ Shows(c, Len(sessions'), session.lesson)

\* create and _register: the counter starts again with the process.
Register(c, session) ==
    /\ sessions' = Append(sessions, session)
    /\ Shows(c, Len(sessions'), session.lesson)

\* POST /api/session
CreateSession(c) ==
    /\ Free(c) /\ Room /\ Register(c, Session(NoLesson, NoSubject, <<>>))
    /\ UNCHANGED <<server, db, view, lock, req, turns, started, failures, crashes>>

\* start_lesson, for POST /api/lesson ("create") or /api/profiles/{id}/lessons ("start").
StartLesson(c, op, s) ==
    /\ Free(c) /\ started < MaxLessons /\ (op = "create" => Room)
    /\ Locks(c) /\ started' = started + 1
    /\ InsertLesson(started', Lesson(s, <<>>, TRUE))
    /\ SetReq(c, [NoReq EXCEPT !.op = op, !.stage = "commit", !.lesson = started'])
    /\ UNCHANGED <<server, sessions, tab, turns, failures, crashes>>

\* The commit of start_lesson or save_session.
CommitRequest(c) ==
    /\ Up /\ lock = {c} /\ Commits
    /\ SetReq(c, IF req[c].op = "start" THEN NoReq
                 ELSE [req[c] EXCEPT !.stage = IF req[c].op = "create" THEN "new_session"
                                               ELSE "register"])
    /\ UNCHANGED <<server, sessions, tab, turns, started, failures, crashes>>

\* create_for_lesson
CreateForLesson(c) ==
    /\ Up /\ req[c].stage = "new_session" /\ Reads
    /\ Register(c, Session(req[c].lesson, view.lessons[req[c].lesson].subject, <<>>))
    /\ SetReq(c, NoReq)
    /\ UNCHANGED <<server, db, view, lock, turns, started, failures, crashes>>

\* Mutant: a resumed lesson starts with an empty log.
RebuiltEmpty(id) == Session(id, view.lessons[id].subject, <<>>)

\* _rebuild_prompt_log
Rebuilt(id) == Session(id, view.lessons[id].subject, view.lessons[id].log)

\* resume reads the lesson; a log that has to be repaired is saved before it is used.
Resume(c, id) ==
    /\ Free(c) /\ Room /\ Reads
    /\ SetReq(c, [op |-> "resume",
                  stage |-> IF view.lessons[id].whole THEN "register" ELSE "save",
                  lesson |-> id, session |-> <<Rebuilt(id)>>])
    /\ UNCHANGED <<server, db, view, lock, sessions, tab, turns, started, failures, crashes>>

\* save_session writes the log that was read, whatever has been stored since.
SaveSession(c) ==
    /\ Up /\ req[c].stage = "save" /\ Locks(c)
    /\ UpdateLesson(req[c].lesson, req[c].session[1].log)
    /\ SetReq(c, [req[c] EXCEPT !.stage = "commit"])
    /\ UNCHANGED <<server, sessions, tab, turns, started, failures, crashes>>

RegisterResumed(c) ==
    /\ Up /\ req[c].stage = "register" /\ Register(c, req[c].session[1])
    /\ SetReq(c, NoReq)
    /\ UNCHANGED <<server, db, view, lock, turns, started, failures, crashes>>

\* The statement or the commit of a request raises: the request fails.
RequestRaises(c) ==
    /\ Up /\ lock = {c} /\ Raises /\ SetReq(c, NoReq)
    /\ UNCHANGED <<server, sessions, tab, turns, started, crashes>>

\* POST /api/session/{id}/subject
SetSubject(c, s) ==
    LET sid == tab[c].sid IN
    /\ Free(c) /\ sid \in DOMAIN sessions /\ sessions[sid].subject # s
    /\ sessions' = [sessions EXCEPT ![sid].subject = s]
    /\ UNCHANGED <<server, db, view, lock, req, tab, turns, started, failures, crashes>>

-----------------------------------------------------------------------------
(* Turns *)

Turn(c) ==
    [sid |-> tab[c].sid, opened |-> tab[c].lesson, stale |-> tab[c].since # crashes,
     stage |-> "answering", left |-> FALSE,
     lesson |-> NoLesson, entries |-> <<>>, seq |-> 0, outcome |-> "none"]

\* active_turns: the sessions with a turn whose stream is open.
Active == {turns[t].sid : t \in {u \in DOMAIN turns : turns[u].stage # "over" /\ ~turns[u].left}}

\* POST /api/session/{id}/turn: refused for an unknown session, or one that is busy.
StartTurn(c) ==
    /\ Free(c) /\ Len(turns) < MaxTurns
    /\ tab[c].sid \in DOMAIN sessions \ Active
    /\ turns' = Append(turns, Turn(c))
    /\ UNCHANGED <<server, db, view, lock, sessions, req, tab, started, failures, crashes>>

Becomes(t, turn) == turns' = [turns EXCEPT ![t] = turn]
Goes(t, stage) == Becomes(t, [turns[t] EXCEPT !.stage = stage])
Ends(t, outcome) == Becomes(t, Ended(turns[t], outcome))

\* The window closes its connection: the session is free, and the thread runs on.
Leave(t) ==
    /\ Up /\ turns[t].stage # "over" /\ ~turns[t].left
    /\ Becomes(t, [turns[t] EXCEPT !.left = TRUE])
    /\ UNCHANGED <<server, db, view, lock, sessions, req, tab, started, failures, crashes>>

\* run_turn returns, its log has the turn, and the last frame is sent; only then is the
\* session's lesson looked up.
Answer(t) ==
    LET lesson == sessions[turns[t].sid].lesson IN
    /\ Up /\ turns[t].stage = "answering"
    /\ sessions' = [sessions EXCEPT ![turns[t].sid].log = Append(@, t)]
    /\ IF lesson = NoLesson THEN Ends(t, "plain")
       ELSE Becomes(t, [turns[t] EXCEPT !.stage = "check", !.lesson = lesson])
    /\ UNCHANGED <<server, db, view, lock, req, tab, started, failures, crashes>>

\* persist_turn compares the subjects and renders the log; a ValueError is swallowed.
Check(t) ==
    LET session == sessions[turns[t].sid]
        lesson == turns[t].lesson
    IN
    /\ Up /\ turns[t].stage = "check" /\ Reads
    /\ IF lesson \in DOMAIN view.lessons /\ session.subject = view.lessons[lesson].subject
         THEN Becomes(t, [turns[t] EXCEPT !.stage = "count", !.entries = session.log])
         ELSE Ends(t, "refused")
    /\ UNCHANGED <<server, db, view, lock, sessions, req, tab, started, failures, crashes>>

\* Mutant: the rows are counted before the lock is taken.
CountUnlocked(t) ==
    \/ /\ Up /\ turns[t].stage = "count" /\ Reads
       /\ Becomes(t, [turns[t] EXCEPT !.stage = "counted",
                                     !.seq = Len(view.rows[turns[t].lesson])])
       /\ UNCHANGED <<server, db, view, lock, sessions, req, tab, started, failures, crashes>>
    \/ /\ Up /\ turns[t].stage = "counted" /\ Locks(t) /\ Goes(t, "insert")
       /\ UNCHANGED <<server, db, view, sessions, req, tab, started, failures, crashes>>

CountRows(t) ==
    /\ Up /\ turns[t].stage = "count" /\ Locks(t)
    /\ Becomes(t, [turns[t] EXCEPT !.stage = "insert",
                                  !.seq = Len(view.rows[turns[t].lesson])])
    /\ UNCHANGED <<server, db, view, sessions, req, tab, started, failures, crashes>>

InsertTurn(t) ==
    /\ Up /\ turns[t].stage = "insert"
    /\ InsertRow(turns[t].lesson, [turn |-> t, seq |-> turns[t].seq])
    /\ Goes(t, "update")
    /\ UNCHANGED <<server, lock, sessions, req, tab, started, failures, crashes>>

UpdateLog(t) ==
    /\ Up /\ turns[t].stage = "update"
    /\ UpdateLesson(turns[t].lesson, turns[t].entries)
    /\ Goes(t, "commit")
    /\ UNCHANGED <<server, lock, sessions, req, tab, started, failures, crashes>>

CommitTurn(t) ==
    /\ Up /\ turns[t].stage = "commit" /\ Commits /\ Ends(t, "kept")
    /\ UNCHANGED <<server, sessions, req, tab, started, failures, crashes>>

\* A statement or the commit of persist_turn raises: the thread ends.
PersistRaises(t) ==
    /\ Up /\ lock = {t} /\ Raises /\ Ends(t, "raised")
    /\ UNCHANGED <<server, sessions, req, tab, started, crashes>>

-----------------------------------------------------------------------------

Request(c) ==
    \/ CreateSession(c)
    \/ \E s \in Subjects, op \in {"create", "start"} : StartLesson(c, op, s)
    \/ CommitRequest(c) \/ CreateForLesson(c)
    \/ \E id \in DOMAIN view.lessons : Resume(c, id)
    \/ SaveSession(c) \/ RegisterResumed(c) \/ RequestRaises(c)
    \/ \E s \in Subjects : SetSubject(c, s)
    \/ StartTurn(c)

Thread(t) ==
    \/ Leave(t) \/ Answer(t) \/ Check(t)
    \/ CountRows(t) \/ InsertTurn(t) \/ UpdateLog(t) \/ CommitTurn(t) \/ PersistRaises(t)

Next ==
    \/ Open \/ Opened \/ OpenFails \/ Crash
    \/ \E c \in Clients : Request(c)
    \/ \E t \in DOMAIN turns : Thread(t)

Spec == Init /\ [][Next]_vars

-----------------------------------------------------------------------------
(* Properties *)

Row == [turn : 1..MaxTurns, seq : Nat]
Log == Seq(1..MaxTurns)
LessonSet == [subject : Subjects, log : Log, whole : BOOLEAN]
IsStore(s) ==
    /\ s = [lessons |-> s.lessons, rows |-> s.rows]
    /\ DOMAIN s.lessons \subseteq 1..started /\ s.lessons \in [DOMAIN s.lessons -> LessonSet]
    /\ s.rows \in [Ids -> Seq(Row)]
SessionSet == [lesson : 0..MaxLessons, subject : Subjects \cup {NoSubject}, log : Log]
Requests == [op : {"none", "create", "start", "resume"},
             stage : {"none", "commit", "new_session", "save", "register"},
             lesson : 0..MaxLessons, session : Seq(SessionSet)]
TurnSet == [sid : Nat, opened : 0..MaxLessons, stale : BOOLEAN,
            stage : {"answering", "check", "count", "insert", "update", "commit", "over"},
            left : BOOLEAN, lesson : 0..MaxLessons, entries : Log, seq : Nat,
            outcome : {"none", "plain", "refused", "kept", "raised", "lost"}]

\* The shape of every variable; and the lock is held while a transaction is under way,
\* by the client or the turn that makes it.
TypeOK ==
    /\ server \in [phase : {"down", "opening", "fallback", "up"},
                   statement : 0..Len(Statements), attempt : 0..Retries]
    /\ IsStore(db) /\ IsStore(view) /\ started \in Ids
    /\ sessions \in Seq(SessionSet)
    /\ req \in [Clients -> Requests]
    /\ tab \in [Clients -> [sid : Nat, lesson : 0..MaxLessons, since : 0..crashes]]
    /\ turns \in Seq(TurnSet) /\ Len(turns) <= MaxTurns
    /\ lock = {} \/ \E holder \in Clients \cup DOMAIN turns : lock = {holder}
    /\ \A c \in Clients : lock = {c} <=> req[c].stage = "commit"
    /\ \A t \in DOMAIN turns : lock = {t} <=> turns[t].stage \in {"insert", "update", "commit"}
    /\ failures \in 0..MaxFailures /\ crashes \in 0..MaxCrashes

TurnsOf(rows) == {row.turn : row \in Range(rows)}

\* A turn whose persist_turn returned is on disk from then on, whatever raises or crashes
\* later, and the rows of a lesson are numbered as list_turns orders them, without a gap
\* or a repetition, when threads of several sessions write them.
KeptInOrder ==
    /\ \A t \in DOMAIN turns : turns[t].outcome = "kept" => t \in TurnsOf(db.rows[turns[t].lesson])
    /\ \A id \in Ids : \A i \in DOMAIN db.rows[id] : db.rows[id][i].seq = i - 1

\* A turn is stored in the lesson its window opened, unless the window is older than the
\* process: the session ids start at sess-1 again, and its id may be another lesson's.
OwnLesson ==
    \A id \in Ids : \A t \in TurnsOf(view.rows[id]) : turns[t].opened = id \/ turns[t].stale

\* No two sessions of a lesson, no session and a resume, no turn whose window has left.
Alone(id) ==
    /\ Cardinality({n \in DOMAIN sessions : sessions[n].lesson = id})
         + Cardinality({c \in Clients : req[c].op = "resume" /\ req[c].lesson = id}) < 2
    /\ \A t \in DOMAIN turns : turns[t].left => turns[t].lesson # id

\* The log of a lesson loses a turn only when two sessions of the lesson, one and a resume,
\* or a turn whose window has left and the next one overwrite each other's log, or when
\* SQLite rolls back to what is on disk.  A lesson that one window resumes after another,
\* or after a crash or a failure, keeps every turn.
LogKeepsTurns ==
    [][\A id \in DOMAIN view.lessons :
         Alone(id) /\ view' # db
           => Range(view.lessons[id].log) \subseteq Range(view'.lessons[id].log)]_vars

NewRows(id) == TurnsOf(db'.rows[id]) \ TurnsOf(db.rows[id])

\* A turn's row reaches the disk together with a log that has the turn, unless a statement
\* of that turn's persist_turn raised, or the lesson itself has been rolled back.
TurnComesWithLog ==
    [][\A id \in Ids : \A t \in NewRows(id) :
         \/ turns[t].outcome = "raised" \/ id \notin DOMAIN db'.lessons
         \/ t \in Range(db'.lessons[id].log)]_vars

=============================================================================
