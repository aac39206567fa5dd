------------------------------ MODULE ChatWindow ------------------------------
(***************************************************************************)
(* A browser window and what it hears of its turns: sendTurn, handleFrame, *)
(* the session, Stop and Retry of tutor/ui/app.js, against the route and   *)
(* the frames a turn sends (tutor/app/routes.py, _make_turn_runner in      *)
(* tutor/app/compose.py).                                                  *)
(*                                                                         *)
(* JavaScript runs one handler at a time, up to its next await: an action  *)
(* is a handler, or what follows an await.  A request may be lost, or its  *)
(* answer; the server may restart.  The thread and the generator of a turn *)
(* are TurnGate's: here a turn is the frames it has still to send.         *)
(***************************************************************************)
EXTENDS Naturals, Sequences, FiniteSets

CONSTANTS
    MaxSends,    \* bound: messages sent, retries included
    MaxEarly,    \* bound: callers that wait for a session at once
    MaxTroubles  \* bound: clicks on Stop and restarts of the server, together

ASSUME ChatWindowAssumption == {MaxSends, MaxEarly, MaxTroubles} \subseteq Nat

VARIABLES
    page,     \* sessionId, the busy controls, currentAbortController, the last events
    asks,     \* whether another than a message waits for a session: the load, the subject
    sends,    \* the calls of sendTurn, each with its bubble and its turn
    created,  \* sessions the server has created: the last id given out
    stop,     \* the Stop that is under way
    troubles  \* clicks on Stop and restarts of the server so far

vars == <<page, asks, sends, created, stop, troubles>>

None == 0
NoStop == [at |-> "none", sid |-> None]

\* A call of sendTurn.  bubble: "told" once an answer, a note or an error stands in its
\* place; marks: the turns whose citations and attributions its answer shows; at: how far
\* its turn has come; alone: whether no other call was open with it.
NewSend ==
    [stage |-> "session", sid |-> None, bubble |-> "none", marks |-> {}, alone |-> TRUE,
     at |-> "none", open |-> FALSE, cancel |-> FALSE]

\* A call that has returned: only its bubble remains, and what the server has not done
\* with its request.
Left(send, bubble) ==
    IF send.open \/ send.at = "none"
      THEN [NewSend EXCEPT !.stage = "over", !.bubble = bubble,
                           !.sid = send.sid, !.at = send.at, !.open = send.open]
      ELSE [NewSend EXCEPT !.stage = "over", !.bubble = bubble, !.at = "over"]

Open(send) == send.stage \in {"posting", "reading"}

Init ==
    /\ page = [session |-> None, twice |-> FALSE, busy |-> FALSE, controller |-> None,
               cited |-> None, attributed |-> None]
    /\ asks = TRUE /\ sends = <<>>
    /\ created = 0 /\ stop = NoStop /\ troubles = 0

-----------------------------------------------------------------------------
(* Sending a message *)

\* The page once a session has been created: the last answer names it.
Joined(sid) == [page EXCEPT !.session = sid, !.twice = @ \/ page.session # None]

\* The calls once one of them has made its request.
Posted(i, sid, from) ==
    [j \in DOMAIN from |->
        IF j = i
          THEN [from[i] EXCEPT !.stage = "posting", !.sid = sid, !.bubble = "working",
                               !.alone = \A k \in DOMAIN from : ~Open(from[k])]
          ELSE [from[j] EXCEPT !.alone = @ /\ ~Open(from[j])]]

\* Mutant: the citations of the last answer are not forgotten.
BeginKeepsMarks(i, sid, given, from) ==
    /\ page' = [given EXCEPT !.busy = TRUE, !.controller = i]
    /\ sends' = Posted(i, sid, from)

\* What follows `await ensureSession()`, up to the request.
Begin(i, sid, given, from) ==
    /\ page' = [given EXCEPT !.busy = TRUE, !.controller = i, !.cited = None, !.attributed = None]
    /\ sends' = Posted(i, sid, from)

Waiting == Cardinality({i \in DOMAIN sends : sends[i].stage = "session"})
             + (IF asks THEN 1 ELSE 0)

\* A known session is there at once.
SendTurn(from) ==
    /\ Len(sends) < MaxSends
    /\ page.session = None => Waiting < MaxEarly
    /\ IF page.session = None
         THEN sends' = Append(from, NewSend) /\ UNCHANGED page
         ELSE Begin(Len(sends) + 1, page.session, page, Append(from, NewSend))
    /\ UNCHANGED <<asks, created, stop, troubles>>

\* The composer and the action buttons are off while the window is busy.
Submit == ~page.busy /\ SendTurn(sends)

\* Retry is not; its click takes the bubble with it.
Retry(i) ==
    /\ sends[i].bubble = "retry"
    /\ SendTurn([sends EXCEPT ![i].bubble = "told"])

\* The subject needs a session; with one, its POST changes nothing here.
ChangeSubject ==
    /\ page.session = None /\ ~asks /\ Waiting < MaxEarly
    /\ asks' = TRUE
    /\ UNCHANGED <<page, sends, created, stop, troubles>>

\* POST /api/session is answered: every caller that found none has asked for one.
SessionCreated ==
    /\ created' = created + 1
    /\ \/ /\ asks /\ asks' = FALSE
          /\ page' = Joined(created')
          /\ UNCHANGED sends
       \/ \E i \in DOMAIN sends : /\ sends[i].stage = "session"
                                  /\ Begin(i, created', Joined(created'), sends)
                                  /\ UNCHANGED asks
    /\ UNCHANGED <<stop, troubles>>

\* It is not: nothing catches the error, and the message is not sent.
SessionFails ==
    /\ \/ asks /\ asks' = FALSE /\ UNCHANGED sends
       \/ \E i \in DOMAIN sends : /\ sends[i].stage = "session"
                                  /\ sends' = [sends EXCEPT ![i].stage = "over"]
                                  /\ UNCHANGED asks
    /\ UNCHANGED <<page, created, stop, troubles>>

-----------------------------------------------------------------------------
(* Frames.  One is heard when it is sent: what is on its way when a        *)
(* connection breaks is as if the turn had not come so far.                *)

\* The page after a frame: the last events are the window's, not the turn's.
Noted(i, frame) ==
    [page EXCEPT !.cited = IF frame = "citations" THEN i ELSE @,
                 !.attributed = IF frame = "attributions" THEN i ELSE @]

\* The turns whose citations and attributions the answer shows after a frame: it is
\* rendered anew from both, and its last notes are made from the attributions.
Shown(i, frame) ==
    CASE frame \in {"citations", "attributions"} ->
           {Noted(i, frame).cited, Noted(i, frame).attributed} \ {None}
      [] frame = "done" -> sends[i].marks \cup ({page.attributed} \ {None})
      [] OTHER -> sends[i].marks

\* Mutant: the last frame, not the end of the stream, frees the window.
HandleFrameFrees(i, frame, at) ==
    /\ sends[i].stage = "reading"
    /\ sends' = [sends EXCEPT ![i].at = at,
                              ![i].bubble = "told",
                              ![i].marks = Shown(i, frame)]
    /\ page' = [Noted(i, frame) EXCEPT !.busy = @ /\ frame # "done"]

\* handleFrame: any frame but a status or a tool frame takes the working bubble away: an
\* eviction before any text too, and an error, which so never offers Retry.
HandleFrame(i, frame, at) ==
    /\ sends[i].stage = "reading"
    /\ sends' = [sends EXCEPT ![i].at = at,
                              ![i].bubble = "told",
                              ![i].marks = Shown(i, frame)]
    /\ page' = Noted(i, frame)

-----------------------------------------------------------------------------
(* The server *)

\* POST .../turn: 404 for an unknown session, 409 for one with an open turn.
Accept(i) ==
    /\ sends[i].at = "none" /\ sends[i].sid # None
    /\ sends' =
         IF /\ sends[i].sid <= created
            /\ \A j \in DOMAIN sends : sends[j].open => sends[j].sid # sends[i].sid
           THEN [sends EXCEPT ![i].at = "started", ![i].open = TRUE]
           ELSE [sends EXCEPT ![i] = IF Open(@) THEN [@ EXCEPT !.at = "refused"]
                                     ELSE Left([@ EXCEPT !.at = "refused"], @.bubble)]
    /\ UNCHANGED <<page, asks, created, stop, troubles>>

\* run_turn: its status and tool frames change the status line only; an eviction comes
\* before the request for the answer, then the answer's tokens.
RunTurn(i) ==
    /\ sends[i].at = "started"
    /\ \E frame \in {"eviction", "token"} : HandleFrame(i, frame, "answered")

\* What turn_runner makes of its result: an answer, which may be empty, one that is
\* declined, a stopped turn, an error; and of an exception.  Attribution that fails is
\* left out.
Report(i) ==
    LET at == sends[i].at IN
    \/ at \in {"started", "answered"} /\ HandleFrame(i, "citations", "cited")
    \/ at = "cited" /\ HandleFrame(i, "attributions", "checked")
    \/ at \in {"answered", "cited", "checked"} /\ HandleFrame(i, "done", "told")
    \/ at \in {"started", "answered"} /\ sends[i].cancel /\ HandleFrame(i, "done", "told")
    \/ at \in {"started", "answered"} /\ HandleFrame(i, "error", "told")

\* The sentinel ends the generator, which frees the session.
StreamEnds(i) ==
    /\ Open(sends[i]) /\ sends[i].at = "told"
    /\ sends' = [sends EXCEPT ![i].at = "over", ![i].open = FALSE] /\ UNCHANGED page

\* So does a client that has gone; the thread goes on unheard.
ClientGone(i) ==
    /\ sends[i].open /\ ~Open(sends[i])
    /\ sends' = [sends EXCEPT ![i] = Left([@ EXCEPT !.at = "over", !.open = FALSE], @.bubble)]
    /\ UNCHANGED page

Serve(i) ==
    /\ RunTurn(i) \/ Report(i) \/ StreamEnds(i) \/ ClientGone(i)
    /\ UNCHANGED <<asks, created, stop, troubles>>

\* The threads are gone, and the sessions; their ids start again.
Restart ==
    /\ troubles < MaxTroubles /\ troubles' = troubles + 1
    /\ created' = 0
    /\ sends' = [i \in DOMAIN sends |->
                   IF sends[i].at \in {"none", "refused", "over"} THEN sends[i]
                   ELSE IF Open(sends[i]) THEN [sends[i] EXCEPT !.at = "lost", !.open = FALSE]
                   ELSE Left([sends[i] EXCEPT !.at = "lost", !.open = FALSE], sends[i].bubble)]
    /\ UNCHANGED <<page, asks, stop>>

-----------------------------------------------------------------------------
(* The answer in the window *)

\* `finally`, whichever call's it is.
Freed == [page EXCEPT !.busy = FALSE, !.controller = None]

Ends(i, bubble) ==
    /\ sends' = [sends EXCEPT ![i] = Left(@, bubble)]
    /\ page' = Freed

\* The response begins; a refused one can be retried.
Respond(i) ==
    /\ sends[i].stage = "posting" /\ sends[i].at \notin {"none", "lost"}
    /\ IF sends[i].at = "refused" THEN Ends(i, "retry")
       ELSE sends' = [sends EXCEPT ![i].stage = "reading"] /\ UNCHANGED page

ReadEnd(i) ==
    /\ sends[i].stage = "reading" /\ sends[i].at = "over"
    /\ Ends(i, sends[i].bubble)

\* Mutant: an error of the stream is swallowed.
BreaksQuietly(i) == Open(sends[i]) /\ Ends(i, sends[i].bubble)

\* The request or the stream fails, or is aborted: before any text it can be retried.
Breaks(i) ==
    /\ Open(sends[i])
    /\ Ends(i, IF sends[i].bubble = "working" THEN "retry" ELSE sends[i].bubble)

\* Over a connection that holds, or whose server is gone.
Read(i) ==
    /\ \/ Respond(i) \/ ReadEnd(i)
       \/ sends[i].at = "lost" /\ Breaks(i)
    /\ UNCHANGED <<asks, created, stop, troubles>>

\* Any connection may break.
Drops(i) == Breaks(i) /\ UNCHANGED <<asks, created, stop, troubles>>

-----------------------------------------------------------------------------
(* Stop *)

\* The button is on while the window is busy.  One Stop at a time (a bound).
ClickStop ==
    /\ page.busy /\ page.session # None
    /\ stop = NoStop /\ troubles < MaxTroubles
    /\ stop' = [at |-> "sent", sid |-> page.session] /\ troubles' = troubles + 1
    /\ UNCHANGED <<page, asks, sends, created>>

StopArrives ==
    /\ stop.at = "sent" /\ stop' = [stop EXCEPT !.at = "set"]
    /\ sends' = [i \in DOMAIN sends |->
         [sends[i] EXCEPT !.cancel = @ \/ (sends[i].open /\ sends[i].sid = stop.sid)]]
    /\ UNCHANGED <<page, asks, created, troubles>>

\* What the click aborts is the request that is under way when Stop is answered.
StopAnswered ==
    /\ stop.at = "set" /\ stop' = NoStop
    /\ IF page.controller = None THEN UNCHANGED <<page, sends>>
       ELSE Breaks(page.controller)
    /\ UNCHANGED <<asks, created, troubles>>

StopFails ==
    /\ stop # NoStop /\ stop' = NoStop
    /\ UNCHANGED <<page, asks, sends, created, troubles>>

-----------------------------------------------------------------------------

Next ==
    \/ Submit \/ ChangeSubject \/ SessionCreated \/ SessionFails
    \/ \E i \in DOMAIN sends : Retry(i) \/ Accept(i) \/ Serve(i) \/ Read(i) \/ Drops(i)
    \/ Restart
    \/ ClickStop \/ StopArrives \/ StopAnswered \/ StopFails

Spec == Init /\ [][Next]_vars

\* A turn with the model: a silent stream is polled for ever, and rounds of tool calls
\* are not bounded.  Nothing but Stop ends it for sure.
WithModel(send) == send.at \in {"started", "answered"} /\ ~send.cancel

\* Requests are answered or fail, a turn that has been stopped or has its result goes on,
\* and its stream is read; what the student does, how long the model takes, and when the
\* network or the server fails, is left open.
Fairness ==
    /\ WF_vars(SessionCreated \/ SessionFails)
    /\ WF_vars(StopArrives) /\ WF_vars(StopAnswered \/ StopFails)
    /\ \A i \in 1..MaxSends :
         /\ WF_vars(i \in DOMAIN sends /\ Open(sends[i]) /\ Accept(i))
         /\ WF_vars(i \in DOMAIN sends /\ Open(sends[i]) /\ ~WithModel(sends[i]) /\ Serve(i))
         /\ WF_vars(i \in DOMAIN sends /\ Read(i))

LiveSpec == Spec /\ Fairness

-----------------------------------------------------------------------------
(* Properties *)

TypeOK ==
    /\ page.session \in Nat /\ page.controller \in 0..Len(sends)
    /\ page.cited \in 0..Len(sends) /\ page.attributed \in 0..Len(sends)
    /\ asks \in BOOLEAN /\ Len(sends) <= MaxSends
    /\ \A i \in DOMAIN sends :
         /\ sends[i].stage \in {"session", "posting", "reading", "over"}
         /\ sends[i].bubble \in {"none", "working", "told", "retry"}
         /\ sends[i].marks \subseteq DOMAIN sends
    /\ stop.at \in {"none", "sent", "set"}
    /\ created \in Nat /\ troubles \in 0..MaxTroubles

\* A turn that streams can be stopped: the button is on, its request is what a click would
\* abort, and its session is the one that would be told; unless two calls overlapped (a
\* Retry beside a turn, two messages before there was a session) or two sessions were made.
StopReachesTurn ==
    \A i \in DOMAIN sends :
        Open(sends[i]) /\ sends[i].alone =>
            /\ page.busy /\ page.controller = i
            /\ page.session = sends[i].sid \/ page.twice

\* An answer shows the citations and attributions of its own turn, although the window
\* keeps the last events for all turns; unless two calls overlapped.
MarksAreOwn == \A i \in DOMAIN sends : sends[i].alone => sends[i].marks \subseteq {i}

\* Every message that was posted ended with an answer or an error, or its turn is with the
\* model and has not been stopped; only such a turn keeps the window busy.
Told ==
    /\ page.busy => \E i \in DOMAIN sends : Open(sends[i]) /\ WithModel(sends[i])
    /\ \A i \in DOMAIN sends :
         \/ Open(sends[i]) /\ WithModel(sends[i])
         \/ /\ ~Open(sends[i])
            /\ sends[i].sid # None => sends[i].bubble \in {"told", "retry"}

\* A message that was posted ends with an answer or an error in place of its working
\* bubble, and the window can be used again, whatever was lost or refused, and though its
\* Stop may reach the turn and not be answered; unless the model keeps the turn, and Stop
\* does not reach it.
SendsEnd == []<>Told

=============================================================================
