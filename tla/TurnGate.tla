------------------------------- MODULE TurnGate -------------------------------
(***************************************************************************)
(* How turns of one session start, stream and end (tutor/app/routes.py,    *)
(* with the client tutor/ui/app.js): the registration of the running turn, *)
(* its thread, the generator that streams its frames, and Stop.            *)
(*                                                                         *)
(* A turn request runs on three actors: the request handler (the event     *)
(* loop), the turn thread, and the generator, iterated by the server for   *)
(* as long as the client stays connected.  The thread is run_turn with the *)
(* log abstracted away (TutorTurn has it): only where it looks at the      *)
(* cancel event is kept, and it may ask for tools for as long as it likes. *)
(* Other sessions have an entry of their own and share nothing here.       *)
(***************************************************************************)
EXTENDS Integers

CONSTANTS
    Turns,     \* the turn requests of the session
    NoTurn,    \* active_turns has no entry
    MaxFrames  \* bound: frames waiting in a turn's queue

ASSUME TurnGateAssumption == NoTurn \notin Turns /\ MaxFrames \in Nat

VARIABLES
    active,    \* active_turns[session_id]
    cancel,    \* each turn's cancel event
    thread,    \* where each turn's thread is
    stream,    \* the state of each turn's generator
    frames,    \* frames in each turn's queue
    sentinel,  \* whether the queue ends with _SENTINEL
    connected  \* whether the turn's client still reads its response

gateVars == <<active, cancel, thread, stream, frames, sentinel, connected>>

Running == {"search", "loop", "stream", "dispatch", "ending"}
ThreadStates == Running \cup {"none", "refused", "registered", "done"}
StreamStates == {"none", "unstarted", "waiting", "yielded", "closed", "dropped"}

GateInit ==
    /\ active = NoTurn
    /\ cancel = [t \in Turns |-> FALSE]
    /\ thread = [t \in Turns |-> "none"]
    /\ stream = [t \in Turns |-> "none"]
    /\ frames = [t \in Turns |-> 0]
    /\ sentinel = [t \in Turns |-> FALSE]
    /\ connected = [t \in Turns |-> FALSE]

-----------------------------------------------------------------------------
(* The request handler *)

\* The check-and-set under turns_lock; the cancel event is new.
Register(t) ==
    /\ thread[t] = "none"
    /\ active = NoTurn
    /\ active' = t
    /\ thread' = [thread EXCEPT ![t] = "registered"]
    /\ connected' = [connected EXCEPT ![t] = TRUE]
    /\ UNCHANGED <<cancel, stream, frames, sentinel>>

\* 409 "turn already in progress".
Refuse(t) ==
    /\ thread[t] = "none"
    /\ active # NoTurn
    /\ thread' = [thread EXCEPT ![t] = "refused"]
    /\ UNCHANGED <<active, cancel, stream, frames, sentinel, connected>>

\* The thread is started and the StreamingResponse returned.
Launch(t) ==
    /\ thread[t] = "registered"
    /\ thread' = [thread EXCEPT ![t] = "search"]
    /\ stream' = [stream EXCEPT ![t] = "unstarted"]
    /\ UNCHANGED <<active, cancel, frames, sentinel, connected>>

\* POST /stop sets the event of the turn that is registered, if one is.
Stop ==
    /\ active # NoTurn
    /\ cancel' = [cancel EXCEPT ![active] = TRUE]
    /\ UNCHANGED <<active, thread, stream, frames, sentinel, connected>>

-----------------------------------------------------------------------------
(* The turn thread *)

\* Mutant: the loop looks at an event that Stop does not set.
CancelSeenNever(t) == FALSE

CancelSeen(t) == cancel[t]

Goes(t, from, to) ==
    /\ thread[t] = from
    /\ thread' = [thread EXCEPT ![t] = to]
    /\ UNCHANGED <<active, cancel, stream, frames, sentinel, connected>>

\* Pre-search and forced rounds do not look at the event; a reply by the host, or an
\* exception, ends the turn right after them.
Search(t) == Goes(t, "search", "loop") \/ Goes(t, "search", "ending")

\* The head of the loop, before each request to the model.
LoopHead(t) == IF CancelSeen(t) THEN Goes(t, "loop", "ending") ELSE Goes(t, "loop", "stream")

\* The model answers, fails, or is cut off by Stop; unless it asks for tools.
ModelReplies(t) ==
    \/ Goes(t, "stream", "ending")
    \/ ~CancelSeen(t) /\ Goes(t, "stream", "dispatch")

\* The calls are dispatched, or given up on Stop.
DispatchCalls(t) ==
    \/ CancelSeen(t) /\ Goes(t, "dispatch", "ending")
    \/ ~CancelSeen(t) /\ Goes(t, "dispatch", "loop")

\* Mutant: the sentinel is not put when turn_runner raises.
FinishSilently(t) == Goes(t, "ending", "done")

\* The result is reported and persisted; run's finally puts the sentinel.
Finish(t) ==
    /\ thread[t] = "ending"
    /\ thread' = [thread EXCEPT ![t] = "done"]
    /\ sentinel' = [sentinel EXCEPT ![t] = TRUE]
    /\ UNCHANGED <<active, cancel, stream, frames, connected>>

\* Status lines, tokens, tool events, the result: put at any time by a running turn.
Emit(t) ==
    /\ thread[t] \in Running
    /\ frames[t] < MaxFrames
    /\ frames' = [frames EXCEPT ![t] = @ + 1]
    /\ UNCHANGED <<active, cancel, thread, stream, sentinel, connected>>

-----------------------------------------------------------------------------
(* The generator, and the server that iterates it *)

\* The generator's finally: the entry goes if it is this turn's.
Close(t) ==
    /\ stream' = [stream EXCEPT ![t] = "closed"]
    /\ active' = IF active = t THEN NoTurn ELSE active

StartStream(t) ==
    /\ stream[t] = "unstarted"
    /\ stream' = [stream EXCEPT ![t] = "waiting"]
    /\ UNCHANGED <<active, cancel, thread, frames, sentinel, connected>>

\* frame_queue.get() returns a frame, which is yielded.
Yield(t) ==
    /\ stream[t] = "waiting" /\ frames[t] > 0
    /\ frames' = [frames EXCEPT ![t] = @ - 1]
    /\ stream' = [stream EXCEPT ![t] = "yielded"]
    /\ UNCHANGED <<active, cancel, thread, sentinel, connected>>

\* The frame was sent, and the server asks for the next.
Continue(t) ==
    /\ stream[t] = "yielded"
    /\ stream' = [stream EXCEPT ![t] = "waiting"]
    /\ UNCHANGED <<active, cancel, thread, frames, sentinel, connected>>

\* Mutant: an empty queue ends the stream.
EndStreamOnEmpty(t) ==
    /\ stream[t] = "waiting" /\ frames[t] = 0
    /\ Close(t)
    /\ UNCHANGED <<cancel, thread, frames, sentinel, connected>>

\* The sentinel ends the stream.
EndStream(t) ==
    /\ stream[t] = "waiting" /\ frames[t] = 0 /\ sentinel[t]
    /\ Close(t)
    /\ UNCHANGED <<cancel, thread, frames, sentinel, connected>>

\* Sending to a client that has left fails: the server drops the generator, which
\* is closed where it is suspended.  The turn thread is not told.
CloseAtYield(t) ==
    /\ stream[t] = "yielded" /\ ~connected[t]
    /\ Close(t)
    /\ UNCHANGED <<cancel, thread, frames, sentinel, connected>>

\* Dropped before its first step a generator runs nothing, its finally included.
DropUnstarted(t) ==
    /\ stream[t] = "unstarted" /\ ~connected[t]
    /\ stream' = [stream EXCEPT ![t] = "dropped"]
    /\ UNCHANGED <<active, cancel, thread, frames, sentinel, connected>>

\* The client closes the page, loses the network, or aborts the request: the Stop
\* button does so right after its POST.
Leave(t) ==
    /\ connected[t] /\ stream[t] # "closed"
    /\ connected' = [connected EXCEPT ![t] = FALSE]
    /\ UNCHANGED <<active, cancel, thread, stream, frames, sentinel>>

-----------------------------------------------------------------------------

Handle(t) == Register(t) \/ Refuse(t) \/ Launch(t)
ThreadStep(t) ==
    \/ Search(t) \/ LoopHead(t) \/ ModelReplies(t) \/ DispatchCalls(t) \/ Finish(t)
StreamStep(t) ==
    \/ StartStream(t) \/ Yield(t) \/ Continue(t) \/ EndStream(t) \/ CloseAtYield(t)
    \/ DropUnstarted(t)

GateNext ==
    \/ \E t \in Turns :
          Handle(t) \/ ThreadStep(t) \/ Emit(t) \/ StreamStep(t) \/ Leave(t)
    \/ Stop

GateSpec == GateInit /\ [][GateNext]_gateVars

\* The handler returns, the server keeps iterating a response that has not been dropped,
\* and a stopped thread keeps running: retrieval and calculations have deadlines, and a
\* request to the model looks at the event.  A silent model holds any other thread.
GateFairness ==
    \A t \in Turns :
        /\ WF_gateVars(Launch(t)) /\ WF_gateVars(StreamStep(t))
        /\ WF_gateVars(cancel[t] /\ ThreadStep(t))

GateLiveSpec == GateSpec /\ GateFairness

-----------------------------------------------------------------------------
(* Properties *)

GateTypeOK ==
    /\ active \in Turns \cup {NoTurn}
    /\ cancel \in [Turns -> BOOLEAN]
    /\ thread \in [Turns -> ThreadStates]
    /\ stream \in [Turns -> StreamStates]
    /\ frames \in [Turns -> Nat]
    /\ sentinel \in [Turns -> BOOLEAN]
    /\ connected \in [Turns -> BOOLEAN]

Live(t) == thread[t] \in Running \cup {"registered"}

\* Stop reaches every turn whose student is still there: a live turn with a
\* connected client is the registered one.
StopReachesConnected == \A t \in Turns : Live(t) /\ connected[t] => active = t

\* A stopped turn ends, though the model may ask for tools without end and its
\* client may be gone.
StopEndsTurn == \A t \in Turns : cancel[t] ~> thread[t] = "done"

\* When a turn is over its session is free for the next one, wherever its client
\* left, except before the response had begun: that entry stays for ever.
SessionFreed ==
    \A t \in Turns : thread[t] = "done" ~> (active # t \/ stream[t] = "dropped")

-----------------------------------------------------------------------------
(* What the code says of itself, and does not ensure *)

\* active_turns holds "the turn currently running, if any": one at a time.
OneTurnAtATime == \A t, u \in Turns : Live(t) /\ Live(u) => t = u

=============================================================================
