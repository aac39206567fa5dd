----------------------------- MODULE AnswerRound -----------------------------
(***************************************************************************)
(* What run_turn (tutor/app/agent_loop.py) waits for: the completions it   *)
(* streams from the model server, one after the other, and the child       *)
(* processes of the calculator.  It composes LlamaStream, RepetitionGuard  *)
(* and Calculator; TutorTurn has the log these rounds write to.            *)
(*                                                                         *)
(* A turn is a forced research call, perhaps asked for again in another    *)
(* form, then rounds of an answer request and the tool calls it returns,   *)
(* until a request returns no call.  Stop may come at any moment.          *)
(***************************************************************************)
EXTENDS LlamaStream, RepetitionGuard, Calculator

CONSTANTS
    CalcCap,  \* CALC_CAP
    Preamble  \* bound: units of a completion that calls a tool or is no answer

ASSUME AnswerRoundAssumption ==
    /\ {CalcCap, Preamble} \subseteq Nat
    /\ \A u \in Units : u.long \in BOOLEAN

VARIABLES
    pc,       \* where the turn thread is
    cancel,   \* the turn's cancel event
    guard,    \* guard_cancel
    text,     \* answer_text_parts
    kept,     \* units of trimmed_answer_text, 0 when the guard has not fired
    todo,     \* tool calls not dispatched yet, "cut" or "whole"
    spent,    \* calc_calls
    answer,   \* the answer of the last turn, with its text and the one sent
    status    \* TurnResult.status of the last turn

turnVars == <<pc, cancel, guard, text, kept, todo, spent, answer, status>>
vars == <<turnVars, streamVars, calcVars>>

Streaming == {"forced", "fallback", "answer"}

NoAnswer == [shown |-> <<>>, sent |-> <<>>, complete |-> FALSE, trimmed |-> FALSE]

Init ==
    /\ pc = "over" /\ cancel = FALSE /\ guard = FALSE
    /\ text = <<>> /\ kept = 0 /\ todo = <<>> /\ spent = 0
    /\ answer = NoAnswer /\ status = "none"
    /\ conn = "closed" /\ NoStream
    /\ CalcInit

-----------------------------------------------------------------------------
(* The turn's requests *)

\* A turn starts with a fresh cancel event; a control button skips the research.
StartTurn ==
    /\ pc = "over"
    /\ pc' \in {"forced", "loop"}
    /\ cancel' = FALSE /\ spent' = 0 /\ answer' = NoAnswer /\ status' = "none"
    /\ UNCHANGED <<guard, text, kept, todo, streamVars, calcVars>>

\* The turn is over: what it leaves is its status and its answer.
TurnOver(how, a) ==
    /\ pc' = "over" /\ status' = how /\ answer' = a
    /\ guard' = FALSE /\ text' = <<>> /\ kept' = 0 /\ todo' = <<>> /\ spent' = 0
    /\ UNCHANGED cancel

\* The head of the answer loop is where Stop is looked at between two requests.
LoopCancelled ==
    /\ pc = "loop" /\ cancel
    /\ TurnOver("cancelled", NoAnswer)
    /\ UNCHANGED <<streamVars, calcVars>>

AnswerRequest ==
    /\ pc = "loop" /\ ~cancel
    /\ pc' = "answer"
    /\ UNCHANGED <<cancel, guard, text, kept, todo, spent, answer, status, calcVars>>
    /\ Asks

\* The forced call and its fallback do not look at Stop before they ask.
ForcedRequest ==
    /\ pc \in {"forced", "fallback"}
    /\ Asks
    /\ UNCHANGED <<turnVars, calcVars>>

\* A server that refuses the forced tool choice is asked for constrained text
\* instead; refusing that as well leaves no call.  The answer's refusal is the turn's.
RequestRefused ==
    /\ pc \in Streaming
    /\ Refused
    /\ IF pc = "answer" THEN TurnOver("error", NoAnswer)
       ELSE /\ pc' = IF pc = "forced" THEN "fallback" ELSE "loop"
            /\ UNCHANGED <<cancel, guard, text, kept, todo, spent, answer, status>>
    /\ UNCHANGED calcVars

RequestAccepted ==
    /\ pc \in Streaming
    /\ Accepted
    /\ UNCHANGED <<turnVars, calcVars>>

-----------------------------------------------------------------------------
(* The stream's events *)

\* Mutant: the guard's event is not part of what the stream polls.
StreamCancelledByUser == cancel

\* _UnionCancel: what the stream polls is either event.
StreamCancelled == cancel \/ guard

\* A unit of text, which only the answer keeps: the guard looks at the text so far
\* after each of its events.
TextEvent ==
    /\ pc \in Streaming /\ conn = "open" /\ ~StreamCancelled
    /\ \E f \in Range(held) :
          /\ f.kind = "text" /\ Takes(f)
          /\ IF pc = "answer"
             THEN /\ text' = Append(text, f.unit)
                  /\ kept' = KeptOf(text')
                  /\ guard' = (kept' > 0)
             ELSE UNCHANGED <<text, kept, guard>>
    /\ UNCHANGED <<conn, pc, cancel, todo, spent, answer, status, calcVars>>

\* A fragment of a call or the finish reason.
FrameTaken ==
    /\ pc \in Streaming /\ conn = "open" /\ ~StreamCancelled
    /\ \E f \in Range(held) : f.kind \in {"call", "args", "finish"} /\ Takes(f)
    /\ UNCHANGED <<conn, turnVars, calcVars>>

BufferFilled ==
    /\ pc \in Streaming /\ ~StreamCancelled
    /\ Fills
    /\ UNCHANGED <<turnVars, calcVars>>

\* What the turn makes of an answer request that ended with this finish reason: Stop,
\* unless it is the guard that stopped the stream; the answer; or calls to dispatch.
AnswerEnds(reason) ==
    LET shown == IF kept > 0 THEN SubSeq(text, 1, kept) ELSE text
    IN  IF reason = "cancelled" /\ cancel THEN TurnOver("cancelled", NoAnswer)
        ELSE IF calls = <<>>
        THEN TurnOver("ok", [shown |-> shown, sent |-> said, trimmed |-> kept > 0,
                             complete |-> phase = "done" /\ ~broken /\ ~cancel])
        ELSE /\ pc' = "dispatch" /\ todo' = calls
             /\ guard' = FALSE /\ text' = <<>> /\ kept' = 0
             /\ UNCHANGED <<cancel, spent, answer, status>>

\* The connection is closed whatever the reason.
StreamOver(reason) ==
    /\ conn' = "closed" /\ ResetStream
    /\ UNCHANGED calcVars
    /\ IF pc = "answer" THEN AnswerEnds(reason)
       ELSE pc' = "loop" /\ UNCHANGED <<cancel, guard, text, kept, todo, spent, answer, status>>

StreamStopped ==
    /\ pc \in Streaming /\ conn = "open" /\ StreamCancelled
    /\ StreamOver("cancelled")

\* [DONE] is the last frame looked at, whatever the socket still has.
StreamDone ==
    /\ pc \in Streaming /\ conn = "open" /\ ~StreamCancelled
    /\ held # <<>> /\ Readable /\ Head(held).kind = "done"
    /\ StreamOver(FinalReason)

StreamCut ==
    /\ pc \in Streaming /\ AtEnd /\ ~StreamCancelled
    /\ StreamOver(FinalReason)

\* The end of a chunked response that is not complete is an exception the client does
\* not catch: it ends the turn.  (AtEnd in StreamCut is an error of the socket, or a
\* response that is not chunked.)
StreamRaises ==
    /\ pc \in Streaming /\ AtEnd /\ broken /\ ~StreamCancelled
    /\ conn' = "closed" /\ ResetStream
    /\ TurnOver("error", NoAnswer)
    /\ UNCHANGED calcVars

-----------------------------------------------------------------------------
(* The dispatch of tool calls *)

EndCall ==
    /\ todo' = Tail(todo)
    /\ pc' = IF todo' = <<>> THEN "loop" ELSE "dispatch"
    /\ UNCHANGED <<cancel, guard, text, kept, answer, status, streamVars>>

\* Stop: the calls left get their "turn cancelled" results and the turn is over.
DispatchCancelled ==
    /\ pc = "dispatch" /\ cancel
    /\ TurnOver("cancelled", NoAnswer)
    /\ UNCHANGED <<streamVars, calcVars>>

\* A call that is invalid, as one that was cut is, or past its cap, or a search.
DispatchOther ==
    /\ pc = "dispatch" /\ ~cancel
    /\ EndCall
    /\ UNCHANGED <<spent, calcVars>>

DispatchCalc ==
    /\ pc = "dispatch" /\ ~cancel /\ Head(todo) = "whole" /\ spent < CalcCap
    /\ \/ CalcStarts /\ pc' = "calculate" /\ UNCHANGED <<todo, spent, cancel, guard, text,
                                                        kept, answer, status, streamVars>>
       \/ CalcRefuses /\ spent' = spent + 1 /\ EndCall

\* evaluate runs on the turn thread, which sees nothing else until it returns.
Calculating ==
    /\ pc = "calculate"
    /\ CalcParent
    /\ UNCHANGED <<turnVars, streamVars>>

CalcReturns ==
    /\ pc = "calculate" /\ calcPc = "idle"
    /\ spent' = spent + 1
    /\ EndCall
    /\ UNCHANGED calcVars

-----------------------------------------------------------------------------

Stop ==
    /\ pc # "over" /\ ~cancel
    /\ cancel' = TRUE
    /\ UNCHANGED <<pc, guard, text, kept, todo, spent, answer, status, streamVars, calcVars>>

ServerStep ==
    /\ ServerSteps
    /\ pc # "answer" \/ opened' > 0 => Len(said') <= Preamble
    /\ UNCHANGED <<turnVars, calcVars>>
ClockStep == Deadline /\ UNCHANGED <<turnVars, streamVars>>
ChildStep == CalcChild /\ UNCHANGED <<turnVars, streamVars>>

TurnStep ==
    \/ LoopCancelled \/ AnswerRequest \/ ForcedRequest
    \/ RequestRefused \/ RequestAccepted
    \/ TextEvent \/ FrameTaken \/ BufferFilled
    \/ StreamStopped \/ StreamDone \/ StreamCut \/ StreamRaises
    \/ DispatchCancelled \/ DispatchOther \/ DispatchCalc
    \/ Calculating \/ CalcReturns

Next == StartTurn \/ TurnStep \/ Stop \/ ServerStep \/ ClockStep \/ ChildStep

\* The turn thread has nothing to do: no turn, a stream that is silent, or a child
\* that has not answered.
Waiting ==
    \/ pc = "over"
    \/ conn = "open" /\ ~StreamCancelled /\ ~Readable
    \/ calcPc = "poll" /\ ~late

\* The turn thread is scheduled (it takes a step unless it waits) and the timers run.
\* The student, the model server and the child process owe nothing.
Fairness ==
    /\ []<>Waiting \/ []<><<TurnStep>>_vars
    /\ []<>(late \/ calcPc = "idle") \/ []<><<ClockStep>>_vars

Spec == Init /\ [][Next]_vars /\ Fairness

-----------------------------------------------------------------------------
(* Properties *)

\* Types: what run_turn's variables, the stream and the calculator hold.
TypeOK ==
    /\ pc \in Streaming \cup {"over", "loop", "dispatch", "calculate"}
    /\ cancel \in BOOLEAN /\ guard \in BOOLEAN
    /\ text \in Seq(Units) /\ kept \in 0..Len(text)
    /\ todo \in Seq({"cut", "whole"}) /\ spent \in Nat
    /\ answer \in [shown : Seq(Units), sent : Seq(Units), complete : BOOLEAN,
                   trimmed : BOOLEAN]
    /\ status \in {"none", "ok", "cancelled", "error"}
    /\ StreamTypeOK /\ CalcTypeOK

\* A unit that is said MinRepeats times in a row, or a cycle that goes round
\* MinPeriods times, anywhere in the text.
LoopsIn(t) ==
    \E period \in {1} \cup Periods : \E first \in DOMAIN t :
        LET end == first + period * (IF period = 1 THEN MinRepeats ELSE MinPeriods) - 1
        IN  /\ end \in DOMAIN t
            /\ \A i \in first..(end - period) : Repeats(t, i, i + period)

\* No answer that a turn ends with has a loop in it, at its end or anywhere else: the
\* guard fires before the loop is in the answer, and what it trims leaves none.
LoopFree == ~LoopsIn(answer.shown)

\* An answer whose stream the server completed, that neither Stop nor the guard cut, is
\* all that the server sent: nothing is left in the socket or in the buffer.
WholeAnswer == answer.complete /\ ~answer.trimmed => answer.shown = answer.sent

\* No child process outlives the evaluation it was started for, and there is never
\* more than one: whichever way evaluate returns, and however late the child is.
NoOrphan == calcPc = "idle" => child \notin Alive

\* Stop ends the turn, wherever it is: in a request that is never answered, a stream
\* that has fallen silent or a calculation that hangs.  And a stream whose server has
\* hung up, or whose text has become a loop, ends without it.
StopEnds ==
    /\ cancel ~> pc = "over"
    /\ (conn = "open" /\ (hungup \/ guard)) ~> conn = "closed"

=============================================================================
