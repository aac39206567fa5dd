----------------------------- MODULE LlamaStream -----------------------------
(***************************************************************************)
(* One streamed completion: LlamaClient.stream_chat and _consume_stream    *)
(* (tutor/app/llm_client.py), and the model server at the other end.       *)
(*                                                                         *)
(* The server sends frames: a unit of text, the two fragments of a tool    *)
(* call, the finish reason, [DONE].  It may refuse the request, fall       *)
(* silent, or lose the connection.  The client waits for the raw socket    *)
(* to become readable but reads from a buffered response: what the last    *)
(* read pulled out of the socket is only looked at when the socket is      *)
(* readable again.                                                         *)
(***************************************************************************)
EXTENDS Integers, Sequences, SequencesExt

CONSTANTS
    Units,     \* what a unit of text can be
    MaxUnits,  \* bound: units of one completion
    MaxCalls,  \* bound: tool calls of one completion
    InFlight   \* bound: frames sent that the client has not looked at

ASSUME StreamAssumption == {MaxUnits, MaxCalls, InFlight} \subseteq Nat

VARIABLES
    conn,    \* "closed", "asked" until the headers have come, then "open"
    \* the server
    phase,   \* "reply", "finished" (the reason is sent), "done" ([DONE] is sent)
    said,    \* the units it has sent
    opened,  \* the tool calls it has begun
    partial, \* the newest of them lacks its second fragment
    hungup,  \* the server's end is closed
    broken,  \* it closed before it was done
    \* the client
    wire,    \* frames in the socket
    held,    \* frames in the response's buffer
    calls,   \* assembled tool calls, "cut" or "whole"
    finish   \* finish_reason, "none" before it has come

server == <<phase, said, opened, partial, hungup, broken>>
streamVars == <<conn, server, wire, held, calls, finish>>

Text(u) == [kind |-> "text", unit |-> u]
Fragment(k) == [kind |-> k]
Reason(r) == [kind |-> "finish", reason |-> r]

NoStream ==
    /\ phase = "reply" /\ said = <<>> /\ opened = 0 /\ partial = FALSE
    /\ hungup = FALSE /\ broken = FALSE
    /\ wire = <<>> /\ held = <<>> /\ calls = <<>> /\ finish = "none"

ResetStream ==
    /\ phase' = "reply" /\ said' = <<>> /\ opened' = 0 /\ partial' = FALSE
    /\ hungup' = FALSE /\ broken' = FALSE
    /\ wire' = <<>> /\ held' = <<>> /\ calls' = <<>> /\ finish' = "none"

-----------------------------------------------------------------------------
(* The server *)

Sends(f) ==
    /\ conn # "closed" /\ ~hungup /\ Len(wire) + Len(held) < InFlight
    /\ wire' = Append(wire, f)
    /\ UNCHANGED <<conn, hungup, broken, held, calls, finish>>

ServerText ==
    /\ phase = "reply" /\ opened = 0 /\ Len(said) < MaxUnits
    /\ \E u \in Units : Sends(Text(u)) /\ said' = Append(said, u)
    /\ UNCHANGED <<phase, opened, partial>>

ServerCall ==
    /\ phase = "reply" /\ ~partial /\ opened < MaxCalls
    /\ Sends(Fragment("call"))
    /\ opened' = opened + 1 /\ partial' = TRUE
    /\ UNCHANGED <<phase, said>>

ServerArgs ==
    /\ phase = "reply" /\ partial
    /\ Sends(Fragment("args"))
    /\ partial' = FALSE
    /\ UNCHANGED <<phase, said, opened>>

\* The reply is complete, or the server's own token limit cuts it anywhere.
ServerFinish ==
    /\ phase = "reply"
    /\ \E r \in {"stop", "length"} :
          /\ r = "stop" => ~partial
          /\ Sends(Reason(r))
    /\ phase' = "finished"
    /\ UNCHANGED <<said, opened, partial>>

ServerDone ==
    /\ phase = "finished"
    /\ Sends(Fragment("done"))
    /\ phase' = "done"
    /\ UNCHANGED <<said, opened, partial>>

ServerCloses ==
    /\ conn # "closed" /\ ~hungup /\ phase = "done"
    /\ hungup' = TRUE
    /\ UNCHANGED <<conn, phase, said, opened, partial, broken, wire, held, calls, finish>>

\* The connection is lost; what is still in the socket may be lost with it.
ServerBreaks ==
    /\ conn # "closed" /\ ~hungup
    /\ hungup' = TRUE /\ broken' = TRUE
    /\ wire' \in {wire, <<>>}
    /\ UNCHANGED <<conn, phase, said, opened, partial, held, calls, finish>>

-----------------------------------------------------------------------------
(* The client *)

Asks ==
    /\ conn = "closed"
    /\ conn' = "asked"
    /\ ResetStream

\* No connection, no headers within the timeout, or a status other than 200.
Refused ==
    /\ conn = "asked"
    /\ conn' = "closed"
    /\ ResetStream

\* The headers are read through the same buffer.
Accepted ==
    /\ conn = "asked"
    /\ conn' = "open"
    /\ held' = wire /\ wire' = <<>>
    /\ UNCHANGED <<server, calls, finish>>

Readable == wire # <<>> \/ hungup

\* A read with nothing in the buffer fills it with all the socket has.
Fills ==
    /\ conn = "open" /\ held = <<>> /\ wire # <<>>
    /\ held' = wire /\ wire' = <<>>
    /\ UNCHANGED <<conn, server, calls, finish>>

\* Tool calls are assembled from their fragments by index.
Assembled(f) ==
    CASE f.kind = "call" -> Append(calls, "cut")
      [] f.kind = "args" -> [calls EXCEPT ![Len(calls)] = "whole"]
      [] OTHER -> calls

\* The last byte of frame f.
Takes(f) ==
    /\ conn = "open" /\ held # <<>> /\ Readable
    /\ f = Head(held)
    /\ held' = Tail(held)
    /\ calls' = Assembled(f)
    /\ finish' = IF f.kind = "finish" THEN f.reason ELSE finish
    /\ UNCHANGED <<server, wire>>

\* Mutant: a socket that has hung up ends the stream, whatever the buffer holds.
AtEndUndrained == conn = "open" /\ wire = <<>> /\ hungup

\* The end of the data, or an error of the socket: the stream just ends.
AtEnd == conn = "open" /\ held = <<>> /\ wire = <<>> /\ hungup

FinalReason == IF finish = "none" THEN "stop" ELSE finish

ServerSteps ==
    \/ ServerText \/ ServerCall \/ ServerArgs \/ ServerFinish \/ ServerDone
    \/ ServerCloses \/ ServerBreaks

-----------------------------------------------------------------------------

(* Types *)

\* What a frame of the stream can be.
Frames ==
    [kind : {"text"}, unit : Units] \cup [kind : {"call", "args", "done"}]
    \cup [kind : {"finish"}, reason : {"stop", "length"}]

\* Types of the stream, at both of its ends.
StreamTypeOK ==
    /\ conn \in {"closed", "asked", "open"}
    /\ phase \in {"reply", "finished", "done"}
    /\ said \in Seq(Units) /\ opened \in Nat
    /\ partial \in BOOLEAN /\ hungup \in BOOLEAN /\ broken \in BOOLEAN
    /\ wire \in Seq(Frames) /\ held \in Seq(Frames)
    /\ calls \in Seq({"cut", "whole"})
    /\ finish \in {"none", "stop", "length"}

=============================================================================
