------------------------------ MODULE WorkerPool ------------------------------
(***************************************************************************)
(* The worker processes that read ZIM archives (tutor/retrieval/zim/       *)
(* worker.py) and the threads that share them (tutor/retrieval/            *)
(* research.py: _get_worker, _call_worker_dispatch, fetch_article_text,    *)
(* close), for one archive: archives share nothing.                        *)
(*                                                                         *)
(* A client is a query thread of research_many, which makes each call from *)
(* a request thread of its own and gives up on it when it is late, or a    *)
(* direct client (fetch_article_text), which calls by itself.  A message   *)
(* on a pipe is the call it is about; a result is the set of calls it is   *)
(* the reply to, {} for a timeout or an error.  Deadlines have no length:  *)
(* each may pass at any time, in any order.                                *)
(***************************************************************************)
EXTENDS Naturals, Sequences

CONSTANTS
    Clients,   \* the threads that use the archive
    Direct,    \* those that call without a request thread
    MaxCalls,  \* bound: calls of one client
    NoWorker   \* the engine has no worker for the archive

Calls == Clients \X (1..MaxCalls)

\* A worker bears the name of the client that made it.
Workers == Clients

ASSUME WorkerPoolAssumption ==
    /\ Direct \subseteq Clients
    /\ MaxCalls \in Nat
    /\ NoWorker \notin Workers

VARIABLES
    pool,     \* self._workers.get(entry.id)
    engine,   \* how far ResearchEngine.close has come
    target,   \* the worker it has taken from the pool to close
    worker,   \* the worker each client holds
    client,   \* where each client is
    calls,    \* calls each client has made
    thread,   \* where the request thread of each call is
    box,      \* each call's result_box
    closed,   \* each worker's _closed
    child,    \* each worker's process
    inbox,    \* calls on their way to the process
    outbox,   \* replies on their way back
    replies,  \* pairs of a call that returned and the call its reply belongs to
    failures  \* calls that returned without a reply

clientVars == <<worker, client, calls>>
resultVars == <<replies, failures>>
processVars == <<child, inbox, outbox>>
vars ==
    <<pool, engine, target, clientVars, thread, box, closed, processVars, resultVars>>

\* A result_box is a queue of one.
Boxes == {<<>>} \cup {<<result>> : result \in SUBSET Calls}

Init ==
    /\ pool = NoWorker
    /\ engine = "open" /\ target = NoWorker
    /\ worker = [q \in Clients |-> NoWorker]
    /\ client = [q \in Clients |-> "idle"]
    /\ calls = [q \in Clients |-> 0]
    /\ thread = [c \in Calls |-> "none"]
    /\ box = [c \in Calls |-> <<>>]
    /\ closed = [w \in Workers |-> FALSE]
    /\ child = [w \in Workers |-> "none"]
    /\ inbox = [w \in Workers |-> <<>>]
    /\ outbox = [w \in Workers |-> <<>>]
    /\ replies = {} /\ failures = {}

WorkerOf(c) == worker[c[1]]

\* The newest call of a client.
Current(q) == <<q, calls[q]>>

\* The worker's lock is held from the sending of a request to its result.
Free(w) == \A c \in Calls : ~(thread[c] = "polling" /\ WorkerOf(c) = w)

-----------------------------------------------------------------------------
(* A worker and its process *)

\* Mutant: the pipe is left as it is.
TerminateProcess(w) ==
    /\ child' = [child EXCEPT ![w] = "none"]
    /\ UNCHANGED <<inbox, outbox>>

\* _terminate_child_locked: the process is killed and the pipe closed.
Terminate(w) ==
    /\ child' = [child EXCEPT ![w] = "none"]
    /\ inbox' = [inbox EXCEPT ![w] = <<>>]
    /\ outbox' = [outbox EXCEPT ![w] = <<>>]

\* The request of call c is over, with this result.
Finish(c, result) ==
    /\ thread' = [thread EXCEPT ![c] = "done"]
    /\ box' = [box EXCEPT ![c] = Append(@, result)]
    /\ UNCHANGED <<pool, engine, target, clientVars, closed, resultVars>>

\* Mutant: a closed worker is started again.
SendUnchecked(c) ==
    /\ thread[c] = "locking" /\ Free(WorkerOf(c))
    /\ LET w == WorkerOf(c) IN
       /\ child' = [child EXCEPT ![w] = "alive"]
       /\ inbox' = [inbox EXCEPT ![w] = IF child[w] = "alive" THEN Append(@, c) ELSE <<c>>]
       /\ outbox' = [outbox EXCEPT ![w] = IF child[w] = "alive" THEN @ ELSE <<>>]
    /\ thread' = [thread EXCEPT ![c] = "polling"]
    /\ UNCHANGED <<pool, engine, target, clientVars, box, closed, resultVars>>

\* request, up to the poll: a process that is not alive is replaced, with its pipe.
Send(c) ==
    /\ thread[c] = "locking" /\ Free(WorkerOf(c)) /\ ~closed[WorkerOf(c)]
    /\ LET w == WorkerOf(c) IN
       /\ child' = [child EXCEPT ![w] = "alive"]
       /\ inbox' = [inbox EXCEPT ![w] = IF child[w] = "alive" THEN Append(@, c) ELSE <<c>>]
       /\ outbox' = [outbox EXCEPT ![w] = IF child[w] = "alive" THEN @ ELSE <<>>]
    /\ thread' = [thread EXCEPT ![c] = "polling"]
    /\ UNCHANGED <<pool, engine, target, clientVars, box, closed, resultVars>>

\* The process died after is_alive and before the send, which raises.
SendFails(c) ==
    /\ thread[c] = "locking" /\ Free(WorkerOf(c)) /\ ~closed[WorkerOf(c)]
    /\ Terminate(WorkerOf(c))
    /\ Finish(c, {})

\* WorkerClosed is raised, and reported as an error.
SendRefused(c) ==
    /\ thread[c] = "locking" /\ Free(WorkerOf(c)) /\ closed[WorkerOf(c)]
    /\ Finish(c, {})
    /\ UNCHANGED processVars

Receive(c) ==
    /\ thread[c] = "polling" /\ outbox[WorkerOf(c)] # <<>>
    /\ outbox' = [outbox EXCEPT ![WorkerOf(c)] = Tail(@)]
    /\ Finish(c, {Head(outbox[WorkerOf(c)])})
    /\ UNCHANGED <<child, inbox>>

\* The pipe is at its end: the process has died without a reply.
ReceiveFails(c) ==
    /\ thread[c] = "polling" /\ outbox[WorkerOf(c)] = <<>> /\ child[WorkerOf(c)] = "dead"
    /\ Terminate(WorkerOf(c))
    /\ Finish(c, {})

\* Mutant: a late process is left to finish.
PollTimesOutOnly(c) ==
    /\ thread[c] = "polling" /\ outbox[WorkerOf(c)] = <<>> /\ child[WorkerOf(c)] = "alive"
    /\ Finish(c, {})
    /\ UNCHANGED processVars

\* Mutant: the poll has no timeout.
PollWaits(c) == FALSE

\* poll(deadline_s) finds nothing: the process is late, and killed.
PollTimesOut(c) ==
    /\ thread[c] = "polling" /\ outbox[WorkerOf(c)] = <<>> /\ child[WorkerOf(c)] = "alive"
    /\ Terminate(WorkerOf(c))
    /\ Finish(c, {})

\* _child_main serves one request after the other.
Serve(w) ==
    /\ child[w] = "alive" /\ inbox[w] # <<>>
    /\ inbox' = [inbox EXCEPT ![w] = Tail(@)]
    /\ outbox' = [outbox EXCEPT ![w] = Append(@, Head(inbox[w]))]
    /\ UNCHANGED <<pool, engine, target, clientVars, thread, box, closed, child,
                   resultVars>>

\* The process crashes; the replies it has sent can still be read.
Die(w) ==
    /\ child[w] = "alive"
    /\ child' = [child EXCEPT ![w] = "dead"]
    /\ inbox' = [inbox EXCEPT ![w] = <<>>]
    /\ UNCHANGED <<pool, engine, target, clientVars, thread, box, closed, outbox,
                   resultVars>>

-----------------------------------------------------------------------------
(* A client *)

Goes(q, from, to) ==
    /\ client[q] = from
    /\ client' = [client EXCEPT ![q] = to]

\* _get_worker looks the worker up,
GetWorker(q) ==
    /\ IF pool = NoWorker
       THEN Goes(q, "idle", "make") /\ UNCHANGED worker
       ELSE Goes(q, "idle", "ready") /\ worker' = [worker EXCEPT ![q] = pool]
    /\ UNCHANGED <<pool, engine, target, calls, thread, box, closed, processVars,
                   resultVars>>

\* and makes one when there is none, whatever other threads have done meanwhile.
MakeWorker(q) ==
    /\ Goes(q, "make", "ready")
    /\ worker' = [worker EXCEPT ![q] = q]
    /\ pool' = q
    /\ UNCHANGED <<engine, target, calls, thread, box, closed, processVars, resultVars>>

\* The next call, from a request thread.
Call(q) ==
    /\ calls[q] < MaxCalls
    /\ Goes(q, "ready", "waiting")
    /\ calls' = [calls EXCEPT ![q] = @ + 1]
    /\ thread' = [thread EXCEPT ![<<q, calls[q] + 1>>] = "locking"]
    /\ UNCHANGED <<pool, engine, target, worker, box, closed, processVars, resultVars>>

\* result_box.get returns the result.
Take(q) ==
    /\ Goes(q, "waiting", "ready")
    /\ box[Current(q)] # <<>>
    /\ LET result == Head(box[Current(q)]) IN
       /\ replies' = replies \cup {<<Current(q), d>> : d \in result}
       /\ failures' = IF result = {} THEN failures \cup {Current(q)} ELSE failures
    /\ UNCHANGED <<pool, engine, target, worker, calls, thread, box, closed, processVars>>

\* result_box.get times out.
GiveUp(q) ==
    /\ q \notin Direct
    /\ Goes(q, "waiting", "interrupt")
    /\ box[Current(q)] = <<>>
    /\ UNCHANGED <<pool, engine, target, worker, calls, thread, box, closed,
                   processVars, resultVars>>

\* ZimWorker.interrupt, once it has the lock.
Interrupt(q) ==
    /\ Free(worker[q])
    /\ Goes(q, "interrupt", "join")
    /\ Terminate(worker[q])
    /\ UNCHANGED <<pool, engine, target, worker, calls, thread, box, closed, resultVars>>

\* thread.join returns, or times out with the request thread still there.
JoinEnds(q) ==
    /\ Goes(q, "join", "ready")
    /\ failures' = failures \cup {Current(q)}
    /\ UNCHANGED <<pool, engine, target, worker, calls, thread, box, closed,
                   processVars, replies>>

-----------------------------------------------------------------------------
(* ResearchEngine.close *)

\* The pool's worker is looked up,
BeginClose ==
    /\ engine = "open"
    /\ engine' = IF pool = NoWorker THEN "clearing" ELSE "closing"
    /\ target' = pool
    /\ UNCHANGED <<pool, clientVars, thread, box, closed, processVars, resultVars>>

\* closed, once its lock is free, whatever is in the pool by then,
CloseWorker ==
    /\ engine = "closing" /\ engine' = "clearing"
    /\ Free(target) /\ Terminate(target)
    /\ closed' = [closed EXCEPT ![target] = TRUE]
    /\ target' = NoWorker
    /\ UNCHANGED <<pool, clientVars, thread, box, resultVars>>

\* and the pool is emptied.
ClearPool ==
    /\ engine = "clearing" /\ engine' = "closed"
    /\ pool' = NoWorker
    /\ UNCHANGED <<target, clientVars, thread, box, closed, processVars, resultVars>>

-----------------------------------------------------------------------------

RequestStep(c) ==
    \/ Send(c) \/ SendFails(c) \/ SendRefused(c)
    \/ Receive(c) \/ ReceiveFails(c) \/ PollTimesOut(c)
ClientStep(q) ==
    \/ GetWorker(q) \/ MakeWorker(q) \/ Call(q)
    \/ Take(q) \/ GiveUp(q) \/ Interrupt(q) \/ JoinEnds(q)
ChildStep(w) == Serve(w) \/ Die(w)

Next ==
    \/ \E c \in Calls : RequestStep(c)
    \/ \E q \in Clients : ClientStep(q)
    \/ \E w \in Workers : ChildStep(w)
    \/ BeginClose \/ CloseWorker \/ ClearPool

Spec == Init /\ [][Next]_vars

\* Threads run, deadlines pass, and a lock that stays free is taken.  The process
\* may be slow for ever, or die.
Fairness ==
    /\ \A c \in Calls : WF_vars(RequestStep(c))
    /\ \A q \in Clients :
          WF_vars(MakeWorker(q)) /\ WF_vars(Take(q) \/ Interrupt(q) \/ JoinEnds(q))

LiveSpec == Spec /\ Fairness

-----------------------------------------------------------------------------
(* Properties *)

TypeOK ==
    /\ pool \in Workers \cup {NoWorker}
    /\ engine \in {"open", "closing", "clearing", "closed"}
    /\ target \in IF engine = "closing" THEN Workers ELSE {NoWorker}
    /\ worker \in [Clients -> Workers \cup {NoWorker}]
    /\ client \in [Clients ->
          {"idle", "make", "ready", "waiting", "interrupt", "join"}]
    /\ calls \in [Clients -> 0..MaxCalls]
    /\ thread \in [Calls -> {"none", "locking", "polling", "done"}]
    /\ box \in [Calls -> Boxes]
    /\ closed \in [Workers -> BOOLEAN]
    /\ child \in [Workers -> {"none", "alive", "dead"}]
    /\ inbox \in [Workers -> Seq(Calls)]
    /\ outbox \in [Workers -> Seq(Calls)]
    /\ replies \subseteq Calls \X Calls
    /\ failures \subseteq Calls

Asked == {c \in Calls : thread[c] # "none"}

\* Each call returns once, with the reply to that call and not to one before it that
\* timed out, was given up or was lost with its process; and it does return.
Service == INSTANCE WorkerService WITH asked <- Asked
ImplementsService == Service!ServiceSpec
CallsReturn == Service!ServiceFairness

\* A worker that was closed has no process, whichever request threads, abandoned by
\* their clients, still want its lock.
ClosedStaysDown == \A w \in Workers : closed[w] => child[w] = "none"

\* A reply is on its way only to a request that waits for it: whoever has the lock
\* next finds the pipe empty, or gets a new one.
PipeIsClean ==
    \A w \in Workers : Free(w) => inbox[w] = <<>> /\ outbox[w] = <<>>

=============================================================================
