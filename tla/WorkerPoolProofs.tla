-------------------------- MODULE WorkerPoolProofs --------------------------
(***************************************************************************)
(* Proofs about WorkerPool, for any number of threads and calls: its type, *)
(* that a closed worker stays down, that the lock never passes on a pipe   *)
(* with something in it, and that the pool implements WorkerService: a     *)
(* call returns at most once, with its own reply.                          *)
(***************************************************************************)
EXTENDS WorkerPool, TLAPS

-----------------------------------------------------------------------------
(* The strengthening *)

Away == {"waiting", "interrupt", "join"}

\* Who calls has a worker.
Held == \A q \in Clients : client[q] \notin {"idle", "make"} => worker[q] # NoWorker

\* The calls of a client are those it has counted.
Counted(q) ==
    /\ client[q] \in {"idle", "make"} => calls[q] = 0
    /\ client[q] \in Away => calls[q] >= 1
    /\ \A n \in 1..MaxCalls : thread[<<q, n>>] = "none" <=> n > calls[q]
Counting == \A q \in Clients : Counted(q)

\* c has the lock of w, and waits for its reply.
Awaited(c, w) == thread[c] = "polling" /\ WorkerOf(c) = w

OneHolder ==
    \A w \in Workers : \A b, c \in Calls : Awaited(b, w) /\ Awaited(c, w) => b = c

\* At most one message is in a pipe, and it is about the call that has the lock.
CleanPipe(w) ==
    \/ inbox[w] = <<>> /\ outbox[w] = <<>>
    \/ \E c \in Calls :
          /\ Awaited(c, w)
          /\ \/ inbox[w] = <<c>> /\ outbox[w] = <<>>
             \/ inbox[w] = <<>> /\ outbox[w] = <<c>>
Pipes == \A w \in Workers : CleanPipe(w)

\* A result is that of the box's own call, whose request is over.
OwnBox(c) == box[c] # <<>> => thread[c] = "done" /\ Head(box[c]) \subseteq {c}
OwnBoxes == \A c \in Calls : OwnBox(c)

\* A call has returned when its client has gone on.
Over(c) ==
    \/ c[2] < calls[c[1]]
    \/ c[2] = calls[c[1]] /\ client[c[1]] \notin Away
ReturnedInv == \A c \in Calls : Service!Returned(c) <=> Over(c)

IInv ==
    /\ TypeOK /\ Held /\ Counting /\ OneHolder /\ Pipes /\ OwnBoxes
    /\ ReturnedInv /\ ClosedStaysDown

-----------------------------------------------------------------------------
(* Facts about reachable states *)

\* A call is a client and a number.
LEMMA CallParts ==
  ASSUME NEW c \in Calls
  PROVE  c[1] \in Clients /\ c[2] \in 1..MaxCalls /\ c = <<c[1], c[2]>> /\ c[2] \in Nat
  BY WorkerPoolAssumption DEF Calls

\* What a pipe may hold.
LEMMA PipeContents == <<>> \in Seq(Calls) /\ \A c \in Calls : <<c>> \in Seq(Calls)
  OBVIOUS

\* A request under way has a worker.
LEMMA RequestHasWorker ==
  ASSUME IInv, NEW c \in Calls, thread[c] # "none"
  PROVE  WorkerOf(c) \in Workers
<1>1. c[1] \in Clients /\ c[2] \in 1..MaxCalls /\ c = <<c[1], c[2]>> /\ c[2] \in Nat
  BY CallParts
<1>2. ~(c[2] > calls[c[1]]) /\ calls[c[1]] \in Nat
  BY <1>1, WorkerPoolAssumption DEF IInv, TypeOK, Counting, Counted
<1>3. client[c[1]] \notin {"idle", "make"}
  BY <1>1, <1>2 DEF IInv, Counting, Counted
<1> QED
  BY <1>1, <1>3 DEF IInv, Held, TypeOK, WorkerOf

\* A client that waits waits for a call.
LEMMA CurrentIsCall ==
  ASSUME IInv, NEW q \in Clients, client[q] \in Away
  PROVE  Current(q) \in Calls /\ Current(q)[1] = q /\ Current(q)[2] = calls[q]
  BY WorkerPoolAssumption DEF IInv, TypeOK, Counting, Counted, Current, Calls, Away

\* Whoever gets a worker's lock finds its pipe empty.
LEMMA FreePipe ==
  ASSUME IInv, NEW w \in Workers, Free(w)
  PROVE  inbox[w] = <<>> /\ outbox[w] = <<>>
  BY DEF IInv, Pipes, CleanPipe, Awaited, Free

-----------------------------------------------------------------------------
(* The initial states *)

\* Nothing has been called.
LEMMA InitIInv == Init => IInv
<1> SUFFICES ASSUME Init PROVE IInv
  OBVIOUS
<1>1. TypeOK
  BY WorkerPoolAssumption DEF Init, TypeOK, Boxes
<1>2. Counting
  <2> SUFFICES ASSUME NEW q \in Clients PROVE Counted(q)
    BY DEF Counting
  <2>1. \A n \in 1..MaxCalls : <<q, n>> \in Calls /\ n > 0
    BY WorkerPoolAssumption DEF Calls
  <2> QED
    BY <2>1 DEF Init, Counted, Away
<1>3. OneHolder /\ Pipes /\ OwnBoxes /\ Held /\ ClosedStaysDown
  BY DEF Init, OneHolder, Awaited, Pipes, CleanPipe, OwnBoxes, OwnBox, Held, ClosedStaysDown
<1>4. ReturnedInv
  <2> SUFFICES ASSUME NEW c \in Calls
               PROVE  ~Service!Returned(c) /\ ~(c[2] < calls[c[1]]) /\ c[2] # calls[c[1]]
    BY DEF ReturnedInv, Over
  <2>1. c[1] \in Clients /\ c[2] \in 1..MaxCalls
    BY CallParts
  <2> QED
    BY <2>1, WorkerPoolAssumption DEF Init, Service!Returned
<1> QED
  BY <1>1, <1>2, <1>3, <1>4 DEF IInv

-----------------------------------------------------------------------------
(* A request thread *)

\* What no step of a request changes, and what it leaves true.
LEMMA RequestFrame ==
  ASSUME IInv, NEW c \in Calls, thread[c] # "none",
         NEW to \in {"polling", "done"}, thread' = [thread EXCEPT ![c] = to],
         UNCHANGED <<pool, engine, target, clientVars, closed, resultVars>>
  PROVE  Held' /\ Counting' /\ ReturnedInv' /\ \A e \in Calls : WorkerOf(e)' = WorkerOf(e)
<1> USE DEF clientVars, resultVars
<1>1. Held'
  BY DEF IInv, Held
<1>2. Counting'
  <2> SUFFICES ASSUME NEW q \in Clients PROVE Counted(q)'
    BY DEF Counting
  <2>1. \A n \in 1..MaxCalls : <<q, n>> \in Calls
    BY DEF Calls
  <2>2. \A e \in Calls : thread'[e] = "none" <=> thread[e] = "none"
    BY DEF IInv, TypeOK
  <2> QED
    BY <2>1, <2>2 DEF IInv, Counting, Counted
<1>3. ReturnedInv'
  BY DEF IInv, ReturnedInv, Over, Service!Returned
<1>4. \A e \in Calls : WorkerOf(e)' = WorkerOf(e)
  BY DEF WorkerOf
<1> QED
  BY <1>1, <1>2, <1>3, <1>4

\* The lock goes to a request thread, with an empty pipe or a new one.
LEMMA SendIInv == ASSUME IInv, NEW c \in Calls, Send(c) PROVE IInv'
<1> DEFINE w == WorkerOf(c)
<1>1. w \in Workers /\ inbox[w] = <<>> /\ outbox[w] = <<>>
  BY RequestHasWorker, FreePipe DEF Send
<1>2. /\ child' = [child EXCEPT ![w] = "alive"]
      /\ inbox' = [inbox EXCEPT ![w] = <<c>>]
      /\ outbox' = [outbox EXCEPT ![w] = <<>>]
      /\ thread' = [thread EXCEPT ![c] = "polling"]
      /\ UNCHANGED <<pool, engine, target, clientVars, closed, resultVars, box>>
  BY <1>1 DEF Send
<1>3. Held' /\ Counting' /\ ReturnedInv' /\ \A e \in Calls : WorkerOf(e)' = WorkerOf(e)
  BY <1>2, RequestFrame DEF Send
<1>4. TypeOK'
  BY <1>2, PipeContents DEF IInv, TypeOK, clientVars, resultVars
<1>5. \A e \in Calls, v \in Workers :
         Awaited(e, v)' <=> Awaited(e, v) \/ (e = c /\ v = w)
  BY <1>2, <1>3 DEF IInv, TypeOK, Awaited, Send
<1>6. OneHolder'
  BY <1>5 DEF IInv, OneHolder, Awaited, Send, Free
<1>7. Pipes'
  BY <1>1, <1>2, <1>5 DEF IInv, TypeOK, Pipes, CleanPipe
<1>8. OwnBoxes'
  BY <1>2 DEF IInv, TypeOK, OwnBoxes, OwnBox, Send
<1>9. ClosedStaysDown'
  BY <1>2 DEF IInv, TypeOK, ClosedStaysDown, Send
<1> QED
  BY <1>3, <1>4, <1>6, <1>7, <1>8, <1>9 DEF IInv

\* A request that is over, and leaves the pipe empty, has its own result or none.
LEMMA FinishIInv ==
  ASSUME IInv, NEW c \in Calls, thread[c] \in {"locking", "polling"},
         NEW result \in SUBSET {c}, Finish(c, result), TypeOK',
         \A v \in Workers : v # WorkerOf(c) =>
             inbox'[v] = inbox[v] /\ outbox'[v] = outbox[v] /\ child'[v] = child[v],
         CleanPipe(WorkerOf(c))',
         child'[WorkerOf(c)] \in {"none", child[WorkerOf(c)]}
  PROVE  IInv'
<1> DEFINE w == WorkerOf(c)
<1>1. /\ thread' = [thread EXCEPT ![c] = "done"]
      /\ box' = [box EXCEPT ![c] = Append(@, result)]
      /\ UNCHANGED <<pool, engine, target, clientVars, closed, resultVars>>
  BY DEF Finish
<1>2. Held' /\ Counting' /\ ReturnedInv' /\ \A e \in Calls : WorkerOf(e)' = WorkerOf(e)
  BY <1>1, RequestFrame
<1>3. \A e \in Calls, v \in Workers :
         Awaited(e, v)' <=> Awaited(e, v) /\ e # c
  BY <1>1, <1>2 DEF IInv, TypeOK, Awaited
<1>4. OneHolder'
  BY <1>3 DEF IInv, OneHolder
<1>5. Pipes'
  <2> SUFFICES ASSUME NEW v \in Workers PROVE CleanPipe(v)'
    BY DEF Pipes
  <2>1. CASE v = w
    BY <1>2, <2>1 DEF CleanPipe, Awaited
  <2>2. CASE v # w
    <3>1. \A e \in Calls : Awaited(e, v) => Awaited(e, v)'
      BY <1>3, <2>2 DEF Awaited
    <3> QED
      BY <2>2, <3>1 DEF IInv, Pipes, CleanPipe
  <2> QED
    BY <2>1, <2>2
<1>6. OwnBoxes'
  <2> SUFFICES ASSUME NEW e \in Calls PROVE OwnBox(e)'
    BY DEF OwnBoxes
  <2>1. CASE e = c
    <3>1. box[c] = <<>>
      BY DEF IInv, OwnBoxes, OwnBox
    <3>2. box'[c] = <<result>> /\ Head(box'[c]) = result
      BY <1>1, <3>1 DEF IInv, TypeOK
    <3> QED
      BY <1>1, <2>1, <3>2 DEF IInv, TypeOK, OwnBox
  <2>2. CASE e # c
    BY <1>1, <2>2 DEF IInv, TypeOK, OwnBoxes, OwnBox
  <2> QED
    BY <2>1, <2>2
<1>7. ClosedStaysDown'
  BY <1>1 DEF IInv, ClosedStaysDown
<1> QED
  BY <1>2, <1>4, <1>5, <1>6, <1>7 DEF IInv

\* What a result adds to a box keeps the box's type.
LEMMA FinishBoxes ==
  ASSUME IInv, NEW c \in Calls, thread[c] \in {"locking", "polling"},
         NEW result \in SUBSET Calls, Finish(c, result)
  PROVE  box' \in [Calls -> Boxes] /\ thread' \in [Calls -> {"none", "locking", "polling", "done"}]
<1>1. box[c] = <<>>
  BY DEF IInv, OwnBoxes, OwnBox
<1>2. Append(box[c], result) \in Boxes
  BY <1>1 DEF Boxes
<1> QED
  BY <1>2 DEF IInv, TypeOK, Finish

\* A request that ends without a reply.
LEMMA RequestLost ==
  ASSUME IInv, NEW c \in Calls, thread[c] \in {"locking", "polling"}, Finish(c, {}),
         \/ Terminate(WorkerOf(c))
         \/ thread[c] = "locking" /\ UNCHANGED processVars
  PROVE  IInv'
<1> DEFINE w == WorkerOf(c)
<1>1. w \in Workers
  BY RequestHasWorker
<1>2. {} \in SUBSET Calls /\ {} \in SUBSET {c}
  OBVIOUS
<1>3. box' \in [Calls -> Boxes] /\ thread' \in [Calls -> {"none", "locking", "polling", "done"}]
  BY <1>2, FinishBoxes
<1>4. TypeOK'
  <2>1. /\ child' \in [Workers -> {"none", "alive", "dead"}]
        /\ inbox' \in [Workers -> Seq(Calls)] /\ outbox' \in [Workers -> Seq(Calls)]
    <3>1. CASE Terminate(w)
      BY <3>1, PipeContents DEF IInv, TypeOK, Terminate
    <3>2. CASE UNCHANGED processVars
      BY <3>2 DEF IInv, TypeOK, processVars
    <3> QED
      BY <3>1, <3>2
  <2> QED
    BY <1>3, <2>1 DEF IInv, TypeOK, Finish, clientVars, resultVars
<1>5. CleanPipe(w)'
  <2>1. CASE Terminate(w)
    BY <1>1, <2>1 DEF Terminate, IInv, TypeOK, CleanPipe, Finish, clientVars, WorkerOf
  <2>2. CASE thread[c] = "locking" /\ UNCHANGED processVars
    <3>1. \A e \in Calls : Awaited(e, w) => Awaited(e, w)'
      BY <2>2 DEF IInv, TypeOK, Awaited, WorkerOf, Finish, clientVars
    <3> QED
      BY <1>1, <2>2, <3>1
      DEF IInv, Pipes, CleanPipe, processVars, Finish, clientVars, WorkerOf
  <2> QED
    BY <2>1, <2>2
<1>6. /\ \A v \in Workers : v # w =>
             inbox'[v] = inbox[v] /\ outbox'[v] = outbox[v] /\ child'[v] = child[v]
      /\ child'[w] \in {"none", child[w]}
  BY <1>1 DEF Terminate, processVars, IInv, TypeOK
<1> QED
  BY <1>2, <1>4, <1>5, <1>6, FinishIInv

\* A reply that is received is the reply to the request that waits for it.
LEMMA ReceiveIInv == ASSUME IInv, NEW c \in Calls, Receive(c) PROVE IInv'
<1> DEFINE w == WorkerOf(c)
<1>1. w \in Workers
  BY RequestHasWorker DEF Receive
<1>2. inbox[w] = <<>> /\ outbox[w] = <<c>>
  BY <1>1 DEF Receive, IInv, Pipes, CleanPipe, OneHolder, Awaited
<1>3. Finish(c, {c})
  BY <1>2 DEF Receive
<1>4. outbox' = [outbox EXCEPT ![w] = <<>>] /\ UNCHANGED <<child, inbox>>
  BY <1>2 DEF Receive
<1>5. thread[c] \in {"locking", "polling"} /\ {c} \in SUBSET Calls /\ {c} \in SUBSET {c}
  BY DEF Receive
<1>6. box' \in [Calls -> Boxes] /\ thread' \in [Calls -> {"none", "locking", "polling", "done"}]
  BY <1>3, <1>5, FinishBoxes
<1>7. TypeOK'
  BY <1>3, <1>4, <1>6, PipeContents DEF IInv, TypeOK, Finish, clientVars, resultVars
<1>8. CleanPipe(w)'
  BY <1>1, <1>2, <1>3, <1>4 DEF IInv, TypeOK, CleanPipe, Finish, clientVars, WorkerOf
<1>9. /\ \A v \in Workers : v # w =>
             inbox'[v] = inbox[v] /\ outbox'[v] = outbox[v] /\ child'[v] = child[v]
      /\ child'[w] \in {"none", child[w]}
  BY <1>1, <1>4 DEF IInv, TypeOK
<1> QED
  BY <1>3, <1>5, <1>7, <1>8, <1>9, FinishIInv

\* The request threads.
LEMMA RequestStepIInv == ASSUME IInv, NEW c \in Calls, RequestStep(c) PROVE IInv'
<1>1. CASE Send(c)
  BY <1>1, SendIInv
<1>2. CASE SendFails(c)
  BY <1>2, RequestLost DEF SendFails
<1>3. CASE SendRefused(c)
  BY <1>3, RequestLost DEF SendRefused
<1>4. CASE Receive(c)
  BY <1>4, ReceiveIInv
<1>5. CASE ReceiveFails(c)
  BY <1>5, RequestLost DEF ReceiveFails
<1>6. CASE PollTimesOut(c)
  BY <1>6, RequestLost DEF PollTimesOut
<1> QED
  BY <1>1, <1>2, <1>3, <1>4, <1>5, <1>6 DEF RequestStep

-----------------------------------------------------------------------------
(* The process *)

\* The process moves a message from one pipe to the other, or dies.
LEMMA ChildStepIInv == ASSUME IInv, NEW w \in Workers, ChildStep(w) PROVE IInv'
<1> USE DEF clientVars, resultVars
<1>1. UNCHANGED <<pool, engine, target, worker, client, calls, thread, box, closed,
                  replies, failures>>
  BY DEF ChildStep, Serve, Die
<1>2. CleanPipe(w) /\ child[w] = "alive"
  BY DEF IInv, Pipes, ChildStep, Serve, Die
<1>3. \A e \in Calls, v \in Workers : Awaited(e, v)' <=> Awaited(e, v)
  BY <1>1 DEF Awaited, WorkerOf
<1>4. TypeOK' /\ CleanPipe(w)'
  <2>1. CASE Serve(w)
    <3>1. PICK c \in Calls : Awaited(c, w) /\ inbox[w] = <<c>> /\ outbox[w] = <<>>
      BY <1>2, <2>1 DEF Serve, CleanPipe
    <3>2. /\ inbox' = [inbox EXCEPT ![w] = <<>>] /\ outbox' = [outbox EXCEPT ![w] = <<c>>]
          /\ child' = child
      BY <2>1, <3>1 DEF Serve
    <3>3. TypeOK'
      BY <1>1, <3>2, PipeContents DEF IInv, TypeOK
    <3> QED
      BY <1>3, <3>1, <3>2, <3>3 DEF IInv, TypeOK, CleanPipe
  <2>2. CASE Die(w)
    <3>1. /\ inbox' = [inbox EXCEPT ![w] = <<>>] /\ outbox' = outbox
          /\ child' = [child EXCEPT ![w] = "dead"]
      BY <2>2 DEF Die
    <3>2. TypeOK'
      BY <1>1, <3>1, PipeContents DEF IInv, TypeOK
    <3> QED
      BY <1>2, <1>3, <3>1, <3>2 DEF IInv, TypeOK, CleanPipe
  <2> QED
    BY <2>1, <2>2 DEF ChildStep
<1>5. Pipes'
  <2> SUFFICES ASSUME NEW v \in Workers, v # w PROVE CleanPipe(v)'
    BY <1>4 DEF Pipes
  <2>1. inbox'[v] = inbox[v] /\ outbox'[v] = outbox[v]
    BY DEF ChildStep, Serve, Die, IInv, TypeOK
  <2> QED
    BY <1>3, <2>1 DEF IInv, Pipes, CleanPipe
<1>6. ClosedStaysDown'
  BY <1>1, <1>2 DEF IInv, ClosedStaysDown, TypeOK, ChildStep, Serve, Die
<1>7. Held' /\ Counting' /\ OneHolder' /\ OwnBoxes' /\ ReturnedInv'
  BY <1>1, <1>3
  DEF IInv, Held, Counting, Counted, OneHolder, OwnBoxes, OwnBox, ReturnedInv,
      Over, Service!Returned
<1> QED
  BY <1>4, <1>5, <1>6, <1>7 DEF IInv

\* The child of a worker that no request uses is terminated.
LEMMA TerminateFree ==
  ASSUME IInv, NEW w \in Workers, Free(w), Terminate(w),
         UNCHANGED <<worker, thread>>
  PROVE  /\ child' \in [Workers -> {"none", "alive", "dead"}] /\ child'[w] = "none"
         /\ inbox' \in [Workers -> Seq(Calls)] /\ outbox' \in [Workers -> Seq(Calls)]
         /\ \A v \in Workers : v # w => child'[v] = child[v]
         /\ Pipes' /\ OneHolder'
<1>1. /\ child' \in [Workers -> {"none", "alive", "dead"}] /\ child'[w] = "none"
      /\ inbox' \in [Workers -> Seq(Calls)] /\ outbox' \in [Workers -> Seq(Calls)]
      /\ \A v \in Workers : v # w => child'[v] = child[v]
  BY PipeContents DEF Terminate, IInv, TypeOK
<1>2. \A e \in Calls, v \in Workers : Awaited(e, v)' <=> Awaited(e, v)
  BY DEF Awaited, WorkerOf
<1>3. Pipes' /\ OneHolder'
  BY <1>2 DEF Terminate, IInv, TypeOK, Pipes, CleanPipe, OneHolder
<1> QED
  BY <1>1, <1>3

-----------------------------------------------------------------------------
(* A client *)

\* A client gets a worker before its first call.
LEMMA WorkerFoundIInv ==
  ASSUME IInv, NEW q \in Clients, GetWorker(q) \/ MakeWorker(q)
  PROVE  IInv'
<1> USE DEF clientVars, resultVars, processVars
<1>1. /\ UNCHANGED <<engine, target, calls, thread, box, closed, child, inbox, outbox,
                     replies, failures>>
      /\ client[q] \in {"idle", "make"} /\ client'[q] \in {"make", "ready"}
      /\ \A p \in Clients : p # q => client'[p] = client[p] /\ worker'[p] = worker[p]
      /\ client'[q] = "ready" => worker'[q] \in Workers
  BY DEF GetWorker, MakeWorker, Goes, IInv, TypeOK, Workers
<1>2. TypeOK'
  <2>1. /\ pool' \in Workers \cup {NoWorker}
        /\ worker' \in [Clients -> Workers \cup {NoWorker}]
        /\ client' \in [Clients ->
              {"idle", "make", "ready", "waiting", "interrupt", "join"}]
    <3>1. CASE GetWorker(q)
      BY <3>1 DEF GetWorker, Goes, IInv, TypeOK
    <3>2. CASE MakeWorker(q)
      BY <3>2 DEF MakeWorker, Goes, IInv, TypeOK, Workers
    <3> QED
      BY <3>1, <3>2
  <2> QED
    BY <1>1, <2>1 DEF IInv, TypeOK
<1>3. Held'
  BY <1>1, WorkerPoolAssumption DEF IInv, Held
<1>4. calls[q] = 0 /\ \A c \in Calls : c[1] = q => thread[c] = "none"
  <2>1. calls[q] = 0
    BY <1>1 DEF IInv, Counting, Counted
  <2> SUFFICES ASSUME NEW c \in Calls, c[1] = q PROVE thread[c] = "none"
    BY <2>1
  <2>2. c = <<q, c[2]>> /\ c[2] \in 1..MaxCalls /\ c[2] > 0
    BY CallParts, WorkerPoolAssumption
  <2> QED
    BY <2>1, <2>2 DEF IInv, Counting, Counted
<1>5. Counting'
  BY <1>1, <1>4 DEF IInv, Counting, Counted, Away
<1>6. \A c \in Calls, v \in Workers : Awaited(c, v)' <=> Awaited(c, v)
  BY <1>1, <1>4, CallParts DEF Awaited, WorkerOf
<1>7. Pipes' /\ OneHolder' /\ OwnBoxes' /\ ClosedStaysDown'
  BY <1>1, <1>6
  DEF IInv, Pipes, CleanPipe, OneHolder, OwnBoxes, OwnBox, ClosedStaysDown
<1>8. ReturnedInv'
  <2>1. \A p \in Clients : client'[p] \in Away <=> client[p] \in Away
    BY <1>1 DEF Away
  <2>2. ASSUME NEW c \in Calls PROVE Over(c)' <=> Over(c)
    <3>1. c[1] \in Clients
      BY CallParts
    <3> QED
      BY <1>1, <2>1, <3>1 DEF Over
  <2>3. ASSUME NEW c \in Calls PROVE Service!Returned(c)' <=> Service!Returned(c)
    BY <1>1 DEF Service!Returned
  <2> QED
    BY <2>2, <2>3 DEF IInv, ReturnedInv
<1> QED
  BY <1>2, <1>3, <1>5, <1>7, <1>8 DEF IInv

\* A client makes its next call.
LEMMA CallIInv == ASSUME IInv, NEW q \in Clients, Call(q) PROVE IInv'
<1> USE DEF clientVars, resultVars, processVars
<1> DEFINE c == <<q, calls[q] + 1>>
<1>1. c \in Calls /\ calls[q] \in Nat /\ thread[c] = "none"
  BY WorkerPoolAssumption DEF Call, IInv, TypeOK, Calls, Counting, Counted
<1>2. /\ UNCHANGED <<pool, engine, target, worker, box, closed, child, inbox, outbox,
                     replies, failures>>
      /\ client[q] = "ready" /\ client' = [client EXCEPT ![q] = "waiting"]
      /\ calls' = [calls EXCEPT ![q] = calls[q] + 1]
      /\ thread' = [thread EXCEPT ![c] = "locking"]
  BY DEF Call, Goes
<1>3. TypeOK'
  BY <1>1, <1>2, WorkerPoolAssumption DEF IInv, TypeOK, Call
<1>4. Held'
  BY <1>2 DEF IInv, Held, TypeOK
<1>5. Counting'
  <2> SUFFICES ASSUME NEW p \in Clients PROVE Counted(p)'
    BY DEF Counting
  <2>1. CASE p = q
    <3>1. client'[q] = "waiting" /\ calls'[q] = calls[q] + 1
      BY <1>2 DEF IInv, TypeOK
    <3>2. ASSUME NEW n \in 1..MaxCalls
          PROVE  thread'[<<q, n>>] = "none" <=> n > calls[q] + 1
      <4>1. <<q, n>> \in Calls /\ n \in Nat
        BY WorkerPoolAssumption DEF Calls
      <4>2. thread[<<q, n>>] = "none" <=> n > calls[q]
        BY DEF IInv, Counting, Counted
      <4>3. CASE n = calls[q] + 1
        BY <1>1, <1>2, <4>1, <4>3 DEF IInv, TypeOK
      <4>4. CASE n # calls[q] + 1
        <5>1. thread'[<<q, n>>] = thread[<<q, n>>]
          BY <1>2, <4>1, <4>4 DEF IInv, TypeOK
        <5> QED
          BY <1>1, <4>1, <4>2, <4>4, <5>1
      <4> QED
        BY <4>3, <4>4
    <3> QED
      BY <1>1, <2>1, <3>1, <3>2 DEF Counted, Away
  <2>2. CASE p # q
    <3>1. client'[p] = client[p] /\ calls'[p] = calls[p]
      BY <1>2, <2>2 DEF IInv, TypeOK
    <3>2. \A n \in 1..MaxCalls : thread'[<<p, n>>] = thread[<<p, n>>]
      BY <1>2, <2>2 DEF IInv, TypeOK, Calls
    <3> QED
      BY <3>1, <3>2 DEF IInv, Counting, Counted
  <2> QED
    BY <2>1, <2>2
<1>6. \A e \in Calls, v \in Workers : Awaited(e, v)' <=> Awaited(e, v)
  BY <1>1, <1>2 DEF Awaited, WorkerOf, IInv, TypeOK
<1>7. Pipes' /\ OneHolder' /\ ClosedStaysDown'
  BY <1>2, <1>6 DEF IInv, Pipes, CleanPipe, OneHolder, ClosedStaysDown
<1>8. OwnBoxes'
  BY <1>1, <1>2 DEF IInv, TypeOK, OwnBoxes, OwnBox
<1>9. ReturnedInv'
  <2>1. ASSUME NEW e \in Calls PROVE Over(e)' <=> Over(e)
    <3>1. e[1] \in Clients /\ e[2] \in Nat
      BY CallParts
    <3>2. CASE e[1] = q
      BY <1>1, <1>2, <3>1, <3>2 DEF IInv, TypeOK, Over, Away
    <3>3. CASE e[1] # q
      <4>1. client'[e[1]] = client[e[1]] /\ calls'[e[1]] = calls[e[1]]
        BY <1>2, <3>1, <3>3 DEF IInv, TypeOK
      <4> QED
        BY <4>1 DEF Over
    <3> QED
      BY <3>2, <3>3
  <2>2. ASSUME NEW e \in Calls PROVE Service!Returned(e)' <=> Service!Returned(e)
    BY <1>2 DEF Service!Returned
  <2> QED
    BY <2>1, <2>2 DEF IInv, ReturnedInv
<1> QED
  BY <1>3, <1>4, <1>5, <1>7, <1>8, <1>9 DEF IInv

\* A client that waits for its call goes on, whether or not the call returns.
LEMMA GoesIInv ==
  ASSUME IInv, NEW q \in Clients, client[q] \in Away,
         NEW to \in {"ready", "interrupt", "join"}, client' = [client EXCEPT ![q] = to],
         UNCHANGED <<pool, engine, target, worker, calls, thread, box, closed>>,
         replies' \subseteq Calls \X Calls, failures' \subseteq Calls
  PROVE  /\ Held' /\ Counting' /\ OwnBoxes'
         /\ child' \in [Workers -> {"none", "alive", "dead"}]
               /\ inbox' \in [Workers -> Seq(Calls)] /\ outbox' \in [Workers -> Seq(Calls)]
            => TypeOK'
         /\ \A c \in Calls : c # Current(q) => (Over(c)' <=> Over(c))
         /\ ~Over(Current(q)) /\ (Over(Current(q))' <=> to = "ready")
<1>1. Current(q) \in Calls /\ Current(q)[1] = q /\ Current(q)[2] = calls[q] /\ calls[q] \in Nat
  BY CurrentIsCall, CallParts
<1>2. /\ client'[q] = to
      /\ \A p \in Clients : p # q => client'[p] = client[p]
  BY DEF IInv, TypeOK
<1>3. Held'
  BY <1>2 DEF IInv, Held, Away
<1>4. Counting'
  <2> SUFFICES ASSUME NEW p \in Clients PROVE Counted(p)'
    BY DEF Counting
  <2>1. Counted(p)
    BY DEF IInv, Counting
  <2> QED
    BY <1>2, <2>1 DEF Counted, Away
<1>5. OwnBoxes'
  BY DEF IInv, OwnBoxes, OwnBox
<1>6. client' \in [Clients -> {"idle", "make", "ready", "waiting", "interrupt", "join"}]
  BY DEF IInv, TypeOK
<1>7. /\ child' \in [Workers -> {"none", "alive", "dead"}]
      /\ inbox' \in [Workers -> Seq(Calls)] /\ outbox' \in [Workers -> Seq(Calls)]
      => TypeOK'
  BY <1>6 DEF IInv, TypeOK
<1>8. ASSUME NEW c \in Calls, c # Current(q) PROVE Over(c)' <=> Over(c)
  <2>1. c[1] \in Clients /\ c[2] \in Nat /\ c = <<c[1], c[2]>>
    BY CallParts
  <2>2. CASE c[1] = q
    <3>1. c[2] # calls[q]
      BY <1>8, <2>1, <2>2 DEF Current
    <3> QED
      BY <2>1, <2>2, <3>1 DEF Over
  <2>3. CASE c[1] # q
    BY <1>2, <2>1, <2>3 DEF Over
  <2> QED
    BY <2>2, <2>3
<1>9. ~Over(Current(q)) /\ (Over(Current(q))' <=> to = "ready")
  <2>1. Current(q)' = Current(q)
    BY DEF Current
  <2>2. ~Over(Current(q))
    BY <1>1 DEF Over
  <2>3. Over(Current(q))' <=> client'[q] \notin Away
    BY <1>1, <2>1 DEF Over
  <2> QED
    BY <1>2, <2>2, <2>3 DEF Away
<1> QED
  BY <1>3, <1>4, <1>5, <1>7, <1>8, <1>9

\* When nothing but its client and its result change, the processes are as they were.
LEMMA ProcessesStay ==
  ASSUME IInv, UNCHANGED <<worker, thread, closed, processVars>>
  PROVE  OneHolder' /\ Pipes' /\ ClosedStaysDown'
  BY DEF IInv, OneHolder, Pipes, CleanPipe, Awaited, WorkerOf, ClosedStaysDown, processVars

\* A client takes its result: the reply to its own call, or none.
LEMMA TakeResult ==
  ASSUME IInv, NEW q \in Clients, Take(q)
  PROVE  /\ Current(q) \in Calls /\ client[q] \in Away
         /\ client' = [client EXCEPT ![q] = "ready"]
         /\ \/ replies' = replies /\ failures' = failures \cup {Current(q)}
            \/ replies' = replies \cup {<<Current(q), Current(q)>>} /\ failures' = failures
<1>1. client[q] \in Away /\ client' = [client EXCEPT ![q] = "ready"]
  BY DEF Take, Goes, Away
<1>2. Current(q) \in Calls
  BY <1>1, CurrentIsCall
<1> DEFINE result == Head(box[Current(q)])
<1>3. result \subseteq {Current(q)}
  BY <1>2 DEF IInv, OwnBoxes, OwnBox, Take
<1>4. /\ replies' = replies \cup {<<Current(q), d>> : d \in result}
      /\ failures' = IF result = {} THEN failures \cup {Current(q)} ELSE failures
  BY DEF Take
<1>5. CASE result = {}
  BY <1>1, <1>2, <1>4, <1>5
<1>6. CASE result = {Current(q)}
  BY <1>1, <1>2, <1>4, <1>6
<1> QED
  BY <1>3, <1>5, <1>6

\* A call of a client returns, with its own reply or without one.
LEMMA ReturnsIInv ==
  ASSUME IInv, NEW q \in Clients, client[q] \in Away, Current(q) \in Calls,
         client' = [client EXCEPT ![q] = "ready"],
         UNCHANGED <<pool, engine, target, worker, calls, thread, box, closed,
                     processVars>>,
         \/ replies' = replies /\ failures' = failures \cup {Current(q)}
         \/ replies' = replies \cup {<<Current(q), Current(q)>>} /\ failures' = failures
  PROVE  IInv'
<1>1. replies' \subseteq Calls \X Calls /\ failures' \subseteq Calls
  BY DEF IInv, TypeOK
<1>2. /\ Held' /\ Counting' /\ OwnBoxes'
      /\ child' \in [Workers -> {"none", "alive", "dead"}]
            /\ inbox' \in [Workers -> Seq(Calls)] /\ outbox' \in [Workers -> Seq(Calls)]
         => TypeOK'
      /\ \A c \in Calls : c # Current(q) => (Over(c)' <=> Over(c))
      /\ Over(Current(q))'
  BY <1>1, GoesIInv
<1>3. TypeOK'
  BY <1>2 DEF IInv, TypeOK, processVars
<1>4. OneHolder' /\ Pipes' /\ ClosedStaysDown'
  BY ProcessesStay
<1>5. ASSUME NEW c \in Calls PROVE Service!Returned(c)' <=> Over(c)'
  <2>1. Service!Returned(c)' <=> Service!Returned(c) \/ c = Current(q)
    <3>1. CASE replies' = replies /\ failures' = failures \cup {Current(q)}
      BY <3>1 DEF Service!Returned
    <3>2. CASE replies' = replies \cup {<<Current(q), Current(q)>>} /\ failures' = failures
      <4>1. \A d \in Calls :
               <<c, d>> \in replies' <=> <<c, d>> \in replies \/ (c = Current(q) /\ d = c)
        BY <3>2
      <4> QED
        BY <3>2, <4>1 DEF Service!Returned, Service!Calls, Calls
    <3> QED
      BY <3>1, <3>2
  <2>2. CASE c = Current(q)
    BY <1>2, <2>1, <2>2 DEF Over, Current
  <2>3. CASE c # Current(q)
    BY <1>2, <2>1, <2>3 DEF IInv, ReturnedInv
  <2> QED
    BY <2>2, <2>3
<1> QED
  BY <1>2, <1>3, <1>4, <1>5 DEF IInv, ReturnedInv

\* A client gives up, and interrupts a worker that no request uses.
LEMMA GiveUpIInv ==
  ASSUME IInv, NEW q \in Clients, GiveUp(q) \/ Interrupt(q)
  PROVE  IInv'
<1> USE DEF resultVars
<1>1. PICK to \in {"interrupt", "join"} :
         client[q] \in Away /\ client' = [client EXCEPT ![q] = to]
  BY DEF GiveUp, Interrupt, Goes, Away
<1>2. UNCHANGED <<pool, engine, target, worker, calls, thread, box, closed, replies,
                  failures>>
  BY DEF GiveUp, Interrupt
<1>3. replies' \subseteq Calls \X Calls /\ failures' \subseteq Calls
  BY <1>2 DEF IInv, TypeOK
<1>4. /\ Held' /\ Counting' /\ OwnBoxes'
      /\ child' \in [Workers -> {"none", "alive", "dead"}]
            /\ inbox' \in [Workers -> Seq(Calls)] /\ outbox' \in [Workers -> Seq(Calls)]
         => TypeOK'
      /\ \A c \in Calls : c # Current(q) => (Over(c)' <=> Over(c))
      /\ ~Over(Current(q)) /\ ~Over(Current(q))'
  BY <1>1, <1>2, <1>3, GoesIInv
<1>5. TypeOK' /\ OneHolder' /\ Pipes' /\ ClosedStaysDown'
  <2>1. CASE GiveUp(q)
    <3>1. OneHolder' /\ Pipes' /\ ClosedStaysDown'
      BY <2>1, ProcessesStay DEF GiveUp
    <3>2. TypeOK'
      BY <1>4, <2>1 DEF GiveUp, IInv, TypeOK, processVars
    <3> QED
      BY <3>1, <3>2
  <2>2. CASE Interrupt(q)
    <3>1. worker[q] \in Workers /\ Free(worker[q]) /\ Terminate(worker[q])
      BY <1>1, <2>2 DEF Interrupt, IInv, Held, TypeOK, Away
    <3>2. /\ child' \in [Workers -> {"none", "alive", "dead"}] /\ child'[worker[q]] = "none"
          /\ inbox' \in [Workers -> Seq(Calls)] /\ outbox' \in [Workers -> Seq(Calls)]
          /\ \A v \in Workers : v # worker[q] => child'[v] = child[v]
          /\ Pipes' /\ OneHolder'
      BY <1>2, <3>1, TerminateFree
    <3> QED
      BY <1>2, <1>4, <3>2 DEF IInv, ClosedStaysDown
  <2> QED
    BY <2>1, <2>2
<1>6. ASSUME NEW c \in Calls PROVE Service!Returned(c)' <=> Over(c)'
  <2>1. Service!Returned(c)' <=> Service!Returned(c)
    BY <1>2 DEF Service!Returned
  <2>2. Over(c)' <=> Over(c)
    BY <1>2, <1>4 DEF Over, Current
  <2> QED
    BY <2>1, <2>2 DEF IInv, ReturnedInv
<1> QED
  BY <1>4, <1>5, <1>6 DEF IInv, ReturnedInv

\* The clients.
LEMMA ClientStepIInv == ASSUME IInv, NEW q \in Clients, ClientStep(q) PROVE IInv'
<1>1. CASE GetWorker(q) \/ MakeWorker(q)
  BY <1>1, WorkerFoundIInv
<1>2. CASE Call(q)
  BY <1>2, CallIInv
<1>3. CASE Take(q)
  BY <1>3, TakeResult, ReturnsIInv DEF Take
<1>4. CASE GiveUp(q) \/ Interrupt(q)
  BY <1>4, GiveUpIInv
<1>5. CASE JoinEnds(q)
  <2>1. client[q] \in Away /\ client' = [client EXCEPT ![q] = "ready"]
    BY <1>5 DEF JoinEnds, Goes, Away
  <2> QED
    BY <1>5, <2>1, CurrentIsCall, ReturnsIInv DEF JoinEnds
<1> QED
  BY <1>1, <1>2, <1>3, <1>4, <1>5 DEF ClientStep

-----------------------------------------------------------------------------
(* ResearchEngine.close *)

\* A worker is closed when its lock is free, and goes down with its pipe.
LEMMA CloseIInv == ASSUME IInv, BeginClose \/ CloseWorker \/ ClearPool PROVE IInv'
<1> USE DEF clientVars, resultVars
<1>1. UNCHANGED <<worker, client, calls, thread, box, replies, failures>>
  BY DEF BeginClose, CloseWorker, ClearPool
<1>2. Held' /\ Counting' /\ OwnBoxes' /\ ReturnedInv'
  BY <1>1
  DEF IInv, Held, Counting, Counted, OwnBoxes, OwnBox, ReturnedInv, Over, Service!Returned
<1>3. CASE BeginClose \/ ClearPool
  <2>1. TypeOK'
    BY <1>1, <1>3, WorkerPoolAssumption DEF BeginClose, ClearPool, IInv, TypeOK, processVars
  <2>2. OneHolder' /\ Pipes' /\ ClosedStaysDown'
    BY <1>1, <1>3, ProcessesStay DEF BeginClose, ClearPool
  <2> QED
    BY <1>2, <2>1, <2>2 DEF IInv
<1>4. CASE CloseWorker
  <2>1. target \in Workers
    BY <1>4 DEF CloseWorker, IInv, TypeOK
  <2>2. /\ child' \in [Workers -> {"none", "alive", "dead"}] /\ child'[target] = "none"
        /\ inbox' \in [Workers -> Seq(Calls)] /\ outbox' \in [Workers -> Seq(Calls)]
        /\ \A v \in Workers : v # target => child'[v] = child[v]
        /\ Pipes' /\ OneHolder'
    BY <1>1, <1>4, <2>1, TerminateFree DEF CloseWorker
  <2>3. TypeOK'
    BY <1>1, <1>4, <2>1, <2>2 DEF CloseWorker, IInv, TypeOK
  <2>4. ClosedStaysDown'
    BY <1>4, <2>1, <2>2 DEF CloseWorker, IInv, TypeOK, ClosedStaysDown
  <2> QED
    BY <1>2, <2>2, <2>3, <2>4 DEF IInv
<1> QED
  BY <1>3, <1>4

-----------------------------------------------------------------------------
(* The inductive invariant *)

\* Every step preserves the strengthening.
LEMMA NextIInv == ASSUME IInv, [Next]_vars PROVE IInv'
<1>1. CASE \E c \in Calls : RequestStep(c)
  BY <1>1, RequestStepIInv
<1>2. CASE \E q \in Clients : ClientStep(q)
  BY <1>2, ClientStepIInv
<1>3. CASE \E w \in Workers : ChildStep(w)
  BY <1>3, ChildStepIInv
<1>4. CASE BeginClose \/ CloseWorker \/ ClearPool
  BY <1>4, CloseIInv
<1>5. CASE UNCHANGED vars
  <2>1. OneHolder' /\ Pipes' /\ ClosedStaysDown'
    BY <1>5, ProcessesStay DEF vars, clientVars
  <2>2. TypeOK' /\ Held' /\ Counting' /\ OwnBoxes' /\ ReturnedInv'
    BY <1>5
    DEF vars, clientVars, processVars, resultVars, IInv, TypeOK, Held, Counting, Counted,
        OwnBoxes, OwnBox, ReturnedInv, Over, Service!Returned
  <2> QED
    BY <2>1, <2>2 DEF IInv
<1> QED
  BY <1>1, <1>2, <1>3, <1>4, <1>5 DEF Next

\* It holds in every reachable state.
LEMMA Inductive == Spec => []IInv
  BY InitIInv, NextIInv, PTL DEF Spec

\* Every reachable state is of its type: in particular a call in flight is a call of
\* its client, and a result_box, a queue of one, is put to at most once, so that no
\* request thread blocks on it.
THEOREM TypeCorrect == Spec => []TypeOK
<1>1. IInv => TypeOK
  BY DEF IInv
<1> QED
  BY <1>1, Inductive, PTL

\* A worker that ResearchEngine.close has closed never has a process again, whichever
\* abandoned request threads still come for its lock.
THEOREM ClosedStaysDownHolds == Spec => []ClosedStaysDown
<1>1. IInv => ClosedStaysDown
  BY DEF IInv
<1> QED
  BY <1>1, Inductive, PTL

\* Whoever gets the lock of a worker finds no reply to another request in its pipe:
\* after every timeout, error, crash and interrupt.
THEOREM PipeIsCleanHolds == Spec => []PipeIsClean
<1>1. IInv => PipeIsClean
  BY FreePipe DEF PipeIsClean
<1> QED
  BY <1>1, Inductive, PTL

-----------------------------------------------------------------------------
(* The pool implements the service *)

\* The requests and the processes are not seen by the service.
LEMMA HiddenStep ==
  ASSUME IInv, UNCHANGED resultVars,
         \A c \in Calls : thread'[c] = "none" <=> thread[c] = "none"
  PROVE  UNCHANGED Service!serviceVars
  BY DEF Service!serviceVars, Asked, resultVars

\* A call is asked when the calls before it have returned.
LEMMA CallAsks ==
  ASSUME IInv, NEW q \in Clients, Call(q)
  PROVE  Service!Ask(<<q, calls[q] + 1>>)
<1> DEFINE c == <<q, calls[q] + 1>>
<1>1. c \in Calls /\ calls[q] \in Nat /\ thread[c] = "none" /\ client[q] = "ready"
  BY WorkerPoolAssumption DEF Call, Goes, IInv, TypeOK, Calls, Counting, Counted
<1>2. /\ thread' = [thread EXCEPT ![c] = "locking"]
      /\ UNCHANGED <<replies, failures>>
  BY DEF Call, resultVars
<1>3. c \notin Asked /\ Asked' = Asked \cup {c}
  BY <1>1, <1>2 DEF Asked, IInv, TypeOK
<1>4. ASSUME NEW m \in 1..calls[q] PROVE Service!Returned(<<q, m>>)
  <2>1. <<q, m>> \in Calls /\ m \in Nat
    BY <1>1, WorkerPoolAssumption DEF IInv, TypeOK, Calls
  <2>2. Over(<<q, m>>)
    BY <1>1, <2>1 DEF Over, Away
  <2> QED
    BY <2>1, <2>2 DEF IInv, ReturnedInv
<1>5. c[1] = q /\ c[2] - 1 = calls[q]
  BY <1>1
<1> QED
  BY <1>2, <1>3, <1>4, <1>5 DEF Service!Ask

\* A call that a client waits for was asked, and has not returned.
LEMMA CurrentIsOpen ==
  ASSUME IInv, NEW q \in Clients, client[q] \in Away
  PROVE  /\ Current(q) \in Calls /\ Current(q) \in Asked
         /\ ~Service!Returned(Current(q))
<1>1. Current(q) \in Calls /\ Current(q)[1] = q /\ Current(q)[2] = calls[q] /\ calls[q] \in Nat
  BY CurrentIsCall, CallParts
<1>2. thread[Current(q)] # "none"
  BY <1>1, CallParts DEF IInv, Counting, Counted, Current
<1>3. ~Over(Current(q))
  BY <1>1 DEF Over
<1> QED
  BY <1>1, <1>2, <1>3 DEF IInv, ReturnedInv, Asked

\* Each step of the pool is a step of the service, or none.
LEMMA StepImplements ==
  ASSUME IInv, [Next]_vars
  PROVE  [Service!ServiceNext]_Service!serviceVars
<1>1. ASSUME NEW c \in Calls, RequestStep(c)
      PROVE  UNCHANGED Service!serviceVars
  <2>1. thread[c] # "none" /\ UNCHANGED resultVars
    BY <1>1
    DEF RequestStep, Send, SendFails, SendRefused, Receive, ReceiveFails, PollTimesOut, Finish
  <2>2. PICK to \in {"polling", "done"} : thread' = [thread EXCEPT ![c] = to]
    BY <1>1
    DEF RequestStep, Send, SendFails, SendRefused, Receive, ReceiveFails, PollTimesOut, Finish
  <2> QED
    BY <2>1, <2>2, HiddenStep DEF IInv, TypeOK
<1>2. ASSUME NEW w \in Workers, ChildStep(w)
      PROVE  UNCHANGED Service!serviceVars
  BY <1>2, HiddenStep DEF ChildStep, Serve, Die
<1>3. CASE BeginClose \/ CloseWorker \/ ClearPool
  BY <1>3, HiddenStep DEF BeginClose, CloseWorker, ClearPool
<1>4. ASSUME NEW q \in Clients, ClientStep(q)
      PROVE  [Service!ServiceNext]_Service!serviceVars
  <2>1. CASE GetWorker(q) \/ MakeWorker(q) \/ GiveUp(q) \/ Interrupt(q)
    BY <2>1, HiddenStep DEF GetWorker, MakeWorker, GiveUp, Interrupt
  <2>2. CASE Call(q)
    <3>1. <<q, calls[q] + 1>> \in Service!Calls
      BY <2>2, WorkerPoolAssumption DEF Call, IInv, TypeOK, Service!Calls
    <3> QED
      BY <2>2, <3>1, CallAsks DEF Service!ServiceNext
  <2>3. CASE Take(q) \/ JoinEnds(q)
    <3>1. client[q] \in Away /\ thread' = thread
      BY <2>3 DEF Take, JoinEnds, Goes, Away
    <3>2. /\ Current(q) \in Service!Calls /\ Current(q) \in Asked
          /\ ~Service!Returned(Current(q)) /\ Asked' = Asked
      BY <3>1, CurrentIsOpen DEF Asked, Calls, Service!Calls
    <3>3. \/ replies' = replies /\ failures' = failures \cup {Current(q)}
          \/ replies' = replies \cup {<<Current(q), Current(q)>>} /\ failures' = failures
      BY <2>3, TakeResult DEF JoinEnds
    <3>4. Service!Reply(Current(q)) \/ Service!Fail(Current(q))
      BY <3>2, <3>3 DEF Service!Reply, Service!Fail
    <3> QED
      BY <3>2, <3>4 DEF Service!ServiceNext
  <2> QED
    BY <1>4, <2>1, <2>2, <2>3 DEF ClientStep
<1>5. CASE UNCHANGED vars
  BY <1>5, HiddenStep DEF vars
<1> QED
  BY <1>1, <1>2, <1>3, <1>4, <1>5 DEF Next

\* Whatever the process, the deadlines, the interrupts and the close do, a call of a
\* query returns at most once, with the reply to that very call or as failed, and a
\* client's next call comes after it.
THEOREM ImplementsServiceHolds == Spec => ImplementsService
<1>1. Init => Service!ServiceInit
  BY DEF Init, Service!ServiceInit, Asked
<1>2. IInv /\ [Next]_vars => [Service!ServiceNext]_Service!serviceVars
  BY StepImplements
<1> QED
  BY <1>1, <1>2, Inductive, PTL DEF Spec, ImplementsService, Service!ServiceSpec

=============================================================================
