---------------------------- MODULE WorkerService ----------------------------
(***************************************************************************)
(* What a query may expect of the workers it calls (the contract of        *)
(* _call_worker_dispatch, tutor/retrieval/research.py): a call returns     *)
(* once, with the reply to that very call or as failed, and the next call  *)
(* is made after it.  WorkerPool implements it.                            *)
(***************************************************************************)
EXTENDS Naturals

CONSTANTS
    Clients,  \* the threads that call
    MaxCalls  \* bound: calls of one thread

VARIABLES
    asked,    \* calls made
    replies,  \* pairs of a call that returned and the call its reply belongs to
    failures  \* calls that returned without a reply

serviceVars == <<asked, replies, failures>>

Calls == Clients \X (1..MaxCalls)

Returned(c) == c \in failures \/ \E d \in Calls : <<c, d>> \in replies

ServiceInit == asked = {} /\ replies = {} /\ failures = {}

Ask(c) ==
    /\ c \notin asked
    /\ \A m \in 1..(c[2] - 1) : Returned(<<c[1], m>>)
    /\ asked' = asked \cup {c}
    /\ UNCHANGED <<replies, failures>>

Reply(c) ==
    /\ c \in asked /\ ~Returned(c)
    /\ replies' = replies \cup {<<c, c>>}
    /\ UNCHANGED <<asked, failures>>

Fail(c) ==
    /\ c \in asked /\ ~Returned(c)
    /\ failures' = failures \cup {c}
    /\ UNCHANGED <<asked, replies>>

ServiceNext == \E c \in Calls : Ask(c) \/ Reply(c) \/ Fail(c)

ServiceSpec == ServiceInit /\ [][ServiceNext]_serviceVars

\* A call returns, whatever the archive's process does.
ServiceFairness == \A c \in Calls : WF_serviceVars(Reply(c) \/ Fail(c))

FairServiceSpec == ServiceSpec /\ ServiceFairness

=============================================================================
