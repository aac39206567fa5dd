------------------------------ MODULE Calculator ------------------------------
(***************************************************************************)
(* The calculator tool: evaluate (tutor/tools/calc_tool.py) and the fresh  *)
(* child process it starts for each expression (tutor/tools/calc_worker).  *)
(*                                                                         *)
(* The parent waits for the child's ready line, sends the expression, then *)
(* polls for the one line of result, the clock and the child's memory.     *)
(* The child may die, or never answer, at any point.  Time is whether the  *)
(* deadline has passed: it runs from before the child is started.          *)
(***************************************************************************)
EXTENDS Integers

CONSTANTS
    Interpreter,  \* memory of the interpreter that reports itself ready
    Library,      \* memory that importing the algebra library takes
    Works,        \* memory an expression may take on top of that
    MemoryLimit   \* memory_limit_mb

ASSUME CalculatorAssumption ==
    {Interpreter, Library, MemoryLimit} \subseteq Nat /\ Works \subseteq Nat

VARIABLES
    calcPc,    \* where evaluate is: "idle", "startup", "poll"
    child,     \* the child process, see ChildStates
    late,      \* the deadline has passed
    baseline,  \* baseline_rss, 0 until it is known
    rss,       \* the child's memory
    verdict    \* how the last evaluation ended

calcVars == <<calcPc, child, late, baseline, rss, verdict>>

\* "loading" until the ready line is written, "ready" to read the expression,
\* "asked" when it has one, "computing" once the library is loaded, "answered" with
\* its line written, "exited" when it died by itself.  "killed" by the parent.
ChildStates == {"none", "loading", "ready", "asked", "computing", "answered",
                "exited", "killed"}
Alive == {"loading", "ready", "asked", "computing", "answered"}
Verdicts == {"none", "refused", "nostart", "startup", "unsent", "memory", "time",
             "result"}

CalcInit ==
    /\ calcPc = "idle" /\ child = "none" /\ late = FALSE
    /\ baseline = 0 /\ rss = 0 /\ verdict = "none"

-----------------------------------------------------------------------------
(* The parent *)

\* Every way out of evaluate, once the child has been started, kills it.
Finish(how) ==
    /\ verdict' = how
    /\ calcPc' = "idle" /\ late' = FALSE /\ baseline' = 0 /\ rss' = 0
    /\ child' = "killed"

\* An expression that is empty or too long starts no process; neither does a
\* system that cannot.
CalcRefuses ==
    /\ calcPc = "idle"
    /\ verdict' \in {"refused", "nostart"}
    /\ UNCHANGED <<calcPc, child, late, baseline, rss>>

CalcStarts ==
    /\ calcPc = "idle"
    /\ calcPc' = "startup" /\ child' = "loading" /\ rss' = Interpreter
    /\ verdict' = "none"
    /\ UNCHANGED <<late, baseline>>

\* The startup wait is its own: the deadline does not end it.
StartupExpires ==
    /\ calcPc = "startup" /\ child \notin {"ready", "exited"}
    /\ Finish("startup")

\* The ready line, or the empty line of a child that died: the expression is
\* written either way, which fails, if it fails, because nobody reads.
CalcAsks ==
    /\ calcPc = "startup"
    /\ \/ /\ child = "ready"
          /\ baseline' = rss /\ child' = "asked" /\ calcPc' = "poll"
          /\ UNCHANGED <<late, rss, verdict>>
       \/ /\ child = "exited"
          /\ \/ calcPc' = "poll" /\ UNCHANGED <<child, late, baseline, rss, verdict>>
             \/ Finish("unsent")

\* The child's line, or the end of its output, which counts as no result.
CalcReads ==
    /\ calcPc = "poll" /\ ~late
    /\ \/ child = "answered" /\ Finish("result")
       \/ child = "exited" /\ Finish("time")

\* The memory check of a poll that found no line.
CalcOverMemory ==
    /\ calcPc = "poll" /\ ~late
    /\ rss - baseline > MemoryLimit
    /\ Finish("memory")

\* Mutant: the child that ran out of time is left to finish by itself.
CalcOverTimeLeaves ==
    /\ calcPc = "poll" /\ late
    /\ verdict' = "time"
    /\ calcPc' = "idle" /\ late' = FALSE /\ baseline' = 0 /\ rss' = 0
    /\ UNCHANGED child

\* After the deadline the line is not looked at, even if it is there.
CalcOverTime ==
    /\ calcPc = "poll" /\ late
    /\ Finish("time")

Deadline ==
    /\ calcPc # "idle" /\ ~late
    /\ late' = TRUE
    /\ UNCHANGED <<calcPc, child, baseline, rss, verdict>>

-----------------------------------------------------------------------------
(* The child *)

\* The ready line reports the memory of the process as it is then: the library is
\* imported by the first sub-expression that needs it.
ChildReady ==
    /\ child = "loading"
    /\ child' = "ready"
    /\ UNCHANGED <<calcPc, late, baseline, rss, verdict>>

ChildImports ==
    /\ child = "asked"
    /\ child' = "computing" /\ rss' = rss + Library
    /\ UNCHANGED <<calcPc, late, baseline, verdict>>

ChildComputes ==
    /\ child = "computing"
    /\ \E w \in Works : rss' = Interpreter + Library + w
    /\ rss' # rss
    /\ UNCHANGED <<calcPc, child, late, baseline, verdict>>

\* A value, or the error of an expression outside the whitelist (for which the
\* library need not have been imported).
ChildAnswers ==
    /\ child \in {"asked", "computing"}
    /\ child' = "answered"
    /\ UNCHANGED <<calcPc, late, baseline, rss, verdict>>

\* What the child has written stays in the pipe when it dies.
ChildDies ==
    /\ child \in {"loading", "asked", "computing"}
    /\ child' = "exited" /\ rss' = 0
    /\ UNCHANGED <<calcPc, late, baseline, verdict>>

CalcParent ==
    StartupExpires \/ CalcAsks \/ CalcReads \/ CalcOverMemory \/ CalcOverTime
CalcChild == ChildReady \/ ChildImports \/ ChildComputes \/ ChildAnswers \/ ChildDies

-----------------------------------------------------------------------------

\* Types of the calculator, parent and child.
CalcTypeOK ==
    /\ calcPc \in {"idle", "startup", "poll"}
    /\ child \in ChildStates
    /\ late \in BOOLEAN
    /\ baseline \in Nat /\ rss \in Nat
    /\ verdict \in Verdicts

=============================================================================
