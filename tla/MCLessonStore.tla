----------------------------- MODULE MCLessonStore -----------------------------
(***************************************************************************)
(* Two windows and the lessons of one library.                             *)
(***************************************************************************)
EXTENDS LessonStore

Windows == Permutations(Clients)

\* One fault in a behaviour: a crash, or a statement that raises.
OneFault == failures + crashes <= 1

===============================================================================
