---------------------------- MODULE MCAnswerRound ----------------------------
(***************************************************************************)
(* An instance of AnswerRound for TLC: two sentences and a short form of   *)
(* one of them, which suffices for runs, cycles and units that do not      *)
(* count.                                                                  *)
(***************************************************************************)
EXTENDS AnswerRound

Unit(f, l) == [form |-> f, long |-> l]
Sentences == {Unit("a", TRUE), Unit("b", TRUE), Unit("a", FALSE)}

=============================================================================
