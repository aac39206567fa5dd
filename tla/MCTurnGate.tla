------------------------------ MODULE MCTurnGate ------------------------------
(***************************************************************************)
(* Two turn requests on one session, and queues of one frame.              *)
(***************************************************************************)
EXTENDS TurnGate

CONSTANTS t1, t2

=============================================================================
