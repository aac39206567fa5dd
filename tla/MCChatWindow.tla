----------------------------- MODULE MCChatWindow -----------------------------
(***************************************************************************)
(* An instance of ChatWindow for TLC: a window that sends up to three      *)
(* messages.                                                               *)
(***************************************************************************)
EXTENDS ChatWindow

=============================================================================
