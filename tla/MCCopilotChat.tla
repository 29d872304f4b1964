---------------------------- MODULE MCCopilotChat ----------------------------
(* Values of the constants of CopilotChat for TLC. *)
EXTENDS CopilotChat
=============================================================================
