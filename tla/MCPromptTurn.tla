--------------------------- MODULE MCPromptTurn ---------------------------
(***************************************************************************)
(* Instances of PromptTurn for TLC: a tool of each path through the        *)
(* checks.                                                                 *)
(***************************************************************************)
EXTENDS PromptTurn

AllTools == DOMAIN Kind
===========================================================================
