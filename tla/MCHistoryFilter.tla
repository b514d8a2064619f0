-------------------------- MODULE MCHistoryFilter --------------------------
(***************************************************************************)
(* Instances of HistoryFilter for TLC: short messages that all fit, a long *)
(* one that crowds out others, and an instruction that leaves less room    *)
(* after a mode change.                                                    *)
(***************************************************************************)
EXTENDS HistoryFilter

Lengths == {0, 2, 5}
Instructions == {1, 3}
===========================================================================
