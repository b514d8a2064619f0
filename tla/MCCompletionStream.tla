------------------------ MODULE MCCompletionStream ------------------------
(***************************************************************************)
(* The instance of CompletionStream for TLC.  One retry is enough for a    *)
(* replay to show, since the task forgets how many it made; three events   *)
(* hold a finish between two usage reports, and a call with or without its *)
(* beginning before a finish.  Two units are enough for a report to fit    *)
(* and not to fit, in the tokens and in the cost.                          *)
(***************************************************************************)
EXTENDS CompletionStream

Attempts == 2
Events == 3
===========================================================================
