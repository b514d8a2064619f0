--------------------------- MODULE MCRestoreRace ---------------------------
(***************************************************************************)
(* The smallest instance of RestoreRace: one turn, one restore, no servers.*)
(***************************************************************************)
EXTENDS RestoreRace

NoServers == <<>>
===========================================================================
