-------------------------- MODULE MCSessionStore --------------------------
(***************************************************************************)
(* Instances of SessionStore for TLC.  One server is enough: connecting is *)
(* all or nothing, and one with a limit can end in every way.              *)
(***************************************************************************)
EXTENDS SessionStore

OneServer == <<"sse">>
NoServers == <<>>
===========================================================================
