----------------------------- MODULE MCTerminal -----------------------------
(***************************************************************************)
(* The instance of Terminal for TLC: any request may be refused.           *)
(***************************************************************************)
EXTENDS Terminal

AnyRequest == Request
=============================================================================
