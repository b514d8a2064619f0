----------------------------- MODULE MCFileEdit -----------------------------
(***************************************************************************)
(* Instances of FileEdit for TLC: a document with a unique match, another  *)
(* one with it, one without, and what the tools make of them.              *)
(***************************************************************************)
EXTENDS FileEdit

Texts == {"draft", "other", "plain", "new"}
Matching == {"draft", "other"}
Edits == [draft |-> "new", other |-> "plain"]
=============================================================================
