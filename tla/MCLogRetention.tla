-------------------------- MODULE MCLogRetention ---------------------------
(***************************************************************************)
(* The instance of LogRetention for TLC: an agent bounded in size, and in  *)
(* age too, beside one whose settings leave it unbounded.                  *)
(***************************************************************************)
EXTENDS LogRetention, TLC

CONSTANTS bounded, unbounded, malformed

Logs == Permutations(Log)
Settings ==
  (bounded :> [size |-> 1, age |-> 1]) @@ (unbounded :> [size |-> malformed, age |-> 9])
=============================================================================
