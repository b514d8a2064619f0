-------------------------- MODULE TurnOwnership --------------------------
(***************************************************************************)
(* What the session store promises about prompt turns: a session id is an  *)
(* exclusive resource.  A turn claims it while nobody owns it, works as    *)
(* its owner, and is the one that releases it; removing or restoring the   *)
(* session in the meantime never transfers or drops the claim.  Only the   *)
(* death of the process ends every claim at once.                          *)
(***************************************************************************)
CONSTANTS Session, Turn, NoTurn

VARIABLES
  owner,     \* the turn that owns each session id
  working    \* the turns that have claimed an id and not released it

Init ==
  /\ owner = [s \in Session |-> NoTurn]
  /\ working = {}

Claim(t, s) ==
  /\ owner[s] = NoTurn
  /\ t \notin working
  /\ owner' = [owner EXCEPT ![s] = t]
  /\ working' = working \cup {t}

Release(t, s) ==
  /\ owner[s] = t
  /\ t \in working
  /\ owner' = [owner EXCEPT ![s] = NoTurn]
  /\ working' = working \ {t}

Restart ==
  /\ owner' = [s \in Session |-> NoTurn]
  /\ working' = {}

Next ==
  \/ \E t \in Turn, s \in Session : Claim(t, s) \/ Release(t, s)
  \/ Restart

Spec == Init /\ [][Next]_<<owner, working>>
===========================================================================
