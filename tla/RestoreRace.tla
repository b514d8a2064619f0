---------------------------- MODULE RestoreRace ----------------------------
(***************************************************************************)
(* SessionStore with a history variable: for each restore, the turns that  *)
(* had begun when it first read the disk.  Every other turn began while    *)
(* the restore was under way, after that read.                             *)
(***************************************************************************)
EXTENDS SessionStore

VARIABLE begun   \* history variable: [Loader -> SUBSET Turn]

Reads(l) == \E s \in Session : ReadMeta(l, s)
Begun == {t \in Turn : turn[t].pc # "new"}

RaceInit == Init /\ begun = [l \in Loader |-> {}]
RaceNext ==
  Next /\ begun' = [l \in Loader |-> IF Reads(l) THEN Begun ELSE begun[l]]
RaceSpec == RaceInit /\ [][RaceNext]_<<vars, begun>>

(* session_store.rs: a restore "cannot discard a turn that started while   *)
(* it was awaiting I/O".  What a turn that began after the restore's first *)
(* read had saved when it publishes should still be in the conversation.   *)
RestoreKeepsTurns ==
  [][\A l \in Loader : Publish(l) =>
       {m \in acked[loader[l].on] : m[1] \notin begun[l]}
         \subseteq Range(history'[loader[l].on])]_vars
===========================================================================
