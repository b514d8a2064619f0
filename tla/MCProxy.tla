------------------------------ MODULE MCProxy ------------------------------
(***************************************************************************)
(* Instances of Proxy for TLC.  Four conversations are about attribution:  *)
(* a session is created under a usable or an unusable id, both peers ask   *)
(* under one id, and a request id is used again; there the agent exits.    *)
(* In the other two all processes may end in any way, the agent in the     *)
(* middle of a line.  In one the agent's last answer lacks its end.        *)
(***************************************************************************)
EXTENDS Proxy

LOCAL F(from, kind, id, session, about, after) ==
  [from |-> from, kind |-> kind, id |-> id, session |-> session,
   about |-> about, after |-> after]
LOCAL Stderr == [kind |-> "text", after |-> 0]
LOCAL Piece == [kind |-> "piece", after |-> 0]

NewSession(s, about) ==
  [lines |-> [up |-> <<F("client", "new", 1, None, None, 0)>>,
              down |-> <<F("agent", "reply", 1, s, about, 1)>>,
              err |-> <<Stderr>>],
   open |-> {},
   events |-> {"exits"}]

BothAsk ==
  [lines |-> [up |-> <<F("client", "load", 1, "s1", "s1", 0),
                       F("client", "reply", 1, None, "s2", 1)>>,
              down |-> <<F("agent", "other", 1, "s2", "s2", 0),
                         F("agent", "reply", 1, None, "s1", 1)>>,
              err |-> <<>>],
   open |-> {"down"},
   events |-> {"exits"}]

UsesIdAgain ==
  [lines |-> [up |-> <<F("client", "other", 1, "s1", "s1", 0),
                       F("client", "other", 1, None, None, 2)>>,
              down |-> <<Piece,
                         F("agent", "reply", 1, None, "s1", 1),
                         F("agent", "reply", 1, None, None, 2)>>,
              err |-> <<>>],
   open |-> {},
   events |-> {"exits"}]

Ends ==
  [lines |-> [up |-> <<F("client", "other", None, "s1", "s1", 0)>>,
              down |-> <<Piece>>,
              err |-> <<>>],
   open |-> {"down"},
   events |-> Event]

EndsNoisily ==
  [lines |-> [up |-> <<>>, down |-> <<Piece>>, err |-> <<Stderr>>],
   open |-> {"down", "err"},
   events |-> Event]

Conversations == {NewSession("s1", "s1"), NewSession("../s2", None), BothAsk, UsesIdAgain,
                  Ends, EndsNoisily}
Ids == {1}
SessionIds == {"s1", "s2", "../s2"}
SafeIds == {"s1", "s2"}
===========================================================================
