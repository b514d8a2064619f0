------------------------------- MODULE Relay -------------------------------
(***************************************************************************)
(* What the recording proxy promises to those on both sides of it: every   *)
(* pipe passes on what was written, nothing else and nothing twice; a line *)
(* is recorded before its reader can act on it, that is before its end is  *)
(* passed on; and a report of the agent's own status, given once, means    *)
(* that its output has ended and was passed on and recorded in full.       *)
(***************************************************************************)
EXTENDS Naturals

CONSTANTS
  Pipe,   \* the ways from a writer to a reader
  Output  \* those the agent writes into

VARIABLES
  written,   \* lines written into each pipe
  recorded,  \* lines handed to the log
  delivered, \* lines its reader can read, the last perhaps without its end
  status     \* "none", or what the proxy reports: the agent's or an "error"

Init ==
  /\ written = [p \in Pipe |-> 0]
  /\ recorded = [p \in Pipe |-> 0]
  /\ delivered = [p \in Pipe |-> 0]
  /\ status = "none"

Write(p) ==
  /\ p \in Output => status # "agent"
  /\ written' = [written EXCEPT ![p] = @ + 1]
  /\ UNCHANGED <<recorded, delivered, status>>

Record(p) ==
  /\ recorded[p] < written[p]
  /\ recorded' = [recorded EXCEPT ![p] = @ + 1]
  /\ UNCHANGED <<written, delivered, status>>

(* No line but the first that is not recorded may begin to be passed on.   *)
Deliver(p) ==
  /\ \E n \in delivered[p] + 1 .. written[p] :
       n <= recorded[p] + 1 /\ delivered' = [delivered EXCEPT ![p] = n]
  /\ UNCHANGED <<written, recorded, status>>

Report(s) ==
  /\ status = "none"
  /\ s = "agent" =>
       \A p \in Output : delivered[p] = written[p] /\ recorded[p] = written[p]
  /\ status' = s
  /\ UNCHANGED <<written, recorded, delivered>>

Next ==
  \/ \E p \in Pipe : Write(p) \/ Record(p) \/ Deliver(p)
  \/ \E s \in {"agent", "error"} : Report(s)

Spec == Init /\ [][Next]_<<written, recorded, delivered, status>>
=============================================================================
