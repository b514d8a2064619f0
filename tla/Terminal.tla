------------------------------ MODULE Terminal ------------------------------
(***************************************************************************)
(* A command run in a terminal of the client.  The tool call               *)
(* (run_command_via_terminal) waits for the terminal while a task of the   *)
(* connection sends terminal/create (create_terminal): the terminal is the *)
(* task's until the call takes it, so that a call cancelled in between     *)
(* leaves no terminal behind.                                              *)
(*                                                                         *)
(* The stage of an actor that waits for an answer is the name of the       *)
(* request.  The client may refuse a request or never answer it.           *)
(***************************************************************************)
EXTENDS Naturals, FiniteSets

CONSTANT MayRefuse  \* requests the client may answer with an error

Request == {"create", "wait", "output", "kill", "release"}
Actor == {"call", "owner"}

ASSUME TerminalAssumption == MayRefuse \subseteq Request

VARIABLES
  pc,         \* the stage of the call and of the task that owns the creation
  taken,      \* the call took the terminal and said so
  cancelled,  \* the turn's cancellation token
  result,     \* what the tool call returned
  sent,       \* requests sent to the client
  answers,    \* the client's answers
  terminal    \* the client's terminal

vars == <<pc, taken, cancelled, result, sent, answers, terminal>>
client == <<answers, terminal>>

Init ==
  /\ pc = [call |-> "creating", owner |-> "spawned"]
  /\ taken = FALSE
  /\ cancelled = FALSE
  /\ result = "none"
  /\ sent = {}
  /\ answers = [r \in Request |-> "none"]
  /\ terminal = "none"

Go(who, stage) ==
  /\ pc' = [pc EXCEPT ![who] = stage]
  /\ sent' = sent \cup ({stage} \cap Request)

(* The first failure is the call's result.                                 *)
Returns(reason) == result' = IF result = "none" THEN reason ELSE result

---------------------------------------------------------------------------
(* The call waits for the terminal; cancellation drops both channels.      *)
AbandonCreate ==
  /\ pc["call"] = "creating"
  /\ cancelled
  /\ Go("call", "done")
  /\ Returns("cancelled")
  /\ UNCHANGED <<taken, cancelled, client>>

(* Taking the terminal and accepting it is one poll.                       *)
TakeTerminal ==
  /\ pc["call"] = "creating"
  /\ ~ cancelled
  /\ \/ /\ pc["owner"] = "offered"
        /\ taken' = TRUE
        /\ Go("call", "wait")
        /\ UNCHANGED result
     \/ /\ pc["owner"] = "refused"
        /\ Go("call", "done")
        /\ Returns("failed")
        /\ UNCHANGED taken
  /\ UNCHANGED <<cancelled, client>>

(* An unsuccessful wait does not prove the command exited: it is killed.   *)
WaitEnds ==
  /\ pc["call"] = "wait"
  /\ ~ cancelled
  /\ \/ answers["wait"] = "ok" /\ Go("call", "output") /\ UNCHANGED result
     \/ answers["wait"] = "error" /\ Go("call", "kill") /\ Returns("failed")
  /\ UNCHANGED <<taken, cancelled, client>>

OutputEnds ==
  /\ pc["call"] = "output"
  /\ ~ cancelled
  /\ \/ answers["output"] = "ok" /\ UNCHANGED result
     \/ answers["output"] = "error" /\ Returns("failed")
  /\ Go("call", "release")
  /\ UNCHANGED <<taken, cancelled, client>>

ReleaseOnly == Go("call", "release")
KillFirst == Go("call", "kill")
CancelRun ==
  /\ pc["call"] \in {"wait", "output"}
  /\ cancelled
  /\ KillFirst
  /\ Returns("cancelled")
  /\ UNCHANGED <<taken, cancelled, client>>

---------------------------------------------------------------------------
Listening == pc["call"] = "creating"

(* The task of the connection: nothing is sent for a call already gone.    *)
OwnerStarts ==
  /\ pc["owner"] = "spawned"
  /\ Go("owner", IF Listening THEN "create" ELSE "done")
  /\ UNCHANGED <<taken, cancelled, result, client>>

(* The answer goes to the call, if it still listens.                       *)
OfferOrKill == Go("owner", IF Listening THEN "offered" ELSE "kill")
OwnerReceives ==
  /\ pc["owner"] = "create"
  /\ \/ answers["create"] = "ok" /\ OfferOrKill
     \/ answers["create"] = "error" /\ Go("owner", "refused")
  /\ UNCHANGED <<taken, cancelled, result, client>>

(* Delivery is not acceptance: the call may drop the answer unread.        *)
Delivered == TRUE
NeverAccepted == FALSE
Accepted == taken
OwnerSettles ==
  /\ pc["owner"] = "offered"
  /\ ~ Listening
  /\ Go("owner", IF Accepted THEN "done" ELSE "kill")
  /\ UNCHANGED <<taken, cancelled, result, client>>

---------------------------------------------------------------------------
(* cleanup_terminal: each request gets a second, and release is sent       *)
(* whatever becomes of kill.                                               *)
NoDeadline == FALSE
SecondPasses == TRUE
Ended(r) == answers[r] # "none" \/ SecondPasses

KillEnds(who) ==
  /\ pc[who] = "kill"
  /\ Ended("kill")
  /\ Go(who, "release")
  /\ UNCHANGED <<taken, cancelled, result, client>>

SuccessAnyway == "ok"
OutcomeOfRelease == IF answers["release"] = "ok" THEN "ok" ELSE "failed"
ReleaseEnds(who) ==
  /\ pc[who] = "release"
  /\ Ended("release")
  /\ Go(who, "done")
  /\ IF who = "call" THEN Returns(OutcomeOfRelease) ELSE UNCHANGED result
  /\ UNCHANGED <<taken, cancelled, client>>

---------------------------------------------------------------------------
(* The client answers requests in any order.                               *)
ClientAnswers(r) ==
  /\ r \in sent
  /\ answers[r] = "none"
  /\ \/ /\ r = "wait" => terminal # "running"
        /\ answers' = [answers EXCEPT ![r] = "ok"]
        /\ terminal' = CASE r = "create" -> "running"
                         [] r = "kill" /\ terminal = "running" -> "exited"
                         [] r = "release" -> "released"
                         [] OTHER -> terminal
     \/ /\ r \in MayRefuse
        /\ answers' = [answers EXCEPT ![r] = "error"]
        /\ UNCHANGED terminal
  /\ UNCHANGED <<pc, taken, cancelled, result, sent>>

CommandExits ==
  /\ terminal = "running"
  /\ terminal' = "exited"
  /\ UNCHANGED <<pc, taken, cancelled, result, sent, answers>>

Cancel ==
  /\ ~ cancelled
  /\ pc["call"] # "done"
  /\ cancelled' = TRUE
  /\ UNCHANGED <<pc, taken, result, sent, client>>

Adapter ==
  \/ AbandonCreate
  \/ TakeTerminal
  \/ WaitEnds
  \/ OutputEnds
  \/ CancelRun
  \/ OwnerStarts
  \/ OwnerReceives
  \/ OwnerSettles
  \/ \E who \in Actor : KillEnds(who) \/ ReleaseEnds(who)

Next ==
  \/ Adapter
  \/ \E r \in Request : ClientAnswers(r)
  \/ CommandExits
  \/ Cancel

Spec == Init /\ [][Next]_vars

(* The runtime polls the call, the task of the connection and the timers;  *)
(* the client owes nothing.                                                *)
FairSpec == Spec /\ WF_vars(Adapter)

---------------------------------------------------------------------------
(* Every variable stays within its type; the call has a result when it is  *)
(* done, and a terminal is taken from the task that offered it.            *)
TypeOK ==
  /\ pc["call"] \in {"creating", "wait", "output", "kill", "release", "done"}
  /\ pc["owner"] \in {"spawned", "create", "offered", "refused", "kill",
                      "release", "done"}
  /\ taken \in BOOLEAN
  /\ cancelled \in BOOLEAN
  /\ result \in {"none", "ok", "failed", "cancelled"}
  /\ sent \subseteq Request
  /\ answers \in [Request -> {"none", "ok", "error"}]
  /\ terminal \in {"none", "running", "exited", "released"}
  /\ pc["call"] = "done" => result # "none"
  /\ taken => pc["owner"] \in {"offered", "done"}

(* A command that is not known to have exited is killed before its         *)
(* terminal is released (cleanup_terminal's kill argument).                *)
KilledBeforeRelease ==
  "release" \in sent => "kill" \in sent \/ answers["wait"] = "ok"

(* Nothing is asked of a terminal after its release was sent, by the call  *)
(* or by the task (create_terminal hands the terminal to exactly one).     *)
ReleaseIsLast ==
  [][\A who \in Actor : pc[who] = "release"
       => sent' = sent /\ \A other \in Actor \ {who} : pc'[other] \notin Request]_vars

(* A command is reported done only if its terminal is gone.                *)
SuccessMeansReleased == result = "ok" => terminal = "released"

(* A cancelled call ends, whatever the client does (bounded cleanup).      *)
CancelledCallEnds == cancelled ~> pc["call"] = "done"

(* A terminal the client created for a cancelled call is released,         *)
(* whenever the cancellation came (create_terminal, cleanup_terminal).     *)
NoTerminalIsLeft == cancelled /\ terminal # "none" ~> "release" \in sent
===========================================================================
