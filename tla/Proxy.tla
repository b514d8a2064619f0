------------------------------- MODULE Proxy -------------------------------
(***************************************************************************)
(* The recording proxy (proxy.rs, proxy/lifecycle.rs) between a client and *)
(* the agent it starts: three pumps copy the client's input, the agent's   *)
(* output and its stderr, each line to the log (LogSink) before its bytes  *)
(* go on; the main task waits for an end, reclaims what the agent left     *)
(* running, drains the output and reports the agent's status.              *)
(*                                                                         *)
(* A source writes the lines of its part of a script, one after the other; *)
(* a line may wait for one that must reach its writer first, as an answer  *)
(* does for its request.  The last line may lack its end.  A piece is what *)
(* the splitter hands on that is no frame: a line cut off, or a part of    *)
(* one longer than MAX_PENDING_LINE; no request is that long.  A chunk     *)
(* that ends within a line counts as ended before it: those bytes go on at *)
(* once, but who reads them acts on whole lines.  Time is left out: a      *)
(* deadline may pass at any moment.  Descendants are adopted, as on Linux. *)
(***************************************************************************)
EXTENDS LogSink, Functions

CONSTANT Scripts  \* conversations: what each source has to write

Pump == {"up", "down", "err"}
Frame == [from : Peer, kind : {"new", "load", "other", "reply"},
          id : Id \cup {None}, session : Session \cup {None},
          about : Session \cup {None}, after : Nat]
Text == [kind : {"text", "piece"}, after : {0}]

Event == {"exits", "leaves_kin", "closes", "dies", "interrupts"}

(* The two directions of the protocol.                                     *)
Wire == {"up", "down"}
Other(p) == IF p = "up" THEN "down" ELSE "up"
Side(p) == IF p = "up" THEN "client" ELSE "agent"

(* Line n of a source is its last and lacks its end.                       *)
Open(s, p, n) == p \in s.open /\ n = Len(s.lines[p])

(* What the peers keep to: a frame follows whole frames, and means the     *)
(* session it names, an answer the one its request named or asked to       *)
(* create; a request is answered once, and its id is used again only by    *)
(* who has read the answer.                                                *)
IsRequest(f) == f.kind \notin {"reply", "piece"}
Creates(f) == f.kind = "new" /\ f.from = "client"
Answers(lines, p, n, a) ==
  /\ n \in DOMAIN lines[p]
  /\ lines[p][n].kind = "reply"
  /\ lines[p][n].after = a

Follows(f, s, p) ==
  f.after # 0 =>
    /\ f.after \in DOMAIN s.lines[p]
    /\ s.lines[p][f.after].kind # "piece"
    /\ ~ Open(s, p, f.after)
Fits(f, before) ==
  IF f.kind = "reply"
  THEN /\ f.after # 0
       /\ IsRequest(before[f.after])
       /\ f.id = before[f.after].id /\ f.id # None
       /\ f.about = FileOf(IF Creates(before[f.after]) THEN f.session
                           ELSE before[f.after].session)
  ELSE f.about = FileOf(f.session)

FramesFit(s) ==
  \A p \in Wire : \A n \in DOMAIN s.lines[p] : s.lines[p][n].kind # "piece" =>
    /\ s.lines[p][n] \in Frame
    /\ s.lines[p][n].from = Side(p)
    /\ Follows(s.lines[p][n], s, Other(p))
    /\ Fits(s.lines[p][n], s.lines[Other(p)])
AnsweredOnce(lines) ==
  \A p \in Wire : \A m, n \in DOMAIN lines[p] : \A a \in DOMAIN lines[Other(p)] :
    Answers(lines, p, m, a) /\ Answers(lines, p, n, a) => m = n
IdsAreFree(lines) ==
  \A p \in Wire : \A b \in DOMAIN lines[p] : \A a \in 1 .. b - 1 :
    ( /\ IsRequest(lines[p][a]) /\ IsRequest(lines[p][b])
      /\ lines[p][a].id = lines[p][b].id /\ lines[p][a].id # None )
    => \E n \in 1 .. lines[p][b].after : Answers(lines, Other(p), n, a)
Conversation(s) ==
  /\ \A n \in DOMAIN s.lines["err"] : s.lines["err"][n] \in Text
  /\ FramesFit(s)
  /\ AnsweredOnce(s.lines)
  /\ IdsAreFree(s.lines)

ASSUME ScriptAssumption ==
  /\ Scripts \subseteq [lines : [Pump -> Seq(Frame \cup Text)],
                        open : SUBSET Pump, events : SUBSET Event]
  /\ \A s \in Scripts : Conversation(s)

VARIABLES
  script,   \* the conversation
  said,     \* lines each source has written
  taken,    \* lines its pump has read
  offered,  \* lines its pump has handed to the log
  passed,   \* lines its pump has written on
  pump,     \* the stage of each pump
  sniffed,  \* what the frame in hand was found to concern
  agent,    \* the agent's process
  kin,      \* the agent has left descendants, which hold its pipes
  client,   \* the client's process and its end of the proxy's stdin
  signal,   \* the proxy was sent SIGINT or SIGTERM
  main,     \* the stage of the main task
  failures, \* what failed of waiting, reclaiming and draining
  result    \* what the proxy exits with: the agent's status, or an error

streams == <<said, taken, offered, passed, pump, sniffed>>
outside == <<script, agent, kin, client, signal>>
control == <<main, failures, result>>
Nothing == [session |-> None, established |-> None]
vars == <<routing, writer, streams, outside, control>>

Init ==
  /\ SinkInit
  /\ script \in Scripts
  /\ said = [p \in Pump |-> 0]
  /\ taken = [p \in Pump |-> 0]
  /\ offered = [p \in Pump |-> 0]
  /\ passed = [p \in Pump |-> 0]
  /\ pump = [p \in Pump |-> "moving"]
  /\ sniffed = [p \in Pump |-> Nothing]
  /\ agent = "running"
  /\ kin = FALSE
  /\ client = "there"
  /\ signal = FALSE
  /\ main = "wait"
  /\ failures = {}
  /\ result = "none"

Line(p) == script.lines[p][offered[p] + 1]

(* Who writes into a pump, and who reads what it passes on.                *)
AgentSide == agent = "running" \/ kin
SourceOpen(p) == IF p = "up" THEN client = "there" ELSE AgentSide
TargetOpen(p) == IF p = "up" THEN AgentSide ELSE client # "gone"

---------------------------------------------------------------------------
(* A pump reads a chunk of whole lines.                                    *)
Read(p) ==
  /\ pump[p] = "moving"
  /\ passed[p] = taken[p]
  /\ \E n \in taken[p] + 1 .. said[p] : taken' = [taken EXCEPT ![p] = n]
  /\ UNCHANGED <<routing, writer, said, offered, passed, pump, sniffed>>

(* The next line is attributed, the last without its end when the input    *)
(* has ended: a frame by the sniffer, a piece to nobody, stderr by the     *)
(* binding.                                                                *)
AtEnd(p) == passed[p] = said[p] /\ ~ SourceOpen(p)
NextIsOpen(p) == Open(script, p, offered[p] + 1)
Attribute(p) ==
  /\ pump[p] = "moving"
  /\ offered[p] < taken[p]
  /\ NextIsOpen(p) => AtEnd(p)
  /\ IF Line(p).kind \in {"text", "piece"}
     THEN /\ sniffed' = [sniffed EXCEPT ![p].session = IF p = "err" THEN bound ELSE None]
          /\ pump' = [pump EXCEPT ![p] = "log"]
          /\ UNCHANGED requests
     ELSE /\ sniffed' = [sniffed EXCEPT ![p] = Sniff(Line(p))]
          /\ Remember(Line(p))
          /\ pump' = [pump EXCEPT ![p] = IF Sniff(Line(p)).established = None
                                         THEN "log" ELSE "bind"]
  /\ UNCHANGED <<bound, writer, said, taken, offered, passed>>

BindSession(p) ==
  /\ pump[p] = "bind"
  /\ Bind(sniffed[p].established)
  /\ pump' = [pump EXCEPT ![p] = "log"]
  /\ UNCHANGED <<requests, said, taken, offered, passed, sniffed>>

Log(p) ==
  /\ pump[p] = "log"
  /\ Enqueue(Record(<<p, offered[p] + 1>>, sniffed[p].session))
  /\ offered' = [offered EXCEPT ![p] = @ + 1]
  /\ pump' = [pump EXCEPT ![p] = "moving"]
  /\ sniffed' = [sniffed EXCEPT ![p] = Nothing]
  /\ UNCHANGED <<routing, said, taken, passed>>

(* The bytes go on when every line they complete was handed to the log, a  *)
(* line without its end waits; the reader may be slow, or gone.            *)
ForwardAtOnce(p) == TRUE
Offered(p) == offered[p] < taken[p] => NextIsOpen(p)
Forward(p) ==
  /\ pump[p] = "moving"
  /\ passed[p] < taken[p]
  /\ Offered(p)
  /\ IF TargetOpen(p)
     THEN passed' = [passed EXCEPT ![p] = taken[p]] /\ UNCHANGED pump
     ELSE pump' = [pump EXCEPT ![p] = "failed"] /\ UNCHANGED passed
  /\ UNCHANGED <<routing, writer, said, taken, offered, sniffed>>

(* When everything was handed to the log, the reader is told of the end.   *)
EndOfInput(p) ==
  /\ pump[p] = "moving"
  /\ AtEnd(p)
  /\ offered[p] = said[p]
  /\ pump' = [pump EXCEPT ![p] = "done"]
  /\ UNCHANGED <<routing, writer, said, taken, offered, passed, sniffed>>

(* An aborted pump stops at its next wait, not before.                     *)
Abort(p) ==
  /\ main \in {"flush", "flushing"}
  /\ pump[p] = "moving"
  /\ Offered(p)
  /\ pump' = [pump EXCEPT ![p] = "aborted"]
  /\ UNCHANGED <<routing, writer, said, taken, offered, passed, sniffed>>

PumpStep ==
  /\ \E p \in Pump :
       \/ Read(p)
       \/ Attribute(p)
       \/ BindSession(p)
       \/ Log(p)
       \/ Forward(p)
       \/ EndOfInput(p)
       \/ Abort(p)
  /\ UNCHANGED <<outside, control>>

---------------------------------------------------------------------------
Go(stage) == main' = stage /\ UNCHANGED result

(* lifetime.wait: the agent ends, a signal comes, or the client's input    *)
(* does, whichever is noticed first.                                       *)
WaitEnds ==
  /\ main = "wait"
  /\ \/ agent # "running" /\ Go("reclaim") /\ UNCHANGED failures
     \/ signal /\ Go("kill") /\ UNCHANGED failures
     \/ pump["up"] = "done" /\ Go("grace") /\ UNCHANGED failures
     \/ pump["up"] = "failed" /\ failures' = {"wait"} /\ Go("kill")
  /\ UNCHANGED <<agent, kin, writer>>

(* The agent may end by itself within a second of the end of input.        *)
GraceEnds ==
  /\ main = "grace"
  /\ Go(IF agent = "running" THEN "kill" ELSE "reclaim")
  /\ UNCHANGED <<agent, kin, failures, writer>>

Kill ==
  /\ main = "kill"
  /\ agent' = IF agent = "running" THEN "killed" ELSE agent
  /\ Go("reclaim")
  /\ UNCHANGED <<kin, failures, writer>>

(* Descendants are killed and reaped until none is left or five seconds    *)
(* have passed.                                                            *)
Reclaim ==
  /\ main = "reclaim"
  /\ \/ kin' = FALSE /\ UNCHANGED failures
     \/ kin /\ failures' = failures \cup {"reclaim"} /\ UNCHANGED kin
  /\ Go("drain")
  /\ UNCHANGED <<agent, writer>>

(* The output drains, in a second at most.                                 *)
NoDeadline == FALSE
SecondPasses == TRUE
OutputDrained == pump["down"] = "done"
Drained == pump["down"] = "done" /\ pump["err"] = "done"
Drain ==
  /\ main = "drain"
  /\ \/ Drained /\ UNCHANGED failures
     \/ /\ ~ Drained
        /\ \/ SecondPasses
           \/ pump["down"] = "failed"
           \/ pump["down"] = "done" /\ pump["err"] = "failed"
        /\ failures' = failures \cup {"drain"}
  /\ Go("report")
  /\ UNCHANGED <<agent, kin, writer>>

(* The exit is logged unless waiting or reclaiming failed; any failure is  *)
(* the proxy's own.                                                        *)
IgnoresDrain == failures \subseteq {"drain"}
Succeeded == failures = {}
Report ==
  /\ main = "report"
  /\ IF failures \subseteq {"drain"}
     THEN Enqueue(Record(<<"exit", 0>>, bound))
     ELSE UNCHANGED writer
  /\ main' = "flush"
  /\ result' = IF Succeeded THEN "agent" ELSE "error"
  /\ UNCHANGED <<agent, kin, failures>>

FlushLog ==
  /\ \/ main = "flush" /\ RequestFlush /\ Go("flushing")
     \/ main = "flushing" /\ flushed /\ Go("exited") /\ UNCHANGED writer
  /\ UNCHANGED <<agent, kin, failures>>

Main ==
  /\ WaitEnds \/ GraceEnds \/ Kill \/ Reclaim \/ Drain \/ Report \/ FlushLog
  /\ UNCHANGED <<routing, streams, script, client, signal>>

---------------------------------------------------------------------------
(* A source writes its next line once it has read what the line answers.   *)
Say(p) ==
  LET next == script.lines[p][said[p] + 1] IN
  /\ IF p = "up" THEN client = "there" ELSE agent = "running"
  /\ said[p] < Len(script.lines[p])
  /\ next.after <= passed[Other(p)]
  /\ said' = [said EXCEPT ![p] = @ + 1]
  /\ UNCHANGED <<taken, offered, passed, pump, sniffed, agent, kin, client, signal>>

AgentExits ==
  /\ agent = "running"
  /\ agent' = "exited"
  /\ UNCHANGED <<kin, client, signal>>
LeavesKin ==
  /\ agent = "running"
  /\ kin' = TRUE
  /\ UNCHANGED <<agent, client, signal>>
KinEnds ==
  /\ kin
  /\ kin' = FALSE
  /\ UNCHANGED <<agent, client, signal>>
ClosesInput ==
  /\ client = "there"
  /\ client' = "silent"
  /\ UNCHANGED <<agent, kin, signal>>

(* The death of the client is signalled to its child.                      *)
ClientDies ==
  /\ client' = "gone"
  /\ signal' = TRUE
  /\ UNCHANGED <<agent, kin>>
Interrupt ==
  /\ signal' = TRUE
  /\ UNCHANGED <<agent, kin, client>>

Happens(event) ==
  /\ event \in script.events
  /\ CASE event = "exits" -> AgentExits
       [] event = "leaves_kin" -> LeavesKin \/ KinEnds
       [] event = "closes" -> ClosesInput
       [] event = "dies" -> ClientDies
       [] event = "interrupts" -> Interrupt
  /\ UNCHANGED streams

Outside ==
  /\ (\E p \in Pump : Say(p)) \/ (\E event \in Event : Happens(event))
  /\ UNCHANGED <<routing, writer, script, control>>

Next ==
  /\ main # "exited"
  /\ \/ PumpStep
     \/ Main
     \/ Writer /\ UNCHANGED <<streams, outside, control>>
     \/ Outside

Spec == Init /\ [][Next]_vars

(* The runtime polls the main task and its timers, the writer's thread     *)
(* runs.  The pumps may wait for the client or the agent for ever.         *)
FairSpec == Spec /\ WF_vars(main # "exited" /\ Main)
                 /\ WF_vars(main # "exited" /\ Writer /\ UNCHANGED <<streams, outside, control>>)

---------------------------------------------------------------------------
Waiting == Range(queue) \cup {writing}

(* Every variable stays within its type, and a pump handles lines in the   *)
(* order it reads, logs and passes them on.                                *)
TypeOK ==
  /\ requests \in [Peer -> [Id -> Owner]]
  /\ bound \in Destination
  /\ Len(queue) <= Capacity
  /\ \A r \in Waiting : r.to \in Destination
  /\ script \in Scripts
  /\ \A p \in Pump :
       /\ passed[p] <= taken[p]
       /\ offered[p] <= taken[p]
       /\ taken[p] <= said[p]
       /\ said[p] <= Len(script.lines[p])
  /\ pump \in [Pump -> {"moving", "bind", "log", "done", "failed", "aborted"}]
  /\ sniffed \in [Pump -> Sniffed]
  /\ agent \in {"running", "exited", "killed"}
  /\ client \in {"there", "silent", "gone"}
  /\ failures \subseteq {"wait", "reclaim", "drain"}
  /\ result # "none" <=> main \in {"flush", "flushing", "exited"}

(* A frame is logged under the session its sender meant, although answers  *)
(* name none, both peers number requests alike, two pumps attribute at the *)
(* same time and the last frame may lack its end (pump,                    *)
(* SessionSniffer::observe).                                               *)
Meant(f) == IF f.kind = "piece" THEN None ELSE f.about
FramesAreAttributed ==
  \A r \in Waiting : r.line[1] \in Wire =>
    r.to = Meant(script.lines[r.line[1]][r.line[2]])

(* An answer is handed to the log after what it answers (pump).            *)
RequestsComeFirst ==
  \A p \in Wire : \A n \in 1 .. offered[p] :
    script.lines[p][n].after <= offered[Other(p)]

(* If the proxy exits with the agent's status, no process of the agent is  *)
(* left, and all it wrote was passed on and handed to the log, whose       *)
(* writer has handled it, and the exit, but for what a full queue dropped  *)
(* (pump_child, LogSink::flush).                                           *)
SuccessIsComplete ==
  main = "exited" /\ result = "agent" =>
    /\ agent # "running"
    /\ ~ kin
    /\ \A p \in {"down", "err"} : passed[p] = said[p] /\ offered[p] = said[p]
    /\ \A r \in Waiting : r.line[1] \in {"idle", "up", "bound"}

(* The proxy is a relay: a line goes on once it is recorded, in order and  *)
(* never twice, and the agent's status is reported once, after an end of   *)
(* its output that nothing reopens, whichever of exit, signal, end of      *)
(* input and deadline comes first (pump, pump_child).                      *)
Relaying ==
  INSTANCE Relay WITH
    Pipe <- Pump, Output <- {"down", "err"},
    written <- said, recorded <- offered, delivered <- passed, status <- result
IsRelay == Relaying!Spec

(* Once the agent ended, a signal came or the client's input ended, the    *)
(* proxy exits, though neither the client nor a descendant of the agent    *)
(* does anything more (Lifetime, pump_child).                              *)
ProxyEnds ==
  agent # "running" \/ signal \/ pump["up"] \in {"done", "failed"} ~> main = "exited"
===========================================================================
