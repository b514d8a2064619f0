---------------------------- MODULE ProxyProofs ----------------------------
(***************************************************************************)
(* Proofs about Proxy and its LogSink: frames reach the file of the        *)
(* session their sender meant, answers follow their requests, and the      *)
(* agent's status is passed on only when everything was.  The peers are    *)
(* taken to keep to the protocol, as ScriptAssumption says.                *)
(***************************************************************************)
EXTENDS Proxy, Integers, SequenceTheorems, TLAPS

At(p, n) == script.lines[p][n]
Size(p) == Len(script.lines[p])
Holding(p) == pump[p] \in {"bind", "log"}
Attributed(p) == offered[p] + (IF Holding(p) THEN 1 ELSE 0)
OwnerAsked(f) == IF Creates(f) THEN "created" ELSE f.session
Ended == {"reclaim", "drain", "report", "flush", "flushing", "exited"}

---------------------------------------------------------------------------
(* The types, complete: commands name a file, counters are numbers.        *)
Command == [to : Destination,
            line : (Pump \cup {"launch", "exit", "bound", "flush", "idle"}) \X Nat]
Counters ==
  /\ said \in [Pump -> Nat]
  /\ taken \in [Pump -> Nat]
  /\ offered \in [Pump -> Nat]
  /\ passed \in [Pump -> Nat]
  /\ \A p \in Pump :
       /\ passed[p] <= taken[p]
       /\ offered[p] <= taken[p]
       /\ taken[p] <= said[p]
       /\ said[p] <= Size(p)
Sink ==
  /\ requests \in [Peer -> [Id -> Owner]]
  /\ bound \in Destination
  /\ queue \in Seq(Command)
  /\ Len(queue) <= Capacity
  /\ writing \in Command
  /\ flushed \in BOOLEAN
Processes ==
  /\ agent \in {"running", "exited", "killed"}
  /\ kin \in BOOLEAN
  /\ client \in {"there", "silent", "gone"}
  /\ main \in {"wait", "grace", "kill"} \cup Ended
  /\ failures \subseteq {"wait", "reclaim", "drain"}
  /\ result \in {"none", "agent", "error"}
  /\ result # "none" <=> main \in {"flush", "flushing", "exited"}
(* A line in hand was read.                                                *)
HandTypes ==
  /\ pump \in [Pump -> {"moving", "bind", "log", "done", "failed", "aborted"}]
  /\ sniffed \in [Pump -> Sniffed]
  /\ \A p \in Pump : Holding(p) => offered[p] < taken[p]
TypeInv ==
  /\ script \in Scripts
  /\ Counters
  /\ Sink
  /\ Processes
  /\ HandTypes

(* What was passed on before it was handed to the log lacks its end.       *)
PassedInv ==
  \A p \in Pump : \A n \in offered[p] + 1 .. passed[p] : Open(script, p, n)

(* What a line waits for has reached its writer.                           *)
SaidInv ==
  \A p \in Wire : \A n \in 1 .. said[p] : At(p, n).after <= passed[Other(p)]

(* A frame in hand was attributed as its sender meant.                     *)
HandInv ==
  \A p \in Wire : Holding(p) => FileOf(sniffed[p].session) = Meant(Line(p))

(* The owner of a request is known until its answer is attributed.         *)
Unanswered(p, a) ==
  \A n \in 1 .. Attributed(Other(p)) : ~ Answers(script.lines, Other(p), n, a)
FlightInv ==
  \A p \in Wire : \A a \in 1 .. Attributed(p) :
    IsRequest(At(p, a)) /\ At(p, a).id # None /\ Unanswered(p, a)
    => requests[Side(p)][At(p, a).id] = OwnerAsked(At(p, a))

(* A pump is done when its source is closed and empty.                     *)
DoneInv ==
  \A p \in Pump : pump[p] = "done" =>
    ~ SourceOpen(p) /\ passed[p] = said[p] /\ offered[p] = said[p]

(* The stages of the main task, and what each has made sure of or failed.  *)
EndInv ==
  /\ main \in Ended => agent # "running"
  /\ main \in Ended \ {"reclaim"} => "reclaim" \in failures \/ ~ kin
  /\ main \in Ended \ {"reclaim", "drain"} => "drain" \in failures \/ Drained
  /\ result = "agent" => failures = {}

(* After the flush the queue holds only what the client still writes.      *)
Late(r) == r.line[1] \in {"up", "bound"}
FlushInv ==
  /\ main \notin {"flushing", "exited"} => ~ flushed /\ Flush \notin Waiting
  /\ main = "exited" => flushed
  /\ result = "agent" =>
       /\ writing = Flush => \A i \in 1 .. Len(queue) : Late(queue[i])
       /\ \A i, j \in 1 .. Len(queue) : i < j /\ queue[i] = Flush => Late(queue[j])
       /\ flushed => /\ writing = Idle \/ Late(writing)
                     /\ \A i \in 1 .. Len(queue) : Late(queue[i])

OrderInv == PassedInv /\ SaidInv /\ RequestsComeFirst
RoutingInv == HandInv /\ FlightInv /\ FramesAreAttributed
ProxyInv == TypeInv /\ OrderInv /\ RoutingInv /\ DoneInv /\ EndInv /\ FlushInv

---------------------------------------------------------------------------
(* The two directions of the wire.                                         *)
LEMMA Sides ==
  ASSUME NEW p \in Wire
  PROVE  /\ p \in Pump
         /\ Other(p) \in Wire /\ Other(Other(p)) = p /\ Other(p) # p
         /\ Side(p) \in Peer /\ Side(Other(p)) # Side(p)
         /\ \A q \in Wire : q = p \/ q = Other(p)
  BY DEF Wire, Pump, Other, Side, Peer

(* The conversation is one of Scripts.                                     *)
LEMMA ScriptTypes ==
  ASSUME script \in Scripts
  PROVE  /\ script.lines \in [Pump -> Seq(Frame \cup Text)]
         /\ script.events \subseteq Event
         /\ Conversation(script)
  BY ScriptAssumption

(* A line is text, a piece or a frame, and a frame is on the wire.         *)
LEMMA LineTypes ==
  ASSUME script \in Scripts, NEW p \in Pump, NEW n \in 1 .. Size(p)
  PROVE  /\ Size(p) \in Nat
         /\ At(p, n) \in Frame \cup Text
         /\ At(p, n).after \in Nat
         /\ At(p, n).kind = "piece" => At(p, n).after = 0
         /\ Open(script, p, n) => n = Size(p)
         /\ At(p, n).kind \notin {"piece", "text"} => p \in Wire
         /\ p \in Wire /\ At(p, n).kind # "piece" =>
              /\ At(p, n) \in Frame
              /\ At(p, n).from = Side(p)
              /\ Follows(At(p, n), script, Other(p))
              /\ Fits(At(p, n), script.lines[Other(p)])
<1> DEFINE lines == script.lines[p]
<1>1. lines \in Seq(Frame \cup Text) /\ DOMAIN lines = 1 .. Size(p) /\ Size(p) \in Nat
  BY ScriptTypes DEF Size
<1>2. At(p, n) = lines[n] /\ lines[n] \in Frame \cup Text
  BY <1>1 DEF At
<1>3. At(p, n).after \in Nat
  BY <1>2 DEF Frame, Text
<1>4. Conversation(script)
  BY ScriptTypes
<1>5. /\ At(p, n).kind = "piece" => At(p, n).after = 0
      /\ Open(script, p, n) => n = Size(p)
  BY <1>2 DEF Frame, Text, Open, Size
<1>6. At(p, n).kind \notin {"piece", "text"} => p \in Wire
  BY <1>1, <1>2, <1>4 DEF Conversation, Text, Pump, Wire
<1>7. p \in Wire /\ At(p, n).kind # "piece" =>
        /\ At(p, n) \in Frame
        /\ At(p, n).from = Side(p)
        /\ Follows(At(p, n), script, Other(p))
        /\ Fits(At(p, n), script.lines[Other(p)])
  BY <1>1, <1>2, <1>4 DEF Conversation, FramesFit
<1> QED BY <1>1, <1>2, <1>3, <1>5, <1>6, <1>7

(* A frame is neither text nor a piece.                                    *)
LEMMA FrameTypes ==
  ASSUME NEW f \in Frame
  PROVE  /\ f.kind \in {"new", "load", "other", "reply"}
         /\ f.from \in Peer
         /\ f.id \in Id \cup {None}
         /\ f.session \in Session \cup {None}
         /\ Asker(f) \in Peer
         /\ Asker(f) = f.from <=> f.kind # "reply"
  BY DEF Frame, Asker, Peer

(* What a full queue drops changes nothing, the rest is queued.            *)
LEMMA Enqueued ==
  ASSUME Sink, NEW r \in Command, Enqueue(r)
  PROVE  /\ queue' \in Seq(Command) /\ Len(queue') <= Capacity
         /\ queue' = queue \/ queue' = Append(queue, r)
         /\ Range(queue') \subseteq Range(queue) \cup {r}
         /\ writing' = writing /\ flushed' = flushed
<1>1. Capacity \in Nat /\ queue \in Seq(Command) /\ Len(queue) <= Capacity
  BY SinkAssumption DEF Sink
<1>2. CASE Len(queue) < Capacity
  BY <1>1, <1>2 DEF Enqueue, Range
<1>3. CASE ~ Len(queue) < Capacity
  BY <1>1, <1>3 DEF Enqueue, Range
<1> QED BY <1>2, <1>3

(* A record names a file, and the file of a session is one.                *)
LEMMA Files ==
  ASSUME NEW s
  PROVE  /\ FileOf(s) \in Destination
         /\ \A l : Record(l, s).to = FileOf(s) /\ Record(l, s).line = l
         /\ \A l \in (Pump \cup {"launch", "exit", "bound", "flush", "idle"}) \X Nat :
              Record(l, s) \in Command
  BY DEF FileOf, Destination, Record, Command
---------------------------------------------------------------------------
(* Every step keeps the script.                                            *)
LEMMA ScriptStays ==
  ASSUME [Next]_vars
  PROVE  /\ script' = script
         /\ \A p, n : At(p, n)' = At(p, n) /\ Size(p)' = Size(p)
<1>1. script' = script
  BY DEF Next, vars, PumpStep, Main, Outside, outside, control
<1> QED BY <1>1 DEF At, Size

(* Every step keeps the counters in order.                                 *)
LEMMA CountersStep ==
  ASSUME TypeInv, [Next]_vars
  PROVE  Counters'
<1>1. \A p : Size(p)' = Size(p)
  BY ScriptStays
<1>2. Counters /\ \A p \in Pump : Size(p) \in Nat /\ (Holding(p) => offered[p] < taken[p])
  BY ScriptTypes DEF TypeInv, Size, HandTypes
<1>3. CASE \E p \in Pump : Read(p)
  BY <1>1, <1>2, <1>3 DEF Read, Counters
<1>4. CASE \E p \in Pump : Log(p)
  BY <1>1, <1>2, <1>4 DEF Log, Counters, Holding
<1>5. CASE \E p \in Pump : Forward(p)
  BY <1>1, <1>2, <1>5 DEF Forward, Counters
<1>6. CASE Outside /\ \E p \in Pump : Say(p)
  BY <1>1, <1>2, <1>6, SMTT(30) DEF Outside, Say, Counters, Size
<1>7. CASE UNCHANGED <<said, taken, offered, passed>>
  BY <1>1, <1>2, <1>7 DEF Counters
<1> QED
  BY <1>3, <1>4, <1>5, <1>6, <1>7
     DEF Next, vars, PumpStep, Main, Outside, Happens, streams,
         Attribute, BindSession, EndOfInput, Abort

(* What is attributed is text, a piece or a frame of the wire.             *)
LEMMA Attributing ==
  ASSUME TypeInv, NEW p \in Pump, Attribute(p)
  PROVE  /\ offered[p] + 1 \in 1 .. Size(p) /\ Line(p) = At(p, offered[p] + 1)
         /\ Line(p).kind \notin {"text", "piece"} => p \in Wire /\ Line(p) \in Frame
<1>1. offered[p] + 1 \in 1 .. Size(p)
  <2>1. offered[p] \in Nat /\ taken[p] \in Nat /\ said[p] \in Nat /\ Size(p) \in Nat
    BY ScriptTypes DEF TypeInv, Counters, Size
  <2> QED BY <2>1 DEF TypeInv, Counters, Attribute
<1>2. Line(p) = At(p, offered[p] + 1)
  BY DEF Line, At
<1> QED BY <1>1, <1>2, LineTypes DEF TypeInv

(* The sniffer answers with sessions, and keeps sessions.                  *)
LEMMA SniffTypes ==
  ASSUME Sink, NEW f \in Frame
  PROVE  /\ Sniff(f) \in Sniffed
         /\ Remember(f) => requests' \in [Peer -> [Id -> Owner]]
<1>1. OwnerOf(f) \in Owner
  BY FrameTypes DEF OwnerOf, Sink, Owner
<1>2. Sniff(f) \in Sniffed
  BY <1>1, FrameTypes DEF Sniff, Sniffed, Owner
<1>3. ASSUME Remember(f) PROVE requests' \in [Peer -> [Id -> Owner]]
  <2>1. f.session \in Owner /\ None \in Owner /\ "created" \in Owner
    BY FrameTypes DEF Owner
  <2>2. (CASE f.kind = "reply" -> None
           [] f.kind = "new" /\ f.from = "client" -> "created"
           [] OTHER -> f.session) \in Owner
    BY <2>1
  <2> QED BY <1>3, <2>2, FrameTypes DEF Remember, Sink
<1> QED BY <1>2, <1>3

(* The table, the binding and the queue of the log.                        *)
LEMMA SinkStep ==
  ASSUME TypeInv, [Next]_vars
  PROVE  Sink'
<1>1. Sink /\ Capacity \in Nat
  BY SinkAssumption DEF TypeInv
<1>2. \A r \in Command : Enqueue(r) /\ UNCHANGED routing => Sink'
  BY <1>1, Enqueued DEF Sink, routing
<1>3. CASE \E p \in Pump : Attribute(p)
  <2> PICK p \in Pump : Attribute(p)
    BY <1>3
  <2>1. requests' \in [Peer -> [Id -> Owner]]
    <3>1. CASE Line(p).kind \in {"text", "piece"}
      BY <1>1, <3>1 DEF Attribute, Sink
    <3>2. CASE Line(p).kind \notin {"text", "piece"}
      BY <1>1, <3>2, Attributing, SniffTypes DEF Attribute
    <3> QED BY <3>1, <3>2
  <2> QED BY <1>1, <2>1 DEF Attribute, Sink, writer
<1>4. CASE \E p \in Pump : BindSession(p)
  <2> PICK p \in Pump : BindSession(p)
    BY <1>4
  <2>1. CASE sniffed[p].established \in Safe
    <3>1. Record(<<"bound", 0>>, None) \in Command
      BY Files
    <3> QED BY <1>1, <2>1, <3>1, Enqueued DEF BindSession, Bind, Sink, Destination
  <2>2. CASE sniffed[p].established \notin Safe
    BY <1>1, <2>2 DEF BindSession, Bind, Sink, writer
  <2> QED BY <2>1, <2>2
<1>5. CASE \E p \in Pump : Log(p)
  <2> PICK p \in Pump : Log(p)
    BY <1>5
  <2>1. <<p, offered[p] + 1>> \in Pump \X Nat
    BY DEF TypeInv, Counters
  <2>2. Record(<<p, offered[p] + 1>>, sniffed[p].session) \in Command
    BY <2>1, Files
  <2> QED BY <1>2, <2>2 DEF Log
<1>6. CASE Main
  <2>1. Flush \in Command
    BY DEF Flush, Command, Destination
  <2>2. CASE Report
    <3>1. Record(<<"exit", 0>>, bound) \in Command
      BY Files
    <3> QED BY <1>1, <1>2, <1>6, <2>2, <3>1 DEF Report, Main, Sink, routing, writer
  <2>3. CASE FlushLog
    BY <1>1, <1>6, <2>1, <2>3 DEF FlushLog, RequestFlush, Main, Sink, routing, writer
  <2> QED
    BY <1>1, <1>6, <2>2, <2>3
       DEF Main, WaitEnds, GraceEnds, Kill, Reclaim, Drain, Sink, routing, writer
<1>7. CASE Writer
  <2>1. Idle \in Command
    BY DEF Idle, Command, Destination
  <2>2. CASE WriterTakes
    BY <1>1, <1>7, <2>2 DEF Writer, WriterTakes, Sink, routing
  <2>3. CASE WriterHandles
    BY <1>1, <1>7, <2>1, <2>3 DEF Writer, WriterHandles, Sink, routing
  <2> QED BY <1>7, <2>2, <2>3 DEF Writer
<1>8. CASE UNCHANGED <<routing, writer>>
  BY <1>1, <1>8 DEF Sink, routing, writer
<1> QED
  BY <1>3, <1>4, <1>5, <1>6, <1>7, <1>8
     DEF Next, vars, PumpStep, Outside, Read, Forward, EndOfInput, Abort

(* The processes, the stages of the main task and its result.              *)
LEMMA ProcessesStep ==
  ASSUME TypeInv, [Next]_vars
  PROVE  Processes'
<1>1. Processes
  BY DEF TypeInv
<1>2. CASE Main
  <2>1. CASE WaitEnds
    BY <1>1, <1>2, <2>1 DEF WaitEnds, Go, Main, Processes, Ended
  <2>2. CASE GraceEnds
    BY <1>1, <1>2, <2>2 DEF GraceEnds, Go, Main, Processes, Ended
  <2>3. CASE Kill
    BY <1>1, <1>2, <2>3 DEF Kill, Go, Main, Processes, Ended
  <2>4. CASE Reclaim
    BY <1>1, <1>2, <2>4 DEF Reclaim, Go, Main, Processes, Ended
  <2>5. CASE Drain
    BY <1>1, <1>2, <2>5 DEF Drain, Go, Main, Processes, Ended
  <2>6. CASE Report
    BY <1>1, <1>2, <2>6 DEF Report, Main, Processes, Ended
  <2>7. CASE FlushLog
    BY <1>1, <1>2, <2>7 DEF FlushLog, Go, Main, Processes, Ended
  <2> QED BY <1>2, <2>1, <2>2, <2>3, <2>4, <2>5, <2>6, <2>7 DEF Main
<1>3. CASE Outside
  <2>1. CASE \E p \in Pump : Say(p)
    BY <1>1, <1>3, <2>1 DEF Outside, Say, Processes, control
  <2>2. CASE \E event \in Event : Happens(event)
    <3>1. AgentExits \/ LeavesKin \/ KinEnds \/ ClosesInput \/ ClientDies \/ Interrupt
      BY <2>2 DEF Happens, Event
    <3> QED
      BY <1>1, <1>3, <3>1
         DEF Outside, AgentExits, LeavesKin, KinEnds, ClosesInput, ClientDies,
             Interrupt, Processes, control
  <2> QED BY <1>3, <2>1, <2>2 DEF Outside
<1>4. CASE UNCHANGED <<outside, control>>
  BY <1>1, <1>4 DEF Processes, outside, control
<1> QED BY <1>2, <1>3, <1>4 DEF Next, vars, PumpStep

(* The stages of the pumps and the lines in hand.                          *)
LEMMA HandTypesStep ==
  ASSUME TypeInv, [Next]_vars
  PROVE  HandTypes'
<1>1. HandTypes /\ Counters /\ script' = script
  BY ScriptStays DEF TypeInv
<1>2. Nothing \in Sniffed
  BY DEF Nothing, Sniffed
<1>3. CASE \E p \in Pump : Read(p)
  BY <1>1, <1>3 DEF Read, HandTypes, Counters, Holding, Line
<1>4. CASE \E p \in Pump : Attribute(p)
  <2> PICK p \in Pump : Attribute(p)
    BY <1>4
  <2>1. bound \in Session \cup {None}
    BY SinkAssumption DEF TypeInv, Sink, Destination
  <2>2. sniffed' \in [Pump -> Sniffed]
    <3>1. CASE Line(p).kind \in {"text", "piece"}
      <4> DEFINE s == IF p = "err" THEN bound ELSE None
      <4>1. sniffed[p] \in Sniffed /\ s \in Session \cup {None}
        BY <1>1, <2>1 DEF HandTypes
      <4>2. [sniffed[p] EXCEPT !.session = s] \in Sniffed
        BY <4>1 DEF Sniffed
      <4>3. sniffed' = [sniffed EXCEPT ![p] = [sniffed[p] EXCEPT !.session = s]]
        BY <3>1 DEF Attribute
      <4> QED BY <1>1, <4>2, <4>3 DEF HandTypes
    <3>2. CASE Line(p).kind \notin {"text", "piece"}
      <4>1. Sniff(Line(p)) \in Sniffed
        BY <3>2, Attributing, SniffTypes DEF TypeInv
      <4> QED BY <1>1, <3>2, <4>1 DEF Attribute, HandTypes
    <3> QED BY <3>1, <3>2
  <2> QED BY <1>1, <2>2 DEF Attribute, HandTypes, Holding, Line
<1>5. CASE \E p \in Pump : BindSession(p)
  BY <1>1, <1>5 DEF BindSession, HandTypes, Holding, Line
<1>6. CASE \E p \in Pump : Log(p)
  BY <1>1, <1>2, <1>6 DEF Log, HandTypes, Holding, Line
<1>7. CASE \E p \in Pump : Forward(p)
  BY <1>1, <1>7 DEF Forward, HandTypes, Holding, Line
<1>8. CASE \E p \in Pump : EndOfInput(p)
  BY <1>1, <1>8 DEF EndOfInput, HandTypes, Holding
<1>9. CASE \E p \in Pump : Abort(p)
  BY <1>1, <1>9 DEF Abort, HandTypes, Holding, Line
<1>10. CASE Outside
  BY <1>1, <1>10 DEF Outside, Say, Happens, streams, HandTypes, Holding, Line
<1>11. CASE UNCHANGED streams
  BY <1>1, <1>11 DEF streams, HandTypes, Holding, Line
<1> QED
  BY <1>3, <1>4, <1>5, <1>6, <1>7, <1>8, <1>9, <1>10, <1>11
     DEF Next, vars, PumpStep, Main

(* The types hold at first and in every step.                              *)
LEMMA TypeInit == Init => TypeInv
<1> SUFFICES ASSUME Init PROVE TypeInv
  OBVIOUS
<1>1. Counters
  BY ScriptTypes DEF Init, Counters, Size
<1>2. Sink
  <2>1. Record(<<"launch", 0>>, None) \in Command
    BY Files
  <2>2. Idle \in Command
    BY DEF Idle, Command, Destination
  <2>3. queue \in Seq(Command) /\ Len(queue) = 1
    BY <2>1 DEF Init, SinkInit
  <2>4. None \in Destination /\ None \in Owner
    BY DEF Destination, Owner
  <2>5. requests \in [Peer -> [Id -> Owner]]
    BY <2>4 DEF Init, SinkInit
  <2>6. Len(queue) <= Capacity
    BY <2>3, SinkAssumption
  <2> QED BY <2>2, <2>3, <2>4, <2>5, <2>6 DEF Init, SinkInit, Sink
<1>3. Processes
  BY DEF Init, Processes, Ended
<1>4. HandTypes
  BY DEF Init, HandTypes, Holding, Nothing, Sniffed
<1> QED BY <1>1, <1>2, <1>3, <1>4 DEF Init, TypeInv

(* Every step keeps the types.                                             *)
LEMMA TypeStep == TypeInv /\ [Next]_vars => TypeInv'
  BY CountersStep, SinkStep, ProcessesStep, HandTypesStep, ScriptStays DEF TypeInv

(* Every variable stays within its type, and a pump reads, logs and passes *)
(* lines on in their order, whatever the peers write and however they end. *)
THEOREM TypeCorrect == Spec => []TypeOK
<1>1. TypeInv => TypeOK
  <2> SUFFICES ASSUME TypeInv PROVE TypeOK
    OBVIOUS
  <2>1. \A r \in Waiting : r \in Command
    BY DEF Waiting, Range, TypeInv, Sink
  <2>2. \A r \in Waiting : r.to \in Destination
    BY <2>1 DEF Command
  <2> QED
    BY <2>2 DEF TypeInv, Counters, Sink, Processes, HandTypes, TypeOK, Size
<1> QED BY <1>1, TypeInit, TypeStep, PTL DEF Spec

---------------------------------------------------------------------------
(* A line was said, so what it waits for was handed to the log.            *)
LEMMA WaitedFor ==
  ASSUME TypeInv, PassedInv, SaidInv, NEW p \in Wire, NEW n \in 1 .. said[p]
  PROVE  /\ n \in 1 .. Size(p)
         /\ At(p, n).after \in Nat
         /\ At(p, n).after <= offered[Other(p)]
<1> DEFINE a == At(p, n).after
           q == Other(p)
<1>1. p \in Pump /\ q \in Wire /\ q \in Pump
  BY Sides
<1>2. /\ said[p] \in Nat /\ Size(p) \in Nat /\ said[p] <= Size(p)
      /\ offered[q] \in Nat /\ passed[q] \in Nat /\ script \in Scripts
  BY <1>1, ScriptTypes DEF TypeInv, Counters, Size
<1>3. n \in 1 .. Size(p)
  BY <1>2
<1>4. a \in Nat /\ a <= passed[q]
  BY <1>1, <1>2, <1>3, LineTypes DEF SaidInv
<1>5. CASE a = 0
  BY <1>2, <1>3, <1>5
<1>6. CASE a # 0
  <2>1. At(p, n).kind # "piece"
    BY <1>1, <1>2, <1>3, <1>6, LineTypes
  <2>2. ~ Open(script, q, a)
    BY <1>1, <1>2, <1>3, <1>6, <2>1, LineTypes DEF Follows, At
  <2>3. a \notin offered[q] + 1 .. passed[q]
    BY <1>1, <2>2 DEF PassedInv
  <2> HIDE DEF a
  <2>4. a <= offered[q]
    BY <1>2, <1>4, <2>3
  <2> QED BY <1>3, <1>4, <2>4 DEF a
<1> QED BY <1>5, <1>6

(* Nothing that was said, logged or passed on is taken back.               *)
LEMMA Grows ==
  ASSUME TypeInv, [Next]_vars, NEW p \in Pump
  PROVE  /\ said[p] \in Nat /\ offered[p] \in Nat /\ passed[p] \in Nat
         /\ said'[p] \in Nat /\ offered'[p] \in Nat /\ passed'[p] \in Nat
         /\ said[p] <= said'[p]
         /\ offered[p] <= offered'[p]
         /\ passed[p] <= passed'[p]
<1>1. Counters /\ Counters'
  BY CountersStep DEF TypeInv
<1>2. CASE \E q \in Pump : Log(q)
  BY <1>1, <1>2 DEF Log, Counters
<1>3. CASE \E q \in Pump : Forward(q)
  BY <1>1, <1>3 DEF Forward, Counters
<1>4. CASE \E q \in Pump : Say(q) /\ UNCHANGED <<offered, passed>>
  BY <1>1, <1>4 DEF Say, Counters
<1>5. CASE UNCHANGED <<said, offered, passed>>
  BY <1>1, <1>5 DEF Counters
<1> QED
  BY <1>2, <1>3, <1>4, <1>5
     DEF Next, vars, PumpStep, Main, Outside, Say, Happens, streams,
         Read, Attribute, BindSession, EndOfInput, Abort

(* A pump passes on what it has handed to the log, or a line without end.  *)
LEMMA PassedStep ==
  ASSUME TypeInv, PassedInv, [Next]_vars
  PROVE  PassedInv'
<1> SUFFICES ASSUME NEW p \in Pump, NEW n \in offered'[p] + 1 .. passed'[p]
             PROVE  Open(script, p, n)
  BY ScriptStays DEF PassedInv
<1>1. /\ said[p] \in Nat /\ offered[p] \in Nat /\ passed[p] \in Nat /\ taken[p] \in Nat
      /\ offered'[p] \in Nat /\ passed'[p] \in Nat /\ offered[p] <= offered'[p]
      /\ Size(p) \in Nat /\ taken[p] <= Size(p)
  BY Grows, ScriptTypes DEF TypeInv, Counters, Size
<1>2. CASE passed'[p] = passed[p]
  BY <1>1, <1>2 DEF PassedInv
<1>3. CASE passed'[p] # passed[p]
  <2>1. Forward(p)
    BY <1>3
       DEF TypeInv, Counters, Next, vars, PumpStep, Main, Outside, Happens, Say, streams,
           Read, Attribute, BindSession, Log, Forward, EndOfInput, Abort
  <2>2. passed'[p] = taken[p] /\ offered'[p] = offered[p] /\ offered[p] < taken[p]
    BY <1>1, <1>3, <2>1 DEF Forward, TypeInv, Counters
  <2>3. Open(script, p, offered[p] + 1)
    BY <2>1, <2>2 DEF Forward, Offered, NextIsOpen
  <2>4. offered[p] + 1 = Size(p)
    BY <2>3 DEF Open, Size
  <2> QED BY <1>1, <2>2, <2>3, <2>4
<1> QED BY <1>2, <1>3

(* A source writes a line when it has read what the line waits for.        *)
LEMMA SaidStep ==
  ASSUME TypeInv, SaidInv, [Next]_vars
  PROVE  SaidInv'
<1> SUFFICES ASSUME NEW p \in Wire, NEW n \in 1 .. said'[p]
             PROVE  At(p, n).after <= passed'[Other(p)]
  BY ScriptStays DEF SaidInv
<1>1. p \in Pump /\ Other(p) \in Pump /\ Counters
  BY Sides DEF TypeInv
<1>2. /\ said[p] \in Nat /\ said'[p] \in Nat
      /\ passed[Other(p)] \in Nat /\ passed'[Other(p)] \in Nat
      /\ passed[Other(p)] <= passed'[Other(p)]
  BY <1>1, Grows
<1>3. n \in 1 .. Size(p)
  <2>1. said'[p] <= Size(p)'
    BY <1>1, CountersStep DEF Counters
  <2>2. Size(p)' = Size(p) /\ Size(p) \in Nat
    BY <1>1, ScriptStays, ScriptTypes DEF TypeInv, Size
  <2> QED BY <1>2, <2>1, <2>2
<1>4. At(p, n).after \in Nat
  BY <1>1, <1>3, LineTypes DEF TypeInv
<1>5. CASE n <= said[p]
  <2>1. At(p, n).after <= passed[Other(p)]
    BY <1>2, <1>5 DEF SaidInv
  <2> QED BY <1>2, <1>4, <2>1
<1>6. CASE n > said[p]
  <2>1. said' # said
    BY <1>2, <1>6
  <2>2. PICK q \in Pump : Say(q)
    BY <2>1
       DEF Next, vars, PumpStep, Main, Outside, Happens, streams,
           Read, Attribute, BindSession, Log, Forward, EndOfInput, Abort
  <2>3. q = p
    BY <1>1, <1>2, <1>6, <2>2 DEF Say, Counters
  <2>4. Say(p)
    BY <2>2, <2>3
  <2>5. n = said[p] + 1
    BY <1>1, <1>2, <1>6, <2>4 DEF Say, Counters
  <2>6. At(p, n).after <= passed[Other(p)]
    BY <2>4, <2>5 DEF Say, At
  <2> QED BY <1>2, <1>4, <2>6
<1> QED BY <1>2, <1>5, <1>6

(* A line is handed to the log after what it waits for.                    *)
LEMMA FirstStep ==
  ASSUME TypeInv, OrderInv, [Next]_vars
  PROVE  RequestsComeFirst'
<1> SUFFICES ASSUME NEW p \in Wire, NEW n \in 1 .. offered'[p]
             PROVE  At(p, n).after <= offered'[Other(p)]
  BY ScriptStays DEF RequestsComeFirst, At
<1>1. p \in Pump /\ Other(p) \in Pump /\ Counters /\ Counters'
  BY Sides, CountersStep DEF TypeInv
<1>2. /\ said[p] \in Nat /\ offered[p] \in Nat /\ offered'[p] \in Nat
      /\ offered[Other(p)] \in Nat /\ offered'[Other(p)] \in Nat
      /\ offered[Other(p)] <= offered'[Other(p)]
  BY <1>1, Grows
<1>3. n \in 1 .. said[p]
  <2>1. CASE offered'[p] = offered[p]
    BY <1>1, <1>2, <2>1 DEF Counters
  <2>2. CASE offered'[p] # offered[p]
    <3>1. Log(p)
      BY <1>1, <2>2, ZenonT(60)
         DEF Counters, Next, vars, PumpStep, Main, Outside, Happens, Say, streams,
             Read, Attribute, BindSession, Log, Forward, EndOfInput, Abort
    <3>2. said'[p] = said[p]
      BY <3>1 DEF Log
    <3> QED BY <1>1, <1>2, <3>2 DEF Counters
  <2> QED BY <2>1, <2>2
<1>4. At(p, n).after \in Nat /\ At(p, n).after <= offered[Other(p)]
  BY <1>3, WaitedFor DEF OrderInv
<1> QED BY <1>2, <1>4

(* Every step keeps the order of lines.                                    *)
LEMMA OrderStep == TypeInv /\ OrderInv /\ [Next]_vars => OrderInv'
  BY PassedStep, SaidStep, FirstStep DEF OrderInv

(* No line was said at first.                                              *)
LEMMA OrderInit == Init => OrderInv
<1> SUFFICES ASSUME Init PROVE OrderInv
  OBVIOUS
<1>1. \A p \in Pump : said[p] = 0 /\ offered[p] = 0 /\ passed[p] = 0
  BY DEF Init
<1>2. \A p \in Wire : p \in Pump
  BY Sides
<1> QED BY <1>1, <1>2 DEF OrderInv, PassedInv, SaidInv, RequestsComeFirst

(* An answer is handed to the log after what it answers, whatever the two  *)
(* pumps and the peers do in between (pump).                               *)
THEOREM AnswersFollow == Spec => []RequestsComeFirst
<1>1. OrderInv => RequestsComeFirst
  BY DEF OrderInv
<1> QED BY <1>1, TypeInit, TypeStep, OrderInit, OrderStep, PTL DEF Spec

---------------------------------------------------------------------------
(* What the conversation says of two answers, and of two requests.         *)
LEMMA Once ==
  ASSUME script \in Scripts, NEW p \in Wire, NEW m, NEW n, NEW a \in 1 .. Size(Other(p)),
         Answers(script.lines, p, m, a), Answers(script.lines, p, n, a)
  PROVE  m = n
<1>1. Other(p) \in Pump /\ p \in Pump
  BY Sides
<1>2. script.lines[Other(p)] \in Seq(Frame \cup Text)
  BY <1>1, ScriptTypes
<1>3. a \in DOMAIN script.lines[Other(p)]
  BY <1>2 DEF Size
<1>4. AnsweredOnce(script.lines)
  BY ScriptTypes DEF Conversation
<1> QED BY <1>3, <1>4 DEF AnsweredOnce, Answers

(* An id is used again by who has read the answer.                         *)
LEMMA FreeIds ==
  ASSUME script \in Scripts, NEW p \in Wire, NEW b \in 1 .. Size(p), NEW a \in 1 .. b - 1,
         IsRequest(At(p, a)), IsRequest(At(p, b)),
         At(p, a).id = At(p, b).id, At(p, a).id # None
  PROVE  \E n \in 1 .. At(p, b).after : Answers(script.lines, Other(p), n, a)
<1>1. script.lines[p] \in Seq(Frame \cup Text)
  BY Sides, ScriptTypes
<1>2. b \in DOMAIN script.lines[p]
  BY <1>1 DEF Size
<1>3. IdsAreFree(script.lines)
  BY ScriptTypes DEF Conversation
<1> QED BY <1>2, <1>3 DEF IdsAreFree, At

(* The lines attributed are those handed to the log and one in hand.       *)
LEMMA Attribution ==
  ASSUME TypeInv, NEW p \in Pump
  PROVE  /\ offered[p] \in Nat /\ Attributed(p) \in Nat /\ said[p] \in Nat /\ Size(p) \in Nat
         /\ offered[p] <= Attributed(p)
         /\ Attributed(p) <= said[p] /\ said[p] <= Size(p)
         /\ Attributed(p) = IF Holding(p) THEN offered[p] + 1 ELSE offered[p]
  BY ScriptTypes DEF TypeInv, Counters, HandTypes, Size, Attributed

(* An answer about to be attributed is the first to a request that was.    *)
LEMMA Answering ==
  ASSUME TypeInv, OrderInv, NEW p \in Pump, Attribute(p), Line(p).kind = "reply"
  PROVE  /\ p \in Wire /\ Line(p).after \in 1 .. offered[Other(p)]
         /\ Asker(Line(p)) = Side(Other(p))
         /\ Line(p).id \in Id /\ Line(p).id # None
         /\ IsRequest(At(Other(p), Line(p).after))
         /\ At(Other(p), Line(p).after).id = Line(p).id
         /\ Line(p).about = FileOf(IF Creates(At(Other(p), Line(p).after))
                                   THEN Line(p).session
                                   ELSE At(Other(p), Line(p).after).session)
         /\ Answers(script.lines, p, offered[p] + 1, Line(p).after)
         /\ Unanswered(Other(p), Line(p).after)
<1> DEFINE q == Other(p)
           k == offered[p] + 1
           a == Line(p).after
<1>1. p \in Wire /\ k \in 1 .. Size(p) /\ Line(p) = At(p, k) /\ Line(p) \in Frame
  BY Attributing
<1>2. q \in Wire /\ q \in Pump /\ Other(q) = p
  BY <1>1, Sides
<1>3. /\ Line(p).from = Side(p)
      /\ Fits(Line(p), script.lines[q])
      /\ Follows(Line(p), script, q)
  BY <1>1, LineTypes DEF TypeInv
<1>4. k \in 1 .. said[p]
  <2>1. offered[p] < taken[p] /\ taken[p] \in Nat
    BY DEF Attribute, TypeInv, Counters
  <2> QED BY <2>1, Attribution DEF TypeInv, Counters
<1>5. a \in Nat /\ a <= offered[q]
  BY <1>1, <1>4, WaitedFor DEF OrderInv
<1>6. a # 0 /\ IsRequest(At(q, a)) /\ At(q, a).id = Line(p).id /\ Line(p).id # None
      /\ Line(p).about = FileOf(IF Creates(At(q, a)) THEN Line(p).session ELSE At(q, a).session)
  BY <1>3 DEF Fits, At
<1>7. Line(p).id \in Id
  BY <1>1, <1>6, FrameTypes
<1>8. Asker(Line(p)) = Side(q)
  BY <1>1, <1>3 DEF Asker, Side, Other, Wire, Peer
<1>9. a \in 1 .. offered[q]
  BY <1>2, <1>5, <1>6, Attribution
<1>10. Answers(script.lines, p, k, a)
  <2>1. script.lines[p] \in Seq(Frame \cup Text)
    BY ScriptTypes DEF TypeInv
  <2> QED BY <1>1, <2>1 DEF Answers, At, Size
<1>11. Unanswered(q, a)
  <2> SUFFICES ASSUME NEW n \in 1 .. Attributed(p), Answers(script.lines, p, n, a)
               PROVE  FALSE
    BY <1>2 DEF Unanswered
  <2>1. Attributed(p) = offered[p]
    BY Attribution DEF Attribute, Holding
  <2>2. a \in 1 .. Size(q)
    BY <1>2, <1>9, Attribution
  <2>3. n = k
    BY <1>1, <1>10, <2>2, Once DEF TypeInv
  <2> QED BY <2>1, <2>3, Attribution
<1> QED BY <1>1, <1>6, <1>7, <1>8, <1>9, <1>10, <1>11

(* The sniffer finds what the sender of a frame meant.                     *)
LEMMA SniffedRight ==
  ASSUME TypeInv, OrderInv, FlightInv, NEW p \in Pump, Attribute(p),
         Line(p).kind \notin {"text", "piece"}
  PROVE  FileOf(Sniff(Line(p)).session) = Line(p).about
<1>1. p \in Wire /\ offered[p] + 1 \in 1 .. Size(p) /\ Line(p) = At(p, offered[p] + 1)
      /\ Line(p) \in Frame
  BY Attributing
<1>2. CASE Line(p).kind # "reply"
  <2>1. Fits(Line(p), script.lines[Other(p)])
    BY <1>1, LineTypes DEF TypeInv
  <2> QED BY <1>2, <2>1 DEF Fits, Sniff
<1>3. CASE Line(p).kind = "reply"
  <2> DEFINE f == Line(p)
             r == At(Other(p), f.after)
  <2>1. Other(p) \in Wire /\ Other(p) \in Pump
    BY <1>1, Sides
  <2>2. /\ f.after \in 1 .. Attributed(Other(p))
        /\ IsRequest(r) /\ r.id = f.id /\ f.id # None
        /\ Unanswered(Other(p), f.after)
        /\ Asker(f) = Side(Other(p))
        /\ f.about = FileOf(IF Creates(r) THEN f.session ELSE r.session)
    BY <1>3, <2>1, Answering, Attribution
  <2>3. OwnerOf(f) = OwnerAsked(r)
    BY <2>1, <2>2 DEF FlightInv, OwnerOf
  <2>4. ~ Creates(r) => r.session # "created"
    <3>1. f.after \in 1 .. Size(Other(p))
      BY <2>1, <2>2, Attribution
    <3>2. r \in Frame
      BY <2>1, <2>2, <3>1, LineTypes DEF TypeInv, IsRequest
    <3> QED BY <3>2, FrameTypes, SinkAssumption
  <2> QED BY <1>3, <2>2, <2>3, <2>4 DEF Sniff, OwnerAsked
<1> QED BY <1>2, <1>3

(* Every step keeps the frames in hand attributed right.                   *)
LEMMA HandStep ==
  ASSUME TypeInv, OrderInv, HandInv, FlightInv, [Next]_vars
  PROVE  HandInv'
<1> SUFFICES ASSUME NEW p \in Wire, Holding(p)'
             PROVE  FileOf(sniffed'[p].session) = Meant(Line(p)')
  BY DEF HandInv, Meant
<1>1. p \in Pump /\ HandTypes /\ Counters /\ script' = script
  BY Sides, ScriptStays DEF TypeInv
<1>2. CASE Attribute(p)
  <2>1. offered[p] + 1 \in 1 .. Size(p) /\ Line(p) = At(p, offered[p] + 1)
    BY <1>1, <1>2, Attributing
  <2>2. Line(p).kind # "text"
    <3>1. Line(p).kind # "piece" => Line(p) \in Frame
      BY <1>1, <2>1, LineTypes DEF TypeInv
    <3> QED BY <3>1, FrameTypes
  <2>3. Line(p)' = Line(p)
    BY <1>1, <1>2 DEF Attribute, Line
  <2>4. CASE Line(p).kind = "piece"
    <3>1. p # "err"
      BY DEF Wire
    <3>2. sniffed'[p].session = None
      BY <1>1, <1>2, <2>4, <3>1 DEF Attribute, HandTypes, Sniffed
    <3> QED BY <2>3, <2>4, <3>2, SinkAssumption DEF FileOf, Meant
  <2>5. CASE Line(p).kind # "piece"
    <3>1. sniffed' = [sniffed EXCEPT ![p] = Sniff(Line(p))]
      BY <1>2, <2>2, <2>5 DEF Attribute
    <3>2. FileOf(Sniff(Line(p)).session) = Line(p).about
      BY <1>1, <1>2, <2>2, <2>5, SniffedRight
    <3> QED BY <1>1, <2>3, <2>5, <3>1, <3>2 DEF HandTypes, Meant
  <2> QED BY <2>4, <2>5
<1>3. CASE ~ Attribute(p)
  <2>1. Holding(p) /\ sniffed'[p] = sniffed[p] /\ offered'[p] = offered[p]
    BY <1>1, <1>3, ZenonT(60)
       DEF Holding, HandTypes, Counters, Next, vars, PumpStep, Main, Outside, Happens, Say,
           streams, Read, Attribute, BindSession, Log, Forward, EndOfInput, Abort
  <2> QED BY <1>1, <2>1 DEF HandInv, Line
<1> QED BY <1>2, <1>3

(* One step attributes no two lines.                                       *)
LEMMA OneAtATime ==
  ASSUME TypeInv, NEW p \in Pump, NEW q \in Pump, p # q, Attribute(p)
  PROVE  ~ Attribute(q)
<1>1. pump'[q] = pump[q]
  BY DEF Attribute, TypeInv, HandTypes
<1>2. Attribute(q) => pump[q] = "moving" /\ pump'[q] \in {"log", "bind"}
  BY DEF Attribute, TypeInv, HandTypes
<1> QED BY <1>1, <1>2

(* A step attributes a line or none.                                       *)
LEMMA AttributedStep ==
  ASSUME TypeInv, [Next]_vars, NEW p \in Pump
  PROVE  \/ Attribute(p) /\ Attributed(p)' = Attributed(p) + 1
         \/ ~ Attribute(p) /\ Attributed(p)' = Attributed(p)
<1>1. HandTypes /\ Counters /\ Attributed(p) \in Nat /\ offered[p] \in Nat
  BY Attribution DEF TypeInv
<1>2. CASE Attribute(p)
  <2>1. pump'[p] \in {"log", "bind"} /\ pump[p] = "moving" /\ offered' = offered
    BY <1>1, <1>2 DEF Attribute, HandTypes
  <2> QED BY <1>1, <1>2, <2>1 DEF Attributed, Holding
<1>3. CASE Log(p)
  <2>1. pump[p] = "log" /\ pump'[p] = "moving" /\ offered'[p] = offered[p] + 1
    BY <1>1, <1>3 DEF Log, HandTypes, Counters
  <2>2. ~ Attribute(p)
    BY <2>1 DEF Attribute
  <2> QED BY <1>1, <2>1, <2>2 DEF Attributed, Holding
<1>4. CASE ~ Attribute(p) /\ ~ Log(p)
  <2>1. CASE \E q \in Pump \ {p} : Attribute(q) \/ BindSession(q) \/ Log(q) \/ Forward(q)
                                  \/ EndOfInput(q) \/ Abort(q)
    BY <1>1, <1>4, <2>1
       DEF Attributed, Holding, HandTypes, Counters,
           Attribute, BindSession, Log, Forward, EndOfInput, Abort
  <2>2. CASE BindSession(p) \/ Forward(p) \/ EndOfInput(p) \/ Abort(p)
    BY <1>1, <1>4, <2>2
       DEF Attributed, Holding, HandTypes, BindSession, Forward, EndOfInput, Abort
  <2>3. CASE UNCHANGED <<offered, pump>>
    BY <1>1, <1>4, <2>3 DEF Attributed, Holding
  <2>4. \/ UNCHANGED <<offered, pump>>
        \/ \E q \in Pump : Attribute(q) \/ BindSession(q) \/ Log(q) \/ Forward(q)
                          \/ EndOfInput(q) \/ Abort(q)
    BY DEF Next, vars, PumpStep, Main, Outside, Happens, Say, streams, Read
  <2> QED BY <1>4, <2>1, <2>2, <2>3, <2>4
<1> QED BY <1>2, <1>3, <1>4

(* Every step keeps the owners of the requests in flight known: an id      *)
(* used again replaces an answered request's owner only, and an answer     *)
(* takes out its own.                                                      *)
LEMMA FlightStep ==
  ASSUME TypeInv, OrderInv, FlightInv, [Next]_vars
  PROVE  FlightInv'
<1> SUFFICES ASSUME NEW q \in Wire, NEW b \in 1 .. Attributed(q)',
                    IsRequest(At(q, b)), At(q, b).id # None, Unanswered(q, b)'
             PROVE  requests'[Side(q)][At(q, b).id] = OwnerAsked(At(q, b))
  BY ScriptStays DEF FlightInv, OwnerAsked, Creates, IsRequest, Side
<1>1. q \in Pump /\ Other(q) \in Wire /\ Other(q) \in Pump /\ Other(Other(q)) = q
      /\ script' = script
  BY Sides, ScriptStays
<1>2. /\ Attributed(q) \in Nat /\ Attributed(Other(q)) \in Nat
      /\ Attributed(q)' \in Nat /\ Attributed(Other(q))' \in Nat
      /\ Attributed(q)' <= Size(q)
      /\ Size(q) \in Nat
  <2>1. TypeInv'
    BY TypeStep
  <2>2. Attributed(q)' \in Nat /\ Attributed(Other(q))' \in Nat
        /\ Attributed(q)' <= said'[q] /\ said'[q] <= Size(q)' /\ said'[q] \in Nat
    BY <1>1, <2>1 DEF TypeInv, Counters, HandTypes, Attributed
  <2> QED BY <1>1, <2>2, Attribution, ScriptStays
<1>3. b \in 1 .. Size(q) /\ At(q, b) \in Frame /\ At(q, b).id \in Id
  <2>1. b \in 1 .. Size(q)
    BY <1>2
  <2>2. At(q, b) \in Frame
    BY <1>1, <2>1, LineTypes DEF TypeInv, IsRequest
  <2> QED BY <2>1, <2>2, FrameTypes
<1>4. Unanswered(q, b)
  <2>1. Attributed(Other(q)) <= Attributed(Other(q))'
    BY <1>1, <1>2, AttributedStep
  <2> QED BY <1>1, <1>2, <2>1 DEF Unanswered
<1>5. b \in 1 .. Attributed(q) => requests[Side(q)][At(q, b).id] = OwnerAsked(At(q, b))
  BY <1>4 DEF FlightInv
<1>6. CASE \E p \in Pump : Attribute(p) /\ Line(p).kind \notin {"text", "piece"}
  <2> PICK p \in Pump : Attribute(p) /\ Line(p).kind \notin {"text", "piece"}
    BY <1>6
  <2> DEFINE f == Line(p)
             k == offered[p] + 1
  <2>1. p \in Wire /\ k \in 1 .. Size(p) /\ f = At(p, k) /\ f \in Frame /\ Remember(f)
        /\ f.from = Side(p)
    BY Attributing, LineTypes DEF Attribute, TypeInv
  <2>2. Attributed(p) = offered[p] /\ offered[p] \in Nat /\ Attributed(p)' = Attributed(p) + 1
    BY Attribution, AttributedStep DEF Attribute, Holding
  <2>3. \A i \in Id : f.id # i \/ Asker(f) # Side(q) => requests'[Side(q)][i] = requests[Side(q)][i]
    BY <1>1, <2>1, Sides, FrameTypes DEF Remember, TypeInv, Sink
  <2>4. CASE f.kind = "reply"
    <3> DEFINE a == f.after
    <3>1. Other(p) \in Wire /\ Other(p) \in Pump
      BY <2>1, Sides
    <3>2. /\ a \in 1 .. offered[Other(p)] /\ Asker(f) = Side(Other(p))
          /\ IsRequest(At(Other(p), a)) /\ At(Other(p), a).id = f.id
          /\ Answers(script.lines, p, k, a)
          /\ Unanswered(Other(p), a)
      BY <2>4, Answering
    <3>3. CASE q = p
      <4>1. b # k
        BY <2>1, <2>4, <3>3 DEF IsRequest
      <4>2. b \in 1 .. Attributed(q)
        BY <1>2, <2>2, <3>3, <4>1
      <4> QED BY <1>3, <1>5, <2>1, <2>3, <3>2, <3>3, <4>2, Sides
    <3>4. CASE q = Other(p)
      <4>1. Other(q) = p
        BY <2>1, <3>4, Sides
      <4>2. b # a
        <5>1. k \in 1 .. Attributed(p)'
          BY <2>2
        <5>2. ~ Answers(script.lines, p, k, b)
          BY <1>1, <4>1, <5>1 DEF Unanswered
        <5> QED BY <3>2, <5>2
      <4>3. b \in 1 .. Attributed(q)
        <5>1. q # p
          BY <2>1, <3>4, Sides
        <5>2. ~ Attribute(q)
          BY <1>1, <5>1, OneAtATime
        <5> QED BY <1>1, <1>2, <1>3, <5>2, AttributedStep DEF IsRequest
      <4>4. At(q, b).id # f.id
        <5> SUFFICES ASSUME At(q, b).id = f.id PROVE FALSE
          OBVIOUS
        <5>1. CASE b < a
          <6>1. a \in 1 .. Size(q)
            BY <1>1, <3>2, <3>4, Attribution
          <6>2. PICK n \in 1 .. At(q, a).after : Answers(script.lines, p, n, b)
            BY <1>3, <3>2, <3>4, <4>1, <5>1, <6>1, FreeIds DEF TypeInv
          <6>3. At(q, a).after \in Nat /\ At(q, a).after <= offered[p]
            BY <1>1, <3>2, <3>4, <4>1, <6>1, LineTypes DEF OrderInv, RequestsComeFirst, TypeInv, At
          <6>4. n \in 1 .. Attributed(p)
            BY <2>2, <6>3
          <6> QED BY <1>4, <4>1, <6>2, <6>4 DEF Unanswered
        <5>2. CASE a < b
          <6>1. PICK n \in 1 .. At(q, b).after : Answers(script.lines, p, n, a)
            BY <1>3, <3>2, <3>4, <4>1, <5>2, FreeIds DEF TypeInv
          <6>2. b \in 1 .. said[q]
            BY <1>1, <1>2, <4>3, Attribution
          <6>3. At(q, b).after \in Nat /\ At(q, b).after <= offered[p]
            BY <1>1, <4>1, <6>2, WaitedFor DEF OrderInv
          <6>4. n \in 1 .. Attributed(p)
            BY <2>2, <6>3
          <6> QED BY <3>2, <3>4, <4>1, <6>1, <6>4 DEF Unanswered
        <5> QED BY <1>2, <3>2, <4>2, <5>1, <5>2, Attribution
      <4> QED BY <1>3, <1>5, <2>3, <4>3, <4>4
    <3> QED BY <2>1, <3>3, <3>4, Sides
  <2>5. CASE f.kind # "reply"
    <3>1. Asker(f) = Side(p)
      BY <2>1, <2>5, FrameTypes
    <3>2. CASE q # p
      <4>1. ~ Attribute(q)
        BY <1>1, <3>2, OneAtATime
      <4>2. b \in 1 .. Attributed(q)
        BY <1>1, <1>2, <1>3, <4>1, AttributedStep DEF IsRequest
      <4>3. Side(p) # Side(q)
        BY <2>1, <3>2, Sides
      <4> QED BY <1>3, <1>5, <2>3, <3>1, <4>2, <4>3
    <3>3. CASE q = p /\ b = k
      <4>1. At(q, b) = f
        BY <2>1, <3>3
      <4>2. requests' = [requests EXCEPT ![Side(q)][f.id] = OwnerAsked(f)]
        BY <1>3, <2>1, <2>5, <3>1, <3>3, <4>1 DEF Remember, OwnerAsked, Creates
      <4> QED BY <1>1, <1>3, <4>1, <4>2, Sides DEF TypeInv, Sink
    <3>4. CASE q = p /\ b # k
      <4>1. b \in 1 .. k - 1 /\ b \in 1 .. Attributed(q)
        BY <1>2, <2>2, <3>4
      <4>2. At(q, b).id # f.id
        <5> SUFFICES ASSUME At(q, b).id = f.id PROVE FALSE
          OBVIOUS
        <5>1. IsRequest(f)
          BY <2>1, <2>5, Attributing DEF IsRequest
        <5>2. PICK n \in 1 .. f.after : Answers(script.lines, Other(p), n, b)
          BY <2>1, <3>4, <4>1, <5>1, FreeIds DEF TypeInv
        <5>3. k \in 1 .. said[p]
          <6>1. offered[p] < taken[p] /\ taken[p] \in Nat /\ taken[p] <= said[p] /\ said[p] \in Nat
            BY DEF Attribute, TypeInv, Counters
          <6> QED BY <2>2, <6>1
        <5>4. f.after \in Nat /\ f.after <= offered[Other(p)]
          BY <2>1, <5>3, WaitedFor DEF OrderInv
        <5>5. n \in 1 .. Attributed(Other(p))
          BY <1>1, <3>4, <5>4, Attribution
        <5> QED BY <1>4, <3>4, <5>2, <5>5 DEF Unanswered
      <4> QED BY <1>3, <1>5, <2>3, <4>1, <4>2
    <3> QED BY <3>2, <3>3, <3>4
  <2> QED BY <2>4, <2>5
<1>7. CASE ~ \E p \in Pump : Attribute(p) /\ Line(p).kind \notin {"text", "piece"}
  <2>1. requests' = requests
    BY <1>7
       DEF Next, vars, PumpStep, Main, Outside, Happens, Say, routing, WaitEnds, Writer,
           Read, Attribute, BindSession, Log, Forward, EndOfInput, Abort
  <2>2. b \in 1 .. Attributed(q)
    <3>1. CASE Attribute(q)
      <4>1. Line(q).kind \in {"text", "piece"}
        BY <1>1, <1>7, <3>1
      <4>2. offered[q] + 1 # b
        BY <1>3, <4>1, FrameTypes DEF Line, At, IsRequest
      <4> QED BY <1>1, <1>2, <3>1, <4>2, AttributedStep, Attribution DEF Attribute, Holding
    <3>2. CASE ~ Attribute(q)
      BY <1>1, <1>2, <1>3, <3>2, AttributedStep DEF IsRequest
    <3> QED BY <3>1, <3>2
  <2> QED BY <1>5, <2>1, <2>2
<1> QED BY <1>6, <1>7

(* What the writer has still to write, after a step.                       *)
LEMMA WaitingStep ==
  ASSUME TypeInv, [Next]_vars, NEW r \in Waiting'
  PROVE  \/ r \in Waiting
         \/ r.line[1] \notin Pump
         \/ \E p \in Pump : Log(p) /\ r = Record(<<p, offered[p] + 1>>, sniffed[p].session)
<1>1. Sink /\ queue \in Seq(Command) /\ Waiting = Range(queue) \cup {writing}
      /\ Waiting' = Range(queue') \cup {writing'}
  BY DEF TypeInv, Sink, Waiting
<1>2. ASSUME NEW c \in Command, Enqueue(c)
      PROVE  r \in Waiting \/ r = c
  BY <1>1, <1>2, Enqueued
<1>3. \A s : /\ Record(<<"bound", 0>>, s).line[1] \notin Pump
            /\ Record(<<"exit", 0>>, s).line[1] \notin Pump
            /\ Record(<<"bound", 0>>, s) \in Command
            /\ Record(<<"exit", 0>>, s) \in Command
  BY Files DEF Pump
<1>4. CASE \E p \in Pump : BindSession(p)
  BY <1>1, <1>2, <1>3, <1>4 DEF BindSession, Bind, writer
<1>5. CASE \E p \in Pump : Log(p)
  <2> PICK p \in Pump : Log(p)
    BY <1>5
  <2>1. <<p, offered[p] + 1>> \in Pump \X Nat
    BY DEF TypeInv, Counters
  <2>2. Record(<<p, offered[p] + 1>>, sniffed[p].session) \in Command
    BY <2>1, Files
  <2> QED BY <1>2, <2>2 DEF Log
<1>6. CASE Main
  <2>1. CASE Report
    BY <1>1, <1>2, <1>3, <2>1 DEF Report, writer
  <2>2. CASE FlushLog
    <3>1. Flush.line[1] \notin Pump
      BY DEF Flush, Pump
    <3>2. RequestFlush => Range(queue') \subseteq Range(queue) \cup {Flush}
      <4>1. Flush \in Command
        BY DEF Flush, Command, Destination
      <4> DEFINE longer == Append(queue, Flush)
      <4>2. /\ DOMAIN longer = 1 .. Len(queue) + 1 /\ DOMAIN queue = 1 .. Len(queue)
            /\ Len(queue) \in Nat /\ longer[Len(queue) + 1] = Flush
            /\ \A i \in 1 .. Len(queue) : longer[i] = queue[i]
        BY <1>1, <4>1
      <4>3. \A i \in DOMAIN longer : longer[i] \in Range(queue) \cup {Flush}
        BY <4>2 DEF Range
      <4> HIDE DEF longer
      <4>4. Range(longer) \subseteq Range(queue) \cup {Flush}
        BY <4>3 DEF Range
      <4> QED BY <4>4 DEF RequestFlush, longer
    <3> QED BY <1>1, <2>2, <3>1, <3>2 DEF FlushLog, RequestFlush, writer
  <2> QED
    BY <1>1, <1>6, <2>1, <2>2 DEF Main, WaitEnds, GraceEnds, Kill, Reclaim, Drain, writer
<1>7. CASE Writer
  <2>1. CASE WriterTakes
    <3>1. queue # <<>>
      BY <2>1 DEF WriterTakes
    <3>2. Head(queue) \in Range(queue)
      BY <1>1, <3>1 DEF Range
    <3>3. \A i \in DOMAIN Tail(queue) : i + 1 \in DOMAIN queue /\ Tail(queue)[i] = queue[i + 1]
      BY <1>1, <3>1
    <3>4. Range(Tail(queue)) \subseteq Range(queue)
      BY <3>3 DEF Range
    <3> QED BY <1>1, <2>1, <3>2, <3>4 DEF WriterTakes
  <2>2. CASE WriterHandles
    <3>1. Idle.line[1] \notin Pump
      BY DEF Idle, Pump
    <3> QED BY <1>1, <2>2, <3>1 DEF WriterHandles
  <2> QED BY <1>7, <2>1, <2>2 DEF Writer
<1>8. CASE UNCHANGED writer
  BY <1>1, <1>8 DEF writer
<1> QED
  BY <1>4, <1>5, <1>6, <1>7, <1>8
     DEF Next, vars, PumpStep, Outside, Read, Attribute, Forward, EndOfInput, Abort

(* Every step keeps the queued records attributed right.                   *)
LEMMA AttributedRight ==
  ASSUME TypeInv, OrderInv, HandInv, FramesAreAttributed, [Next]_vars
  PROVE  FramesAreAttributed'
<1> SUFFICES ASSUME NEW r \in Waiting', r.line[1] \in Wire
             PROVE  r.to = Meant(At(r.line[1], r.line[2]))
  BY ScriptStays DEF FramesAreAttributed, At
<1>1. CASE r \in Waiting
  BY <1>1 DEF FramesAreAttributed, At
<1>2. CASE \E p \in Pump : Log(p) /\ r = Record(<<p, offered[p] + 1>>, sniffed[p].session)
  <2> PICK p \in Pump : Log(p) /\ r = Record(<<p, offered[p] + 1>>, sniffed[p].session)
    BY <1>2
  <2>1. r.to = FileOf(sniffed[p].session) /\ r.line = <<p, offered[p] + 1>>
    BY Files
  <2>2. Holding(p) /\ Line(p) = At(p, offered[p] + 1)
    BY DEF Log, Holding, Line, At
  <2> QED BY <2>1, <2>2 DEF HandInv
<1>3. \A p \in Wire : p \in Pump
  BY Sides
<1> QED BY <1>1, <1>2, <1>3, WaitingStep

(* Every step keeps the attribution right.                                 *)
LEMMA RoutingStep == TypeInv /\ OrderInv /\ RoutingInv /\ [Next]_vars => RoutingInv'
  BY HandStep, FlightStep, AttributedRight DEF RoutingInv

(* No frame was attributed at first.                                       *)
LEMMA RoutingInit == Init => RoutingInv
<1> SUFFICES ASSUME Init PROVE RoutingInv
  OBVIOUS
<1>1. HandInv
  BY Sides DEF Init, HandInv, Holding
<1>2. FlightInv
  BY Sides DEF Init, FlightInv, Attributed, Holding
<1>3. \A r \in Waiting : r.line[1] \notin Wire
  BY DEF Init, SinkInit, Waiting, Range, Record, Idle, Wire
<1> QED BY <1>1, <1>2, <1>3 DEF RoutingInv, FramesAreAttributed

(* Every frame is logged under the session its sender meant, whatever ids  *)
(* the two peers choose and however the two pumps take turns on the        *)
(* sniffer (pump, SessionSniffer::observe).                                *)
THEOREM RightFiles == Spec => []FramesAreAttributed
<1>1. RoutingInv => FramesAreAttributed
  BY DEF RoutingInv
<1> QED
  BY <1>1, TypeInit, TypeStep, OrderInit, OrderStep, RoutingInit, RoutingStep, PTL DEF Spec

---------------------------------------------------------------------------
(* A source that has closed stays closed, and its pump done.               *)
LEMMA DoneStep ==
  ASSUME TypeInv, DoneInv, [Next]_vars
  PROVE  DoneInv'
<1> SUFFICES ASSUME NEW p \in Pump, pump'[p] = "done"
             PROVE  ~ SourceOpen(p)' /\ passed'[p] = said'[p] /\ offered'[p] = said'[p]
  BY DEF DoneInv
<1>1. Counters /\ HandTypes /\ Processes
  BY DEF TypeInv
<1>2. SourceOpen(p)' => SourceOpen(p)
  <2>1. CASE Main
    BY <1>1, <2>1 DEF Main, WaitEnds, GraceEnds, Kill, Reclaim, Drain, Report, FlushLog,
                      SourceOpen, AgentSide, Processes
  <2>2. CASE \E event \in Event : Happens(event)
    <3>1. AgentExits \/ LeavesKin \/ KinEnds \/ ClosesInput \/ ClientDies \/ Interrupt
      BY <2>2 DEF Happens, Event
    <3> QED
      BY <3>1 DEF AgentExits, LeavesKin, KinEnds, ClosesInput, ClientDies, Interrupt,
                  SourceOpen, AgentSide
  <2>3. CASE UNCHANGED <<agent, kin, client>>
    BY <2>3 DEF SourceOpen, AgentSide
  <2> QED BY <2>1, <2>2, <2>3 DEF Next, vars, PumpStep, Outside, outside, Say
<1>3. CASE EndOfInput(p)
  BY <1>1, <1>2, <1>3 DEF EndOfInput, AtEnd, Counters
<1>4. CASE ~ EndOfInput(p)
  <2>1. pump[p] = "done"
    BY <1>1, <1>4
       DEF HandTypes, Next, vars, PumpStep, Main, Outside, Happens, Say, streams,
           Read, Attribute, BindSession, Log, Forward, EndOfInput, Abort
  <2>2. ~ SourceOpen(p) /\ passed[p] = said[p] /\ offered[p] = said[p]
    BY <2>1 DEF DoneInv
  <2>3. CASE \E q \in Pump : Log(q) \/ Forward(q)
    BY <1>1, <1>2, <1>4, <2>1, <2>2, <2>3 DEF Log, Forward, Counters, HandTypes
  <2>4. CASE \E q \in Pump : Say(q) /\ UNCHANGED <<passed, offered>>
    BY <1>1, <1>2, <2>2, <2>4 DEF Say, SourceOpen, AgentSide, Counters
  <2>5. CASE UNCHANGED <<said, passed, offered>>
    BY <1>2, <2>2, <2>5
  <2> QED
    BY <2>3, <2>4, <2>5
       DEF Next, vars, PumpStep, Main, Outside, Say, Happens, streams,
           Read, Attribute, BindSession, EndOfInput, Abort
<1> QED BY <1>3, <1>4

(* The stages of the main task.                                            *)
LEMMA EndStep ==
  ASSUME TypeInv, EndInv, [Next]_vars
  PROVE  EndInv'
<1>1. Processes /\ HandTypes
  BY DEF TypeInv
<1>2. Drained => Drained'
  BY <1>1
     DEF Drained, HandTypes, Next, vars, PumpStep, Main, Outside, Happens, Say, streams,
         Read, Attribute, BindSession, Log, Forward, EndOfInput, Abort, Pump
<1>3. CASE Main
  <2>1. CASE WaitEnds
    BY <1>1, <2>1 DEF WaitEnds, Go, EndInv, Ended, Processes
  <2>2. CASE GraceEnds
    BY <1>1, <2>2 DEF GraceEnds, Go, EndInv, Ended, Processes
  <2>3. CASE Kill
    BY <1>1, <2>3 DEF Kill, Go, EndInv, Ended, Processes
  <2>4. CASE Reclaim
    BY <1>1, <2>4 DEF Reclaim, Go, EndInv, Ended, Processes
  <2>5. CASE Drain
    BY <1>1, <1>2, <2>5 DEF Drain, Go, EndInv, Ended, Processes
  <2>6. CASE Report
    BY <1>1, <1>2, <2>6 DEF Report, Succeeded, EndInv, Ended, Processes
  <2>7. CASE FlushLog
    BY <1>1, <1>2, <2>7 DEF FlushLog, Go, EndInv, Ended, Processes
  <2> QED BY <1>3, <2>1, <2>2, <2>3, <2>4, <2>5, <2>6, <2>7 DEF Main
<1>4. CASE \E event \in Event : Happens(event) /\ UNCHANGED control
  <2>1. AgentExits \/ LeavesKin \/ KinEnds \/ ClosesInput \/ ClientDies \/ Interrupt
    BY <1>4 DEF Happens, Event
  <2> QED
    BY <1>2, <1>4, <2>1
       DEF AgentExits, LeavesKin, KinEnds, ClosesInput, ClientDies, Interrupt, EndInv, control,
           Ended
<1>5. CASE UNCHANGED <<agent, kin, control>>
  BY <1>2, <1>5 DEF EndInv, control
<1> QED
  BY <1>3, <1>4, <1>5 DEF Next, vars, PumpStep, Outside, outside, Say

(* A record may be added to the queue after the flush if it is late.       *)
LEMMA Adding ==
  ASSUME TypeInv, FlushInv, NEW r \in Command, Enqueue(r),
         r.line[1] # "flush", result' = "agent" => Late(r) \/ main = "report",
         (result' = result /\ main' = main) \/ Report
  PROVE  FlushInv'
<1>1. Sink /\ queue \in Seq(Command) /\ Waiting = Range(queue) \cup {writing}
      /\ Waiting' = Range(queue') \cup {writing'}
      /\ DOMAIN queue = 1 .. Len(queue) /\ DOMAIN queue' = 1 .. Len(queue')
  BY Enqueued DEF TypeInv, Sink, Waiting
<1>2. /\ queue' = queue \/ queue' = Append(queue, r)
      /\ Range(queue') \subseteq Range(queue) \cup {r}
      /\ writing' = writing /\ flushed' = flushed
  BY <1>1, Enqueued
<1>3. r # Flush
  BY DEF Flush
<1>4. main' \notin {"flushing", "exited"} => ~ flushed' /\ Flush \notin Waiting'
  BY <1>1, <1>2, <1>3 DEF FlushInv, Report
<1>5. main' = "exited" => flushed'
  BY <1>2 DEF FlushInv, Report
<1>6. ASSUME result' = "agent"
      PROVE  /\ writing' = Flush => \A i \in 1 .. Len(queue') : Late(queue'[i])
             /\ \A i, j \in 1 .. Len(queue') : i < j /\ queue'[i] = Flush => Late(queue'[j])
             /\ flushed' => /\ writing' = Idle \/ Late(writing')
                            /\ \A i \in 1 .. Len(queue') : Late(queue'[i])
  <2>1. CASE Report
    <3>1. ~ flushed' /\ Flush \notin Waiting'
      BY <1>4, <2>1 DEF Report
    <3>2. \A i \in 1 .. Len(queue') : queue'[i] # Flush
      BY <1>1, <3>1 DEF Range
    <3> QED BY <1>1, <3>1, <3>2
  <2>2. CASE result = "agent" /\ Late(r)
    <3>1. \A i \in 1 .. Len(queue') :
            IF i \in 1 .. Len(queue) THEN queue'[i] = queue[i] ELSE queue'[i] = r
      <4>1. CASE queue' = queue
        BY <1>1, <4>1
      <4>2. CASE queue' = Append(queue, r)
        BY <1>1, <4>2
      <4> QED BY <1>2, <4>1, <4>2
    <3>2. \A i, j \in 1 .. Len(queue') : i < j /\ j \in 1 .. Len(queue) => i \in 1 .. Len(queue)
      BY <1>1
    <3>3. \A i \in 1 .. Len(queue') : queue'[i] = Flush => i \in 1 .. Len(queue)
      BY <1>3, <3>1
    <3>4. \A i \in 1 .. Len(queue') :
            Late(queue'[i]) <=> (i \in 1 .. Len(queue) => Late(queue[i]))
      BY <2>2, <3>1
    <3> QED BY <1>2, <2>2, <3>1, <3>2, <3>3, <3>4 DEF FlushInv
  <2> QED BY <1>6, <2>1, <2>2 DEF TypeInv, Processes, Report
<1> QED BY <1>4, <1>5, <1>6 DEF FlushInv, Late

(* The writer takes its commands from the front.                           *)
LEMMA WriterKeeps ==
  ASSUME TypeInv, FlushInv, Writer, main' = main, result' = result
  PROVE  FlushInv'
<1>1. queue \in Seq(Command) /\ Waiting = Range(queue) \cup {writing}
      /\ Waiting' = Range(queue') \cup {writing'}
      /\ DOMAIN queue = 1 .. Len(queue) /\ Len(queue) \in Nat
  BY DEF TypeInv, Sink, Waiting
<1>2. Flush # Idle
  BY DEF Flush, Idle
<1>3. CASE WriterTakes
  <2>1. queue # <<>> /\ writing = Idle /\ writing' = Head(queue) /\ queue' = Tail(queue)
        /\ flushed' = flushed
    BY <1>3 DEF WriterTakes
  <2>2. /\ Len(queue) # 0 /\ writing' = queue[1] /\ Len(queue') = Len(queue) - 1
        /\ DOMAIN queue' = 1 .. Len(queue')
        /\ \A i \in 1 .. Len(queue') : queue'[i] = queue[i + 1] /\ i + 1 \in 1 .. Len(queue)
    BY <1>1, <2>1
  <2>3. 1 \in 1 .. Len(queue) /\ \A i, j \in 1 .. Len(queue') : i < j => i + 1 < j + 1
    BY <1>1, <2>2
  <2>4. Flush \notin Waiting => Flush \notin Waiting'
    BY <1>1, <2>2, <2>3 DEF Range
  <2>5. ASSUME result = "agent", writing' = Flush, NEW i \in 1 .. Len(queue')
        PROVE  Late(queue'[i])
    <3>1. 1 < i + 1 /\ i + 1 \in 1 .. Len(queue)
      BY <1>1, <2>2
    <3> QED BY <2>2, <2>3, <2>5, <3>1 DEF FlushInv
  <2>6. ASSUME result = "agent", NEW i \in 1 .. Len(queue'), NEW j \in 1 .. Len(queue'),
               i < j, queue'[i] = Flush
        PROVE  Late(queue'[j])
    BY <2>2, <2>3, <2>6 DEF FlushInv
  <2>7. ASSUME result = "agent", flushed
        PROVE  Late(writing') /\ \A i \in 1 .. Len(queue') : Late(queue'[i])
    BY <2>2, <2>3, <2>7 DEF FlushInv
  <2> QED BY <2>1, <2>4, <2>5, <2>6, <2>7 DEF FlushInv, Late
<1>4. CASE WriterHandles
  <2>1. writing' = Idle /\ queue' = queue /\ flushed' = (flushed \/ writing = Flush)
    BY <1>4 DEF WriterHandles
  <2>2. Flush \notin Waiting => Flush \notin Waiting'
    BY <1>1, <1>2, <2>1
  <2>3. writing = Flush => Flush \in Waiting
    BY <1>1
  <2> QED BY <1>2, <2>1, <2>2, <2>3 DEF FlushInv, Late
<1> QED BY <1>3, <1>4 DEF Writer

(* After the flush only the client's pump still adds to the queue.         *)
LEMMA FlushStep ==
  ASSUME TypeInv, DoneInv, EndInv, FlushInv, [Next]_vars
  PROVE  FlushInv'
<1>1. Sink /\ HandTypes /\ Processes /\ Counters
  BY DEF TypeInv
<1>2. result = "agent" => pump["down"] = "done" /\ pump["err"] = "done"
  BY <1>1 DEF EndInv, Ended, Processes, Drained
<1>3. ASSUME UNCHANGED <<writer, control>> PROVE FlushInv'
  BY <1>3 DEF FlushInv, writer, control, Waiting, Late
<1>4. CASE PumpStep
  <2>1. result' = result /\ main' = main /\ UNCHANGED control
    BY <1>4 DEF PumpStep, control
  <2>2. CASE \E p \in Pump : BindSession(p)
    <3> PICK p \in Pump : BindSession(p)
      BY <2>2
    <3>1. CASE sniffed[p].established \in Safe
      <4> DEFINE r == Record(<<"bound", 0>>, None)
      <4>1. r \in Command /\ r.line[1] # "flush" /\ Late(r)
        <5>1. r.line = <<"bound", 0>>
          BY Files
        <5>2. r \in Command
          BY Files
        <5> QED BY <5>1, <5>2 DEF Late
      <4>2. Enqueue(r)
        BY <3>1 DEF BindSession, Bind
      <4> HIDE DEF r
      <4> QED BY <2>1, <4>1, <4>2, Adding
    <3>2. CASE sniffed[p].established \notin Safe
      BY <1>3, <2>1, <3>2 DEF BindSession, Bind
    <3> QED BY <3>1, <3>2
  <2>3. CASE \E p \in Pump : Log(p)
    <3> PICK p \in Pump : Log(p)
      BY <2>3
    <3> DEFINE r == Record(<<p, offered[p] + 1>>, sniffed[p].session)
    <3>1. <<p, offered[p] + 1>> \in Pump \X Nat
      BY <1>1 DEF Counters
    <3>2. r \in Command /\ r.line[1] = p /\ Enqueue(r)
      <4>1. r \in Command
        BY <3>1, Files
      <4>2. r.line = <<p, offered[p] + 1>>
        BY Files
      <4> QED BY <4>1, <4>2 DEF Log
    <3>3. result = "agent" => p = "up"
      BY <1>2 DEF Log, Pump
    <3> HIDE DEF r
    <3>4. r.line[1] # "flush" /\ (result' = "agent" => Late(r))
      BY <2>1, <3>2, <3>3 DEF Late, Pump
    <3> QED BY <2>1, <3>2, <3>4, Adding
  <2> QED
    BY <1>3, <1>4, <2>1, <2>2, <2>3 DEF PumpStep, Read, Attribute, Forward, EndOfInput, Abort
<1>5. CASE Main
  <2>1. CASE Report
    <3>1. CASE failures \subseteq {"drain"}
      <4> DEFINE r == Record(<<"exit", 0>>, bound)
      <4>1. r \in Command /\ r.line[1] # "flush"
        BY Files
      <4>2. Enqueue(r) /\ main = "report"
        BY <2>1, <3>1 DEF Report
      <4> HIDE DEF r
      <4> QED BY <2>1, <4>1, <4>2, Adding
    <3>2. CASE ~ failures \subseteq {"drain"}
      <4>1. UNCHANGED writer /\ main = "report" /\ main' = "flush" /\ result' = "error"
        BY <2>1, <3>2 DEF Report, Succeeded
      <4> QED BY <4>1 DEF FlushInv, writer, Waiting
    <3> QED BY <3>1, <3>2
  <2>2. CASE main = "flush" /\ RequestFlush /\ Go("flushing")
    <3>1. queue \in Seq(Command) /\ Flush \in Command
      BY <1>1 DEF Sink, Flush, Command, Destination
    <3>2. ~ flushed /\ Flush \notin Waiting
      BY <2>2 DEF FlushInv
    <3>3. writing # Flush /\ \A i \in 1 .. Len(queue) : queue[i] # Flush
      BY <3>1, <3>2 DEF Waiting, Range
    <3>4. /\ Len(queue) \in Nat /\ Len(queue') = Len(queue) + 1
          /\ \A i \in 1 .. Len(queue) : queue'[i] = queue[i]
      BY <2>2, <3>1 DEF RequestFlush
    <3>5. \A i, j \in 1 .. Len(queue') : i < j => i \in 1 .. Len(queue)
      BY <3>4
    <3> QED BY <2>2, <3>2, <3>3, <3>4, <3>5 DEF FlushInv, RequestFlush, Go
  <2>3. CASE main = "flushing" /\ flushed /\ Go("exited") /\ UNCHANGED writer
    BY <2>3 DEF FlushInv, Go, writer, Waiting, Late
  <2>4. CASE WaitEnds \/ GraceEnds \/ Kill \/ Reclaim \/ Drain
    <3>1. /\ UNCHANGED <<writer, result>>
          /\ main \notin {"flushing", "exited"} /\ main' \notin {"flushing", "exited"}
      BY <2>4 DEF WaitEnds, GraceEnds, Kill, Reclaim, Drain, Go
    <3> QED BY <3>1 DEF FlushInv, writer, Waiting, Late
  <2> QED BY <1>5, <2>1, <2>2, <2>3, <2>4 DEF Main, FlushLog
<1>6. CASE Writer /\ UNCHANGED control
  BY <1>6, WriterKeeps DEF control
<1> QED BY <1>3, <1>4, <1>5, <1>6 DEF Next, vars, Outside

(* The whole invariant, at first and in every step.                        *)
LEMMA ProxyInit == Init => ProxyInv
<1> SUFFICES ASSUME Init PROVE ProxyInv
  OBVIOUS
<1>1. DoneInv
  BY DEF Init, DoneInv
<1>2. EndInv
  BY DEF Init, EndInv, Ended
<1>3. FlushInv
  BY DEF Init, SinkInit, FlushInv, Waiting, Range, Record, Flush, Idle
<1> QED BY <1>1, <1>2, <1>3, TypeInit, OrderInit, RoutingInit DEF ProxyInv

(* Every step keeps the invariant.                                         *)
LEMMA ProxyStep == ProxyInv /\ [Next]_vars => ProxyInv'
  BY TypeStep, OrderStep, RoutingStep, DoneStep, EndStep, FlushStep DEF ProxyInv

(* If the proxy exits with the agent's status, the agent and its           *)
(* descendants have ended, all they wrote was passed on and handed to the  *)
(* log, and the log's writer has handled what it was given before the      *)
(* flush (pump_child, LogSink::flush).                                     *)
THEOREM AgentsStatusMeansAll == Spec => []SuccessIsComplete
<1>1. ProxyInv => SuccessIsComplete
  <2> SUFFICES ASSUME ProxyInv, main = "exited", result = "agent"
               PROVE  /\ agent # "running"
                      /\ ~ kin
                      /\ \A p \in {"down", "err"} : passed[p] = said[p] /\ offered[p] = said[p]
                      /\ \A r \in Waiting : r.line[1] \in {"idle", "up", "bound"}
    BY DEF SuccessIsComplete
  <2>1. agent # "running" /\ ~ kin /\ Drained
    BY DEF ProxyInv, EndInv, Ended
  <2>2. \A p \in {"down", "err"} : passed[p] = said[p] /\ offered[p] = said[p]
    BY <2>1 DEF ProxyInv, DoneInv, Drained, Pump
  <2>3. flushed /\ (writing = Idle \/ Late(writing)) /\ \A i \in 1 .. Len(queue) : Late(queue[i])
    BY DEF ProxyInv, FlushInv
  <2>4. \A r \in Waiting : r = Idle \/ Late(r)
    BY <2>3 DEF Waiting, Range, ProxyInv, TypeInv, Sink
  <2> QED BY <2>1, <2>2, <2>4 DEF Late, Idle
<1> QED BY <1>1, ProxyInit, ProxyStep, PTL DEF Spec
---------------------------------------------------------------------------
(* The proxy relays.                                                       *)
Position == <<said, offered, passed, result>>

(* A line without its end is the last of all.                              *)
LEMMA LastLine ==
  ASSUME TypeInv, NEW p \in Pump, offered[p] < said[p],
         Open(script, p, offered[p] + 1)
  PROVE  said[p] = offered[p] + 1
<1>1. /\ said[p] \in Nat /\ offered[p] \in Nat /\ Size(p) \in Nat
      /\ said[p] <= Size(p)
  BY ScriptTypes DEF TypeInv, Counters, Size
<1>2. offered[p] + 1 = Size(p)
  BY DEF Open, Size
<1> QED BY <1>1, <1>2

(* What is written: by the agent only before its status is reported.       *)
LEMMA SaysIsWrite ==
  ASSUME TypeInv, EndInv, NEW p \in Pump, Say(p),
         UNCHANGED <<offered, passed, result>>
  PROVE  Relaying!Write(p)
<1>1. p # "up" => agent = "running"
  BY DEF Say
<1>2. agent = "running" => result # "agent"
  BY DEF EndInv, Ended, TypeInv, Processes
<1> QED BY <1>1, <1>2 DEF Say, Relaying!Write

(* What is handed to the log: the next line.                               *)
LEMMA LogsAreRecords ==
  ASSUME TypeInv, NEW p \in Pump, Log(p), UNCHANGED <<said, passed, result>>
  PROVE  Relaying!Record(p)
<1>1. /\ said[p] \in Nat /\ offered[p] \in Nat /\ taken[p] \in Nat /\ taken[p] <= said[p]
      /\ offered[p] < taken[p]
  BY DEF TypeInv, Counters, Log, HandTypes, Holding
<1> QED BY <1>1 DEF Log, Relaying!Record

(* What is passed on: lines handed to the log, and one without its end.    *)
LEMMA ForwardsAreDeliveries ==
  ASSUME TypeInv, NEW p \in Pump, Forward(p), UNCHANGED result
  PROVE  Relaying!Deliver(p) \/ UNCHANGED Position
<1>1. /\ said[p] \in Nat /\ offered[p] \in Nat /\ taken[p] \in Nat /\ passed[p] \in Nat
      /\ taken[p] <= said[p]
  BY DEF TypeInv, Counters
<1>2. taken[p] <= offered[p] + 1
  <2>1. CASE offered[p] < taken[p]
    <3>1. Open(script, p, offered[p] + 1)
      BY <2>1 DEF Forward, Offered, NextIsOpen
    <3>2. said[p] = offered[p] + 1
      BY <1>1, <2>1, <3>1, LastLine
    <3> QED BY <1>1, <3>2
  <2> QED BY <1>1, <2>1
<1>3. taken[p] \in passed[p] + 1 .. said[p]
  BY <1>1 DEF Forward
<1>4. CASE TargetOpen(p)
  BY <1>2, <1>3, <1>4 DEF Forward, Relaying!Deliver
<1>5. CASE ~ TargetOpen(p)
  BY <1>5 DEF Forward, Position
<1> QED BY <1>4, <1>5

(* What is reported: the agent's status only after all of its output.      *)
LEMMA ReportsAreReports ==
  ASSUME TypeInv, DoneInv, EndInv, Report, UNCHANGED <<said, offered, passed>>
  PROVE  \E s \in {"agent", "error"} : Relaying!Report(s)
<1>1. result = "none"
  BY DEF TypeInv, Processes, Report
<1>2. ASSUME Succeeded
      PROVE  \A p \in {"down", "err"} : passed[p] = said[p] /\ offered[p] = said[p]
  <2>1. Drained
    BY <1>2 DEF Report, EndInv, Ended, Succeeded
  <2> QED BY <2>1 DEF Drained, DoneInv, Pump
<1>3. CASE Succeeded
  <2>1. result' = "agent"
    BY <1>3 DEF Report
  <2> QED BY <1>1, <1>2, <1>3, <2>1 DEF Relaying!Report
<1>4. CASE ~ Succeeded
  <2>1. result' = "error"
    BY <1>4 DEF Report
  <2> QED BY <1>1, <2>1 DEF Relaying!Report
<1> QED BY <1>3, <1>4

(* Every step is one of the relay's, or none.                              *)
LEMMA RelayStep ==
  ASSUME ProxyInv, [Next]_vars
  PROVE  [Relaying!Next]_Position
<1> USE DEF ProxyInv, OrderInv
<1>1. CASE \E p \in Pump : Say(p) /\ Outside
  BY <1>1, SaysIsWrite DEF Outside, control, Say, Relaying!Next
<1>2. CASE \E p \in Pump : Log(p) /\ UNCHANGED control
  BY <1>2, LogsAreRecords DEF Log, control, Relaying!Next
<1>3. CASE \E p \in Pump : Forward(p) /\ UNCHANGED control
  BY <1>3, ForwardsAreDeliveries DEF control, Relaying!Next
<1>4. CASE Report /\ UNCHANGED streams
  BY <1>4, ReportsAreReports DEF streams, Relaying!Next
<1>5. CASE UNCHANGED Position
  BY <1>5
<1> QED
  BY <1>1, <1>2, <1>3, <1>4, <1>5
     DEF Next, vars, PumpStep, Main, Outside, Happens, streams, control, Position,
         Read, Attribute, BindSession, EndOfInput, Abort,
         WaitEnds, GraceEnds, Kill, Reclaim, Drain, FlushLog, Go

(* The proxy implements Relay: it passes on and records every pipe in      *)
(* order, a line goes on no earlier than it is recorded, and the agent's   *)
(* status is reported once, of output that has ended (pump, pump_child).   *)
THEOREM ProxyRelays == Spec => IsRelay
<1>1. Init => Relaying!Init
  BY DEF Init, Relaying!Init
<1> QED
  BY <1>1, ProxyInit, ProxyStep, RelayStep, PTL
     DEF Spec, IsRelay, Relaying!Spec, Position
=============================================================================
