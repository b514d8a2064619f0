---------------------- MODULE CompletionStreamProofs ----------------------
(***************************************************************************)
(* Proofs about CompletionStream for every number of connections, events,  *)
(* tokens and micro-dollars: what the turn takes is what one connection    *)
(* sent, a complete answer is whole, and it is charged once.               *)
(*                                                                         *)
(* The pipe between the two tasks carries the argument: what the turn has  *)
(* taken, followed by the channel, is what the connection sent, and only   *)
(* an error that ends the channel can hide a difference.                   *)
(***************************************************************************)
EXTENDS CompletionStream, SequenceTheorems, TLAPS

USE StreamAssumption

---------------------------------------------------------------------------
Item == Event \cup {Error}

StreamTypes ==
  /\ attempt \in 1 .. MaxAttempts
  /\ sentOut \in Seq(Event)
  /\ channel \in Seq(Item)
  /\ collected \in Seq(Event)
  /\ usage \in Usage \cup {"none"}
  /\ forwarding \in BOOLEAN /\ sawFinish \in BOOLEAN /\ emitted \in BOOLEAN
  /\ outcome \in {"none", "complete", "cancelled", "error"}
  /\ totals \in 0 .. MaxCount
  /\ cost \in 0 .. MaxCount
  /\ owed \in 0 .. MaxCount
  /\ counted \in 0 .. MaxCount

(* The channel ends with an error.                                         *)
Faulty == channel # <<>> /\ channel[Len(channel)] = Error

(* The turn has taken the beginning of what this connection sent.          *)
TakenInv ==
  /\ Len(collected) <= Len(sentOut)
  /\ \A i \in 1 .. Len(collected) : collected[i] = sentOut[i]

(* The channel holds what comes next, all of it unless an error ends it,   *)
(* which it never does while the transport runs.                           *)
ChannelInv ==
  outcome = "none" =>
    /\ \A i \in 1 .. Len(channel) :
         \/ i = Len(channel) /\ channel[i] = Error
         \/ /\ Len(collected) + i <= Len(sentOut)
            /\ channel[i] = sentOut[Len(collected) + i]
    /\ ~ Faulty => Len(collected) + Len(channel) = Len(sentOut)
    /\ forwarding => ~ Faulty

(* A connection that may be replaced has sent nothing.                     *)
ReplayInv == forwarding /\ ~ emitted => sentOut = <<>>

(* A finish reason was sent, and only usage after it.                      *)
Whole(events) ==
  \E i \in 1 .. Len(events) :
    /\ events[i][3] = "finish"
    /\ \A j \in i + 1 .. Len(events) : events[j][3] \in Usage

(* Unless an error says otherwise, a transport that saw the finish reason  *)
(* sent a whole completion, and one that ended by itself saw it.           *)
FinishInv ==
  outcome = "none" /\ ~ Faulty =>
    /\ sawFinish => Whole(sentOut)
    /\ ~ forwarding /\ ~ cancelled => sawFinish
CompleteInv ==
  outcome = "complete" => collected = sentOut /\ Whole(sentOut) /\ AllSlotsOpened

(* The turn holds the last report it took, and the totals and the cost are *)
(* what they were or what this report adds, the latter if the completion   *)
(* is complete or cancelled.                                               *)
UsageInv == IsLastReport(usage, collected)
Untouched == totals = counted /\ cost = owed
Added == totals = counted + Spent(usage) /\ cost = owed + Due(usage)
CostInv ==
  \/ outcome \in {"none", "error"} /\ Untouched
  \/ outcome # "none" /\ Added
  \/ outcome = "error" /\ totals = counted + Spent(usage) /\ cost = owed

---------------------------------------------------------------------------
(* What ends the transport appends an error to the channel, or nothing.    *)
LEMMA EndWithError ==
  ASSUME channel \in Seq(Item), EndWith(<<Error>>)
  PROVE  channel' = Append(channel, Error) /\ ~ forwarding'
BY AppendIsConcat DEF EndWith, Item

(* A transport that ends without an error leaves the channel as it is.     *)
LEMMA EndWithNothing ==
  ASSUME channel \in Seq(Item), EndWith(<<>>)
  PROVE  channel' = channel /\ ~ forwarding'
BY ConcatEmptySeq DEF EndWith

(* What the transport does to the channel and to what was sent.            *)
Sends ==
  /\ \E event \in Event :
       /\ sentOut' = Append(sentOut, event)
       /\ \/ /\ channel' = Append(channel, event)
             /\ forwarding' = forwarding /\ emitted'
             /\ sawFinish' = (sawFinish \/ event[3] = "finish")
             /\ sawFinish => event[3] \in Usage
          \/ /\ channel' = Append(channel, Error)
             /\ ~ forwarding' /\ UNCHANGED <<sawFinish, emitted>>
  /\ UNCHANGED attempt
Fails ==
  /\ channel' = Append(channel, Error)
  /\ ~ forwarding'
  /\ UNCHANGED <<attempt, sentOut, sawFinish, emitted>>
Finishes ==
  /\ sawFinish
  /\ ~ forwarding'
  /\ UNCHANGED <<attempt, sentOut, channel, sawFinish, emitted>>
Replays ==
  /\ ~ emitted /\ ~ sawFinish
  /\ attempt' = attempt + 1 /\ attempt < MaxAttempts
  /\ sentOut' = <<>>
  /\ UNCHANGED <<forwarding, channel, sawFinish, emitted>>
Transport == Sends \/ Fails \/ Finishes \/ Replays

(* The transport's steps are of the kinds above, and leave the turn alone. *)
LEMMA TransportStep ==
  ASSUME StreamTypes,
         \/ \E kind \in Kind : Forward(kind)
         \/ Disconnect \/ StreamDone \/ Broken
  PROVE  Transport /\ Attends /\ UNCHANGED <<cancelled, turn>>
<1> USE DEF StreamTypes
<1>1. CASE \E kind \in Kind : Forward(kind)
  <2>1. PICK kind \in Kind : Forward(kind)
    BY <1>1
  <2> DEFINE event == <<attempt, Len(sentOut) + 1, kind>>
  <2>2. event \in Event
    <3>1. Len(sentOut) + 1 \in 1 .. MaxEvents
      BY <2>1 DEF Forward
    <3>2. QED
      BY <3>1 DEF Event
  <2>3. CASE sawFinish /\ kind \notin Usage
    BY <2>1, <2>2, <2>3, EndWithError DEF Forward, Transport, Sends, transport
  <2>4. CASE ~ (sawFinish /\ kind \notin Usage)
    BY <2>1, <2>2, <2>4 DEF Forward, Transport, Sends
  <2>5. QED
    BY <2>1, <2>3, <2>4 DEF Forward
<1>2. CASE Disconnect
  BY <1>2, EndWithError, EndWithNothing
     DEF Disconnect, Transport, Fails, Finishes, Replays, MayReplay, RetriesLeft
<1>3. CASE StreamDone
  BY <1>3, EndWithError, EndWithNothing
     DEF StreamDone, Transport, Fails, Finishes
<1>4. CASE Broken
  BY <1>4, EndWithError DEF Broken, Transport, Fails
<1>5. QED
  BY <1>1, <1>2, <1>3, <1>4

(* What the charge of a completion does to the totals and to the cost.     *)
LEMMA SettleStep ==
  ASSUME StreamTypes, NEW reason \in {"complete", "cancelled"}, Settle(reason)
  PROVE  /\ outcome' \in {reason, "error"} /\ UNCHANGED <<model, owed, counted>>
         /\ totals' \in 0 .. MaxCount /\ cost' \in 0 .. MaxCount
         /\ \/ totals' = totals + Spent(usage) /\ cost' = cost + Due(usage)
            \/ outcome' = "error" /\ totals' = totals + Spent(usage) /\ cost' = cost
            \/ outcome' = "error" /\ totals' = totals /\ cost' = cost
<1> USE DEF StreamTypes, Settle
<1>1. Spent(usage) \in Nat /\ Due(usage) \in Nat
  BY DEF Spent, Due, Price, Tokens, Usage
<1>2. usage # "none" =>
        /\ Used = Spent(usage) /\ Count = totals + Spent(usage)
        /\ Charged = cost + Due(usage)
  BY DEF Used, Count, Charged, Spent, Due
<1>3. CASE usage = "none"
  BY <1>3 DEF Spent, Due, Price
<1>4. CASE usage # "none" /\ Count > MaxCount
  BY <1>1, <1>2, <1>4
<1>5. CASE usage # "none" /\ Count <= MaxCount /\ ~ Listed
  <2>1. Due(usage) = 0
    BY <1>5 DEF Listed, Known, Due, Price
  <2>2. QED
    BY <1>1, <1>2, <1>5, <2>1
<1>6. CASE usage # "none" /\ Count <= MaxCount /\ Listed
  BY <1>1, <1>2, <1>6
<1>7. QED
  BY <1>1, <1>2, <1>3, <1>4, <1>5, <1>6

(* Every step keeps the types.                                             *)
LEMMA TypeStep ==
  ASSUME StreamTypes, [Next]_vars
  PROVE  StreamTypes'
<1> USE DEF StreamTypes
<1>1. CASE \/ \E kind \in Kind : Forward(kind)
           \/ Disconnect \/ StreamDone \/ Broken
  <2>1. Transport /\ UNCHANGED turn
    BY <1>1, TransportStep
  <2>2. \A item \in Item : Append(channel, item) \in Seq(Item)
    BY AppendProperties
  <2>3. \A event \in Event : Append(sentOut, event) \in Seq(Event)
    BY AppendProperties
  <2>4. UNCHANGED <<collected, usage, outcome, totals, cost, owed, counted>>
    BY <2>1 DEF turn, bill
  <2>5. sentOut' \in Seq(Event)
    <3>1. CASE Sends
      BY <2>3, <3>1 DEF Sends
    <3>2. CASE sentOut' = sentOut
      BY <3>2
    <3>3. CASE sentOut' = <<>>
      BY <3>3, EmptySeq
    <3>4. QED
      BY <2>1, <3>1, <3>2, <3>3 DEF Transport, Fails, Finishes, Replays
  <2>6. channel' \in Seq(Item)
    BY <2>1, <2>2 DEF Transport, Sends, Fails, Finishes, Replays, Item
  <2>7. attempt' \in 1 .. MaxAttempts
    BY <2>1 DEF Transport, Sends, Fails, Finishes, Replays
  <2>8. forwarding' \in BOOLEAN /\ sawFinish' \in BOOLEAN /\ emitted' \in BOOLEAN
    BY <1>1 DEF Forward, Disconnect, StreamDone, Broken, EndWith
  <2>9. QED
    BY <2>4, <2>5, <2>6, <2>7, <2>8
<1>2. CASE Leave \/ Pending \/ Cancel
  BY <1>2 DEF Leave, Pending, Cancel, transport, turn, bill
<1>3. CASE Look
  <2>1. CASE cancelled
    BY <1>3, <2>1, SettleStep DEF Look, transport
  <2>2. CASE ~ cancelled
    BY <1>3, <2>2 DEF Look, transport, bill
  <2>3. QED
    BY <2>1, <2>2
<1>4. CASE Receive
  <2>1. channel' \in Seq(Item) /\ Head(channel) \in Item
    BY <1>4, HeadTailProperties DEF Receive
  <2>2. collected' \in Seq(Event)
    <3>1. CASE collected' = collected
      BY <3>1
    <3>2. CASE Head(channel) # Error /\ collected' = Append(collected, Head(channel))
      <4>1. Head(channel) \in Event
        BY <2>1, <3>2 DEF Item
      <4>2. QED
        BY <3>2, <4>1, AppendProperties
    <3>3. QED
      BY <1>4, <3>1, <3>2 DEF Receive
  <2>3. usage' \in Usage \cup {"none"}
    BY <1>4 DEF Receive, UsageAfter
  <2>4. QED
    BY <1>4, <2>1, <2>2, <2>3 DEF Receive, transport, bill
<1>5. CASE Close
  <2>1. CASE ReasonOfClose = "complete" /\ ~ AllSlotsOpened
    BY <1>5, <2>1 DEF Close, transport, bill
  <2>2. CASE ~ (ReasonOfClose = "complete" /\ ~ AllSlotsOpened)
    BY <1>5, <2>2, SettleStep DEF Close, ReasonOfClose, transport
  <2>3. QED
    BY <2>1, <2>2
<1>6. CASE UNCHANGED vars
  BY <1>6 DEF vars, transport, turn, bill
<1>7. QED
  BY <1>1, <1>2, <1>3, <1>4, <1>5, <1>6 DEF Next

---------------------------------------------------------------------------
(* An event is no error, and it is told by its kind.                       *)
LEMMA EventsAreNoErrors ==
  ASSUME NEW event \in Event
  PROVE  event # Error /\ event[3] \in Kind
BY DEF Event, Error

(* The lengths of the three sequences are numbers.                         *)
LEMMA Lengths ==
  ASSUME StreamTypes
  PROVE  /\ Len(sentOut) \in Nat /\ Len(channel) \in Nat /\ Len(collected) \in Nat
         /\ \A i \in 1 .. Len(sentOut) : sentOut[i] \in Event
         /\ \A i \in 1 .. Len(collected) : collected[i] \in Event
         /\ channel = <<>> <=> Len(channel) = 0
BY DEF StreamTypes

(* An error at the end of the channel.                                     *)
LEMMA FaultAppended ==
  ASSUME StreamTypes, channel' = Append(channel, Error)
  PROVE  /\ Faulty'
         /\ Len(channel') = Len(channel) + 1
         /\ channel'[Len(channel')] = Error
         /\ \A i \in 1 .. Len(channel) : channel'[i] = channel[i]
<1>1. channel \in Seq(Item) /\ Error \in Item
  BY DEF StreamTypes, Item
<1>2. /\ channel' # <<>> /\ Len(channel') = Len(channel) + 1
      /\ channel'[Len(channel) + 1] = Error
      /\ \A i \in 1 .. Len(channel) : channel'[i] = channel[i]
  BY <1>1, AppendProperties
<1>3. QED
  BY <1>2 DEF Faulty

PipeInv == TakenInv /\ ChannelInv /\ ReplayInv

(* The transport keeps the pipe whole, whatever becomes of the connection. *)
LEMMA PipeTransport ==
  ASSUME StreamTypes, PipeInv, Transport, Attends, UNCHANGED <<cancelled, turn>>
  PROVE  PipeInv'
<1> DEFINE n == Len(sentOut)
           c == Len(collected)
           h == Len(channel)
<1>1. n \in Nat /\ c \in Nat /\ h \in Nat
  BY Lengths
<1>2. outcome = "none" /\ forwarding /\ ~ Faulty /\ c + h = n
  BY DEF Attends, PipeInv, ChannelInv
<1>3. \A i \in 1 .. h : c + i <= n /\ channel[i] = sentOut[c + i]
  <2>1. \A i \in 1 .. h : ~ (i = h /\ channel[i] = Error)
    BY <1>1, <1>2, Lengths DEF Faulty
  <2>2. QED
    BY <1>2, <2>1 DEF PipeInv, ChannelInv
<1>4. UNCHANGED <<collected, outcome>>
  BY DEF turn
<1>5. /\ c <= n
      /\ \A i \in 1 .. c : collected[i] = sentOut[i]
  BY DEF PipeInv, TakenInv
<1>6. CASE Sends
  <2>1. PICK event \in Event :
          /\ sentOut' = Append(sentOut, event)
          /\ \/ channel' = Append(channel, event) /\ emitted'
             \/ channel' = Append(channel, Error) /\ ~ forwarding'
    BY <1>6 DEF Sends
  <2>2. /\ Len(sentOut') = n + 1
        /\ sentOut'[n + 1] = event
        /\ \A i \in 1 .. n : sentOut'[i] = sentOut[i]
    BY <2>1, AppendProperties DEF StreamTypes
  <2> HIDE DEF n, c, h
  <2>3. TakenInv'
    BY <1>1, <1>4, <1>5, <2>2 DEF TakenInv, c, n
  <2>4. CASE channel' = Append(channel, event) /\ emitted'
    <3>1. /\ Len(channel') = h + 1
          /\ channel'[h + 1] = event
          /\ \A i \in 1 .. h : channel'[i] = channel[i]
      BY <2>4, AppendProperties DEF StreamTypes, Item, h
    <3>2. ~ Faulty'
      BY <3>1, EventsAreNoErrors DEF Faulty
    <3>3. Len(collected') = c
      BY <1>4 DEF c
    <3>4. \A i \in 1 .. Len(channel') :
            c + i <= Len(sentOut') /\ channel'[i] = sentOut'[c + i]
      <4>1. \A i \in 1 .. h : c + i <= Len(sentOut') /\ channel'[i] = sentOut'[c + i]
        BY <1>1, <1>2, <1>3, <2>2, <3>1
      <4>2. c + (h + 1) <= Len(sentOut') /\ channel'[h + 1] = sentOut'[c + (h + 1)]
        <5>1. c + (h + 1) = n + 1
          BY <1>1, <1>2 DEF n, c, h
        <5>2. QED
          BY <1>1, <2>2, <3>1, <5>1
      <4>3. QED
        BY <1>1, <3>1, <4>1, <4>2
    <3>5. c + Len(channel') = Len(sentOut')
      BY <1>1, <1>2, <2>2, <3>1
    <3>6. ChannelInv'
      BY <3>2, <3>3, <3>4, <3>5 DEF ChannelInv
    <3>7. QED
      BY <2>3, <2>4, <3>6 DEF PipeInv, ReplayInv
  <2>5. CASE channel' = Append(channel, Error) /\ ~ forwarding'
    <3>1. /\ Faulty' /\ Len(channel') = h + 1 /\ channel'[Len(channel')] = Error
          /\ \A i \in 1 .. h : channel'[i] = channel[i]
      BY <2>5, FaultAppended DEF h
    <3>2. Len(collected') = c
      BY <1>4 DEF c
    <3>3. \A i \in 1 .. h : c + i <= Len(sentOut') /\ channel'[i] = sentOut'[c + i]
      BY <1>1, <1>2, <1>3, <2>2, <3>1
    <3>4. ChannelInv'
      BY <1>1, <2>5, <3>1, <3>2, <3>3 DEF ChannelInv
    <3>5. QED
      BY <2>3, <2>5, <3>4 DEF PipeInv, ReplayInv
  <2>6. QED
    BY <2>1, <2>4, <2>5
<1>7. CASE Fails
  <2>1. /\ Faulty' /\ Len(channel') = h + 1 /\ channel'[Len(channel')] = Error
        /\ \A i \in 1 .. h : channel'[i] = channel[i]
        /\ ~ forwarding' /\ UNCHANGED sentOut
    BY <1>7, FaultAppended DEF Fails
  <2>2. TakenInv'
    BY <1>4, <1>5, <2>1 DEF TakenInv
  <2>3. ChannelInv'
    BY <1>1, <1>3, <1>4, <2>1, SMTT(30) DEF ChannelInv
  <2>4. QED
    BY <2>1, <2>2, <2>3 DEF PipeInv, ReplayInv
<1>8. CASE Finishes
  BY <1>4, <1>8 DEF Finishes, PipeInv, TakenInv, ChannelInv, ReplayInv, Faulty
<1>9. CASE Replays
  <2>1. UNCHANGED <<sentOut, channel, forwarding, emitted>>
    BY <1>2, <1>9 DEF Replays, PipeInv, ReplayInv
  <2>2. QED
    BY <1>4, <2>1 DEF PipeInv, TakenInv, ChannelInv, ReplayInv, Faulty
<1>10. QED
  BY <1>6, <1>7, <1>8, <1>9 DEF Transport

(* What the turn does to what it has taken and to the channel.             *)
Rests == UNCHANGED <<sentOut, channel, collected>>
Takes ==
  /\ channel # <<>> /\ Head(channel) # Error
  /\ channel' = Tail(channel)
  /\ collected' = Append(collected, Head(channel))
  /\ usage' = UsageAfter(Head(channel)[3])

(* The turn's steps leave the transport alone, and rest, take an item or   *)
(* fail.                                                                   *)
LEMMA TurnStep ==
  ASSUME StreamTypes, Leave \/ Look \/ Receive \/ Pending \/ Close \/ Cancel
  PROVE  /\ UNCHANGED <<attempt, sentOut, sawFinish, emitted>>
         /\ forwarding' => forwarding
         /\ \/ Rests /\ usage' = usage
            \/ Takes /\ outcome = "none" /\ UNCHANGED <<transport, cancelled, outcome, bill>>
            \/ Receive /\ outcome' = "error"
<1>1. CASE Leave \/ Pending \/ Cancel
  BY <1>1 DEF Leave, Pending, Cancel, Rests, transport, turn
<1>2. CASE Look
  BY <1>2 DEF Look, Rests, transport
<1>3. CASE Receive
  BY <1>3 DEF Receive, Takes, transport
<1>4. CASE Close
  BY <1>4 DEF Close, Rests, transport
<1>5. QED
  BY <1>1, <1>2, <1>3, <1>4

(* The event the turn takes is the next one the connection sent.           *)
LEMMA TakenIsNext ==
  ASSUME StreamTypes, PipeInv, Takes, outcome = "none"
  PROVE  /\ Head(channel) \in Event
         /\ Len(collected) + 1 <= Len(sentOut)
         /\ Head(channel) = sentOut[Len(collected) + 1]
         /\ Len(collected') = Len(collected) + 1
         /\ collected'[Len(collected) + 1] = Head(channel)
         /\ \A i \in 1 .. Len(collected) : collected'[i] = collected[i]
         /\ Len(channel') = Len(channel) - 1
         /\ \A i \in 1 .. Len(channel') : channel'[i] = channel[i + 1]
<1>1. channel \in Seq(Item) /\ channel # <<>> /\ Head(channel) # Error
  BY DEF StreamTypes, Takes
<1>2. Head(channel) \in Event
  BY <1>1, HeadTailProperties DEF Item
<1>3. Len(channel) \in Nat \ {0} /\ Head(channel) = channel[1]
  BY <1>1, Lengths
<1>4. Len(collected) + 1 <= Len(sentOut) /\ channel[1] = sentOut[Len(collected) + 1]
  BY <1>1, <1>3 DEF PipeInv, ChannelInv
<1>5. /\ Len(collected') = Len(collected) + 1
      /\ collected'[Len(collected) + 1] = Head(channel)
      /\ \A i \in 1 .. Len(collected) : collected'[i] = collected[i]
  BY <1>2, AppendProperties DEF StreamTypes, Takes
<1>6. /\ Len(channel') = Len(channel) - 1
      /\ \A i \in 1 .. Len(channel') : channel'[i] = channel[i + 1]
  BY <1>1, HeadTailProperties DEF Takes
<1>7. QED
  BY <1>2, <1>3, <1>4, <1>5, <1>6

(* Taking an event leaves the end of the channel what it was.              *)
LEMMA TakingKeepsFault ==
  ASSUME StreamTypes, PipeInv, Takes, outcome = "none"
  PROVE  Faulty' <=> Faulty
<1> DEFINE h == Len(channel)
<1>1. h \in Nat \ {0} /\ Len(channel') = h - 1 /\ channel[1] # Error
  BY Lengths, TakenIsNext, EventsAreNoErrors DEF Takes
<1>2. channel' \in Seq(Item)
  BY HeadTailProperties DEF StreamTypes, Takes
<1>3. channel' = <<>> <=> Len(channel') = 0
  BY <1>2
<1>4. CASE h = 1
  BY <1>1, <1>3, <1>4 DEF Faulty
<1>5. CASE h # 1
  <2>1. channel'[h - 1] = channel[(h - 1) + 1] /\ (h - 1) + 1 = h
    BY <1>1, <1>5, TakenIsNext
  <2>2. QED
    BY <1>1, <1>3, <1>5, <2>1 DEF Faulty
<1>6. QED
  BY <1>4, <1>5

(* Every step keeps what was taken and what waits in the channel apart.    *)
LEMMA PipeStep ==
  ASSUME StreamTypes, PipeInv, [Next]_vars
  PROVE  PipeInv'
<1>1. CASE \/ \E kind \in Kind : Forward(kind)
           \/ Disconnect \/ StreamDone \/ Broken
  BY <1>1, TransportStep, PipeTransport
<1>2. CASE Leave \/ Look \/ Receive \/ Pending \/ Close \/ Cancel
  <2>1. /\ UNCHANGED <<sentOut, emitted>>
        /\ forwarding' => forwarding
    BY <1>2, TurnStep
  <2>2. ReplayInv'
    BY <2>1 DEF PipeInv, ReplayInv
  <2>3. outcome' = "none" => outcome = "none"
    BY <1>2 DEF Leave, Look, Receive, Pending, Close, Cancel, turn
  <2>4. CASE Rests
    <3>1. TakenInv'
      BY <2>4 DEF PipeInv, TakenInv, Rests
    <3>2. ChannelInv'
      BY <2>1, <2>3, <2>4 DEF PipeInv, ChannelInv, Faulty, Rests
    <3>3. QED
      BY <2>2, <3>1, <3>2 DEF PipeInv
  <2>5. CASE Takes /\ outcome = "none" /\ UNCHANGED forwarding
    <3> DEFINE n == Len(sentOut)
               c == Len(collected)
               h == Len(channel)
    <3>1. n \in Nat /\ c \in Nat /\ h \in Nat \ {0}
      BY <2>5, Lengths DEF Takes
    <3>2. /\ c + 1 <= n
          /\ Head(channel) = sentOut[c + 1]
          /\ Len(collected') = c + 1
          /\ collected'[c + 1] = Head(channel)
          /\ \A i \in 1 .. c : collected'[i] = collected[i]
          /\ Len(channel') = h - 1
          /\ \A i \in 1 .. Len(channel') : channel'[i] = channel[i + 1]
      BY <2>5, TakenIsNext
    <3>3. sentOut' = sentOut
      BY <2>1
    <3>4. \A i \in 1 .. c : collected[i] = sentOut[i]
      BY DEF PipeInv, TakenInv
    <3>5. /\ \A i \in 1 .. h :
               \/ i = h /\ channel[i] = Error
               \/ c + i <= n /\ channel[i] = sentOut[c + i]
          /\ ~ Faulty => c + h = n
          /\ forwarding => ~ Faulty
      BY <2>5 DEF PipeInv, ChannelInv
    <3>6. Faulty' <=> Faulty
      BY <2>5, TakingKeepsFault
    <3> HIDE DEF n, c, h
    <3>7. TakenInv'
      <4>1. Len(collected') <= Len(sentOut')
        BY <3>2, <3>3 DEF n
      <4>2. \A i \in 1 .. Len(collected') : collected'[i] = sentOut'[i]
        BY <3>1, <3>2, <3>3, <3>4
      <4>3. QED
        BY <4>1, <4>2 DEF TakenInv
    <3>8. \A i \in 1 .. Len(channel') :
            \/ i = Len(channel') /\ channel'[i] = Error
            \/ /\ Len(collected') + i <= Len(sentOut')
               /\ channel'[i] = sentOut'[Len(collected') + i]
      <4> SUFFICES ASSUME NEW i \in 1 .. h - 1
                   PROVE  \/ i = h - 1 /\ channel'[i] = Error
                          \/ (c + 1) + i <= n /\ channel'[i] = sentOut[(c + 1) + i]
        BY <3>2, <3>3 DEF n
      <4>1. i + 1 \in 1 .. h /\ channel'[i] = channel[i + 1]
        BY <3>1, <3>2
      <4>2. (c + 1) + i = c + (i + 1) /\ (i + 1 = h => i = h - 1)
        BY <3>1
      <4>3. \/ i + 1 = h /\ channel[i + 1] = Error
            \/ c + (i + 1) <= n /\ channel[i + 1] = sentOut[c + (i + 1)]
        BY <3>5, <4>1
      <4>4. QED
        BY <4>1, <4>2, <4>3
    <3>9. ~ Faulty' => Len(collected') + Len(channel') = Len(sentOut')
      BY <3>1, <3>2, <3>3, <3>5, <3>6 DEF n
    <3>10. forwarding' => ~ Faulty'
      BY <2>5, <3>5, <3>6
    <3>11. ChannelInv'
      BY <3>8, <3>9, <3>10 DEF ChannelInv
    <3>12. QED
      BY <2>2, <3>7, <3>11 DEF PipeInv
  <2>6. CASE Receive /\ outcome' = "error"
    <3>1. UNCHANGED collected
      BY <2>6 DEF Receive, StreamTypes
    <3>2. TakenInv'
      BY <2>1, <3>1 DEF PipeInv, TakenInv
    <3>3. QED
      BY <2>2, <2>6, <3>2 DEF PipeInv, ChannelInv
  <2>7. QED
    BY <1>2, <2>4, <2>5, <2>6, TurnStep DEF transport
<1>3. CASE UNCHANGED vars
  BY <1>3 DEF vars, transport, turn, PipeInv, TakenInv, ChannelInv, ReplayInv, Faulty
<1>4. QED
  BY <1>1, <1>2, <1>3 DEF Next

---------------------------------------------------------------------------
(* Events sent after the others leave a whole completion whole if they are *)
(* usage reports, and a finish reason makes one whole.                     *)
LEMMA WholeAppended ==
  ASSUME NEW events \in Seq(Event), NEW event \in Event,
         \/ event[3] = "finish"
         \/ Whole(events) /\ event[3] \in Usage
  PROVE  Whole(Append(events, event))
<1> DEFINE n == Len(events)
           more == Append(events, event)
<1>1. /\ n \in Nat /\ Len(more) = n + 1 /\ more[n + 1] = event
      /\ \A i \in 1 .. n : more[i] = events[i]
  BY AppendProperties
<1> HIDE DEF n, more
<1>2. CASE event[3] = "finish"
  <2>1. n + 1 \in 1 .. Len(more) /\ \A j \in (n + 1) + 1 .. Len(more) : FALSE
    BY <1>1
  <2>2. QED
    BY <1>1, <1>2, <2>1 DEF Whole, more
<1>3. CASE Whole(events) /\ event[3] \in Usage
  <2>1. PICK i \in 1 .. n : /\ events[i][3] = "finish"
                           /\ \A j \in i + 1 .. n : events[j][3] \in Usage
    BY <1>3 DEF Whole, n
  <2>2. i \in 1 .. Len(more) /\ more[i][3] = "finish"
    BY <1>1, <2>1
  <2>3. \A j \in i + 1 .. Len(more) : more[j][3] \in Usage
    <3> SUFFICES ASSUME NEW j \in i + 1 .. Len(more)
                 PROVE  more[j][3] \in Usage
      OBVIOUS
    <3>1. CASE j = n + 1
      BY <1>1, <1>3, <3>1
    <3>2. CASE j # n + 1
      <4>1. j \in 1 .. n /\ j \in i + 1 .. n
        BY <1>1, <2>1, <3>2
      <4>2. QED
        BY <1>1, <2>1, <4>1
    <3>3. QED
      BY <3>1, <3>2
  <2>4. QED
    BY <2>2, <2>3 DEF Whole, more
<1>4. QED
  BY <1>2, <1>3

(* Every step keeps the finish in its place.                               *)
LEMMA FinishStep ==
  ASSUME StreamTypes, PipeInv, FinishInv, [Next]_vars
  PROVE  FinishInv'
<1>1. CASE \/ \E kind \in Kind : Forward(kind)
           \/ Disconnect \/ StreamDone \/ Broken
  <2>1. Transport /\ Attends /\ UNCHANGED <<cancelled, turn>>
    BY <1>1, TransportStep
  <2>2. outcome = "none" /\ ~ Faulty /\ forwarding
    BY <2>1 DEF Attends, PipeInv, ChannelInv
  <2>3. CASE Sends
    <3>1. PICK event \in Event :
            /\ sentOut' = Append(sentOut, event)
            /\ \/ /\ channel' = Append(channel, event)
                  /\ forwarding' = forwarding
                  /\ sawFinish' = (sawFinish \/ event[3] = "finish")
                  /\ sawFinish => event[3] \in Usage
               \/ channel' = Append(channel, Error)
      BY <2>3 DEF Sends
    <3>2. CASE channel' = Append(channel, Error)
      BY <3>2, FaultAppended DEF FinishInv
    <3>3. CASE /\ forwarding' = forwarding
               /\ sawFinish' = (sawFinish \/ event[3] = "finish")
               /\ sawFinish => event[3] \in Usage
      <4>1. sawFinish' => Whole(sentOut')
        BY <2>2, <3>1, <3>3, WholeAppended DEF FinishInv, StreamTypes, Whole
      <4>2. QED
        BY <2>2, <3>3, <4>1 DEF FinishInv
    <3>4. QED
      BY <3>1, <3>2, <3>3
  <2>4. CASE Fails
    BY <2>4, FaultAppended DEF Fails, FinishInv
  <2>5. CASE Finishes
    BY <2>2, <2>5 DEF Finishes, FinishInv, Whole
  <2>6. CASE Replays
    BY <2>2, <2>6 DEF Replays, FinishInv
  <2>7. QED
    BY <2>1, <2>3, <2>4, <2>5, <2>6 DEF Transport
<1>2. CASE Leave \/ Look \/ Receive \/ Pending \/ Close \/ Cancel
  <2>1. UNCHANGED <<sentOut, sawFinish>>
    BY <1>2, TurnStep
  <2>2. outcome' = "none" => outcome = "none" /\ (Faulty' <=> Faulty)
    <3>1. CASE Rests
      BY <1>2, <3>1
         DEF Rests, Faulty, Leave, Look, Receive, Pending, Close, Cancel, turn
    <3>2. CASE Takes /\ outcome = "none"
      BY <3>2, TakingKeepsFault
    <3>3. QED
      BY <1>2, <3>1, <3>2, TurnStep
  <2>3. outcome' = "none" /\ ~ forwarding' /\ ~ cancelled' => ~ forwarding /\ ~ cancelled
    BY <1>2, <2>2
       DEF Leave, Look, Receive, Pending, Close, Cancel, transport, turn
  <2>4. QED
    BY <2>1, <2>2, <2>3 DEF FinishInv, Whole
<1>3. CASE UNCHANGED vars
  BY <1>3 DEF vars, transport, turn, FinishInv, Faulty, Whole
<1>4. QED
  BY <1>1, <1>2, <1>3 DEF Next

(* A completion becomes complete only when the turn reads the end of the   *)
(* channel, and then it has all of it.                                     *)
LEMMA CompletesAtClose ==
  ASSUME StreamTypes, Next, outcome' = "complete"
  PROVE  \/ outcome = "complete" /\ UNCHANGED <<collected, sentOut>>
         \/ Close /\ ~ cancelled /\ AllSlotsOpened
<1>1. CASE \/ \E kind \in Kind : Forward(kind)
           \/ Disconnect \/ StreamDone \/ Broken
  BY <1>1, TransportStep DEF Attends, turn
<1>2. CASE Leave \/ Pending \/ Cancel
  BY <1>2 DEF Leave, Pending, Cancel, turn, bill
<1>3. CASE Look
  <2>1. CASE cancelled
    BY <1>3, <2>1, SettleStep DEF Look
  <2>2. CASE ~ cancelled
    BY <1>3, <2>2 DEF Look
  <2>3. QED
    BY <2>1, <2>2
<1>4. CASE Receive
  BY <1>4 DEF Receive
<1>5. CASE Close
  <2>1. CASE ReasonOfClose = "complete" /\ ~ AllSlotsOpened
    BY <1>5, <2>1 DEF Close
  <2>2. CASE ~ (ReasonOfClose = "complete" /\ ~ AllSlotsOpened)
    <3>1. Settle(ReasonOfClose) /\ ReasonOfClose \in {"complete", "cancelled"}
      BY <1>5, <2>2 DEF Close, ReasonOfClose
    <3>2. ReasonOfClose = "complete"
      BY <3>1, SettleStep
    <3>3. QED
      BY <1>5, <2>2, <3>1, <3>2 DEF ReasonOfClose
  <2>3. QED
    BY <2>1, <2>2
<1>6. QED
  BY <1>1, <1>2, <1>3, <1>4, <1>5 DEF Next

(* Every step keeps a complete outcome whole.                              *)
LEMMA CompleteStep ==
  ASSUME StreamTypes, PipeInv, FinishInv, CompleteInv, [Next]_vars
  PROVE  CompleteInv'
<1> SUFFICES ASSUME outcome' = "complete"
             PROVE  collected' = sentOut' /\ Whole(sentOut') /\ AllSlotsOpened'
  BY DEF CompleteInv, Whole
<1>1. CASE UNCHANGED vars
  BY <1>1 DEF vars, transport, turn, CompleteInv, Whole, AllSlotsOpened
<1>2. CASE outcome = "complete" /\ UNCHANGED <<collected, sentOut>>
  BY <1>2 DEF CompleteInv, Whole, AllSlotsOpened
<1>3. CASE Close /\ ~ cancelled /\ AllSlotsOpened
  <2>1. /\ outcome = "none" /\ channel = <<>> /\ ~ forwarding
        /\ UNCHANGED <<collected, sentOut>>
    BY <1>3 DEF Close, transport
  <2>2. ~ Faulty /\ Len(channel) = 0
    BY <2>1 DEF Faulty
  <2>3. Whole(sentOut)
    BY <1>3, <2>1, <2>2 DEF FinishInv
  <2>4. Len(collected) = Len(sentOut)
    BY <2>1, <2>2, Lengths DEF PipeInv, ChannelInv
  <2>5. \A i \in 1 .. Len(collected) : collected[i] = sentOut[i]
    BY DEF PipeInv, TakenInv
  <2>6. collected \in Seq(Event) /\ sentOut \in Seq(Event)
    BY DEF StreamTypes
  <2>7. collected = sentOut
    BY <2>4, <2>5, <2>6, SeqEqual
  <2>8. AllSlotsOpened'
    BY <1>3, <2>1 DEF AllSlotsOpened
  <2>9. QED
    BY <2>1, <2>3, <2>7, <2>8 DEF Whole
<1>4. QED
  BY <1>1, <1>2, <1>3, CompletesAtClose

---------------------------------------------------------------------------
(* The bill.  A step of the turn that charges ends the completion, and no  *)
(* other step touches the totals, the cost, the model or the last report.  *)
LEMMA ChargeStep ==
  ASSUME StreamTypes, Next
  PROVE  /\ UNCHANGED <<model, owed, counted>>
         /\ \/ UNCHANGED <<totals, cost, usage, outcome>>
            \/ outcome = "none" /\ outcome' = "none" /\ UNCHANGED <<totals, cost>>
            \/ outcome = "none" /\ outcome' = "error" /\ UNCHANGED <<totals, cost, usage>>
            \/ /\ outcome = "none" /\ usage' = usage
               /\ \E reason \in {"complete", "cancelled"} : Settle(reason)
<1>1. CASE \/ \E kind \in Kind : Forward(kind)
           \/ Disconnect \/ StreamDone \/ Broken
  BY <1>1, TransportStep DEF turn, bill
<1>2. CASE Leave \/ Pending \/ Cancel
  BY <1>2 DEF Leave, Pending, Cancel, turn, bill
<1>3. CASE Receive
  BY <1>3 DEF Receive, bill
<1>4. CASE Look
  <2>1. CASE cancelled
    BY <1>4, <2>1, SettleStep DEF Look
  <2>2. CASE ~ cancelled
    BY <1>4, <2>2 DEF Look, bill
  <2>3. QED
    BY <2>1, <2>2
<1>5. CASE Close
  <2>1. CASE ReasonOfClose = "complete" /\ ~ AllSlotsOpened
    BY <1>5, <2>1 DEF Close, bill
  <2>2. CASE ~ (ReasonOfClose = "complete" /\ ~ AllSlotsOpened)
    BY <1>5, <2>2, SettleStep DEF Close, ReasonOfClose
  <2>3. QED
    BY <2>1, <2>2
<1>6. QED
  BY <1>1, <1>2, <1>3, <1>4, <1>5 DEF Next

(* A report the turn takes replaces the one it held.                       *)
LEMMA LastReportAppended ==
  ASSUME NEW events \in Seq(Event), NEW event \in Event, NEW kind,
         IsLastReport(kind, events)
  PROVE  IsLastReport(IF event[3] \in Usage THEN event[3] ELSE kind,
                      Append(events, event))
<1> DEFINE n == Len(events)
           more == Append(events, event)
<1>1. /\ n \in Nat /\ Len(more) = n + 1 /\ more[n + 1] = event
      /\ \A i \in 1 .. n : more[i] = events[i]
      /\ DOMAIN more = 1 .. n + 1 /\ DOMAIN events = 1 .. n
  BY AppendProperties
<1> HIDE DEF n, more
<1>2. CASE event[3] \in Usage
  <2>1. event[3] # "none"
    BY <1>2 DEF Usage, Tokens
  <2>2. n + 1 \in DOMAIN more /\ \A j \in (n + 1) + 1 .. Len(more) : FALSE
    BY <1>1
  <2>3. QED
    BY <1>1, <1>2, <2>1, <2>2 DEF IsLastReport, more
<1>3. CASE event[3] \notin Usage /\ kind = "none"
  <2>1. \A i \in 1 .. n : events[i][3] \notin Usage
    BY <1>1, <1>3 DEF IsLastReport
  <2>2. \A i \in 1 .. n + 1 : more[i][3] \notin Usage
    <3> SUFFICES ASSUME NEW i \in 1 .. n + 1 PROVE more[i][3] \notin Usage
      OBVIOUS
    <3>1. i = n + 1 \/ i \in 1 .. n
      BY <1>1
    <3>2. QED
      BY <1>1, <1>3, <2>1, <3>1
  <2>3. QED
    BY <1>1, <1>3, <2>2 DEF IsLastReport, more
<1>4. CASE event[3] \notin Usage /\ kind # "none"
  <2>1. PICK i \in 1 .. n : /\ events[i][3] = kind
                           /\ \A j \in i + 1 .. n : events[j][3] \notin Usage
    BY <1>1, <1>4 DEF IsLastReport, n
  <2>2. i \in DOMAIN more /\ more[i][3] = kind
    BY <1>1, <2>1
  <2>3. \A j \in i + 1 .. Len(more) : more[j][3] \notin Usage
    <3> SUFFICES ASSUME NEW j \in i + 1 .. Len(more)
                 PROVE  more[j][3] \notin Usage
      OBVIOUS
    <3>1. j = n + 1 \/ (j \in 1 .. n /\ j \in i + 1 .. n)
      <4>1. j \in Int /\ i \in Int /\ n \in Int /\ i + 1 <= j /\ j <= n + 1 /\ 1 <= i
        BY <1>1, <2>1
      <4>2. QED
        BY <4>1
    <3>2. QED
      BY <1>1, <1>4, <2>1, <3>1
  <2>4. QED
    BY <1>4, <2>2, <2>3 DEF IsLastReport, more
<1>5. QED
  BY <1>2, <1>3, <1>4

(* Every step keeps the last report among those the turn took.             *)
LEMMA UsageStep ==
  ASSUME StreamTypes, PipeInv, UsageInv, [Next]_vars
  PROVE  UsageInv'
<1>1. CASE UNCHANGED <<collected, usage>>
  BY <1>1 DEF UsageInv, IsLastReport
<1>2. CASE Takes /\ outcome = "none"
  <2>1. Head(channel) \in Event /\ collected \in Seq(Event)
    BY <1>2, TakenIsNext DEF StreamTypes
  <2>2. /\ collected' = Append(collected, Head(channel))
        /\ usage' = IF Head(channel)[3] \in Usage THEN Head(channel)[3] ELSE usage
    BY <1>2 DEF Takes, UsageAfter
  <2>3. IsLastReport(usage, collected)
    BY DEF UsageInv
  <2>4. IsLastReport(usage', collected')
    BY <2>1, <2>2, <2>3, LastReportAppended
  <2>5. QED
    BY <2>4 DEF UsageInv, IsLastReport
<1>3. CASE Receive /\ outcome' = "error"
  BY <1>1, <1>3 DEF Receive
<1>4. CASE \/ \E kind \in Kind : Forward(kind)
           \/ Disconnect \/ StreamDone \/ Broken
  BY <1>1, <1>4, TransportStep DEF turn
<1>5. CASE UNCHANGED vars
  BY <1>1, <1>5 DEF vars, turn
<1>6. QED
  BY <1>1, <1>2, <1>3, <1>4, <1>5, TurnStep DEF Next, Rests

(* Every step keeps the bill, the totals and the session's cost in step.   *)
LEMMA CostStep ==
  ASSUME StreamTypes, CostInv, [Next]_vars
  PROVE  CostInv'
<1> USE DEF CostInv, Untouched, Added
<1>1. CASE UNCHANGED vars
  BY <1>1 DEF vars, turn, bill, Due, Spent, Price
<1>2. CASE Next
  <2>1. UNCHANGED <<model, owed, counted>>
    BY <1>2, ChargeStep
  <2>2. usage' = usage => Spent(usage)' = Spent(usage) /\ Due(usage)' = Due(usage)
    BY <2>1 DEF Due, Spent, Price
  <2>3. CASE UNCHANGED <<totals, cost, usage, outcome>>
    BY <2>1, <2>2, <2>3
  <2>4. CASE outcome = "none" /\ outcome' \in {"none", "error"} /\ UNCHANGED <<totals, cost>>
    BY <2>1, <2>4
  <2>5. CASE /\ outcome = "none" /\ usage' = usage
             /\ \E reason \in {"complete", "cancelled"} : Settle(reason)
    <3>1. PICK reason \in {"complete", "cancelled"} : Settle(reason)
      BY <2>5
    <3>2. totals = counted /\ cost = owed
      BY <2>5
    <3>3. QED
      BY <2>1, <2>2, <2>5, <3>1, <3>2, SettleStep
  <2>6. QED
    BY <1>2, <2>3, <2>4, <2>5, ChargeStep
<1>3. QED
  BY <1>1, <1>2

---------------------------------------------------------------------------
StreamInv ==
  /\ StreamTypes
  /\ PipeInv
  /\ FinishInv
  /\ CompleteInv
  /\ UsageInv
  /\ CostInv

(* The invariant at first.                                                 *)
LEMMA StreamInit == Init => StreamInv
<1> SUFFICES ASSUME Init PROVE StreamInv
  OBVIOUS
<1>1. sentOut = <<>> /\ channel = <<>> /\ collected = <<>>
  BY DEF Init
<1>2. sentOut \in Seq(Event) /\ channel \in Seq(Item) /\ collected \in Seq(Event)
  BY <1>1, EmptySeq
<1>3. attempt \in 1 .. MaxAttempts
  BY DEF Init
<1>4. StreamTypes
  BY <1>2, <1>3 DEF Init, StreamTypes
<1>5. Len(sentOut) = 0 /\ Len(channel) = 0 /\ Len(collected) = 0
  BY <1>1, EmptySeq
<1>6. PipeInv /\ FinishInv /\ CompleteInv
  BY <1>1, <1>5 DEF Init, PipeInv, TakenInv, ChannelInv, ReplayInv, FinishInv,
                    CompleteInv, Faulty
<1>7. UsageInv /\ CostInv
  BY <1>1, <1>5 DEF Init, UsageInv, IsLastReport, CostInv, Untouched
<1>8. QED
  BY <1>4, <1>6, <1>7 DEF StreamInv

(* The invariant of every behaviour.                                       *)
LEMMA StreamStep == Spec => []StreamInv
<1>1. StreamInv /\ [Next]_vars => StreamInv'
  <2> SUFFICES ASSUME StreamInv, [Next]_vars PROVE StreamInv'
    OBVIOUS
  <2> USE DEF StreamInv
  <2>1. StreamTypes' /\ PipeInv' /\ FinishInv'
    BY TypeStep, PipeStep, FinishStep
  <2>2. CompleteInv' /\ UsageInv' /\ CostInv'
    BY CompleteStep, UsageStep, CostStep
  <2>3. QED
    BY <2>1, <2>2
<1>2. QED
  BY <1>1, StreamInit, PTL DEF Spec

(* Whatever the retries, the turn takes the beginning of what one          *)
(* connection sent, in order (run_stream_attempt).                         *)
THEOREM OneConnection == Spec => []OneAttempt
<1>1. StreamInv => OneAttempt
  <2> SUFFICES ASSUME StreamInv PROVE OneAttempt
    OBVIOUS
  <2> DEFINE begun == SubSeq(sentOut, 1, Len(collected))
  <2>1. /\ sentOut \in Seq(Event) /\ collected \in Seq(Event)
        /\ Len(collected) <= Len(sentOut)
        /\ \A i \in 1 .. Len(collected) : collected[i] = sentOut[i]
    BY DEF StreamInv, StreamTypes, PipeInv, TakenInv
  <2>2. Len(collected) \in Nat /\ Len(sentOut) \in Nat
    BY <2>1
  <2>3. /\ begun \in Seq(Event)
        /\ Len(begun) = Len(collected)
        /\ \A i \in 1 .. Len(collected) : begun[i] = sentOut[i]
    BY <2>1, <2>2, SubSeqProperties
  <2>4. SubSeq(collected, 1, Len(collected)) = collected
    BY <2>1, <2>2
  <2>5. begun = collected
    BY <2>1, <2>3, SeqEqual
  <2>6. QED
    BY <2>1, <2>4, <2>5 DEF OneAttempt, IsPrefix
<1>2. QED
  BY <1>1, StreamStep, PTL

(* A completion that counts as complete has its finish reason, all the     *)
(* connection sent, nothing generated after the finish and the beginning   *)
(* of every call (stream_model_turn, PendingToolCalls::finish).            *)
THEOREM CompleteAnswers == Spec => []CompleteIsWhole
<1>1. StreamInv => CompleteIsWhole
  <2> SUFFICES ASSUME StreamInv, outcome = "complete"
               PROVE  /\ collected = sentOut
                      /\ Opened(Kinds(sentOut))
                      /\ \E i \in DOMAIN sentOut :
                           /\ sentOut[i][3] = "finish"
                           /\ \A j \in i + 1 .. Len(sentOut) : sentOut[j][3] \in Usage
    BY DEF CompleteIsWhole
  <2>1. collected = sentOut /\ Whole(sentOut) /\ Opened(Kinds(collected))
    BY DEF StreamInv, CompleteInv, AllSlotsOpened
  <2>2. DOMAIN sentOut = 1 .. Len(sentOut)
    BY DEF StreamInv, StreamTypes
  <2>3. QED
    BY <2>1, <2>2 DEF Whole
<1>2. QED
  BY <1>1, StreamStep, PTL

(* A completion adds its last report once, to the tokens of the prompt and *)
(* to the cost of the session, or fails, and neither sum passes what its   *)
(* integer holds (stream_model_turn).                                      *)
THEOREM ChargedOnce == Spec => []BillIsExact
<1>1. StreamInv => BillIsExact
  <2> SUFFICES ASSUME StreamInv PROVE BillIsExact
    OBVIOUS
  <2> USE DEF StreamInv
  <2>1. totals <= MaxCount /\ cost <= MaxCount
    BY DEF StreamTypes
  <2>2. usage \in Usage \cup {"none"} /\ IsLastReport(usage, collected)
    BY DEF StreamTypes, UsageInv
  <2>3. QED
    BY <2>1, <2>2 DEF BillIsExact, CostInv, Untouched, Added
<1>2. QED
  BY <1>1, StreamStep, PTL
=============================================================================
