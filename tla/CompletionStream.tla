-------------------------- MODULE CompletionStream --------------------------
(***************************************************************************)
(* One provider completion: a transport task (llm/stream.rs) forwards the  *)
(* server's events through a channel, reconnecting only before the first;  *)
(* the turn (stream_model_turn) assembles them until the channel closes,   *)
(* counts their tokens and charges the session.                            *)
(*                                                                         *)
(* An event is <<attempt, n, kind>>, the n-th of a connection.  A call is  *)
(* assembled in a numbered slot: "first" and "second" bring the id and the *)
(* name of slots 0 and 1, "more" only arguments of slot 0.  "small" and    *)
(* "large" are usage reports; tokens and micro-dollars are counted in      *)
(* units of a small one.                                                   *)
(***************************************************************************)
EXTENDS Naturals, Sequences, SequencesExt

CONSTANTS
  MaxAttempts,  \* connections of one request: 1 + max_retries
  MaxEvents,    \* bound: events of one connection
  MaxCount      \* u64::MAX, for tokens and micro-dollars

ASSUME StreamAssumption ==
  /\ MaxAttempts \in Nat \ {0}
  /\ MaxEvents \in Nat
  /\ MaxCount \in Nat

Tokens == [small |-> 1, large |-> 2]
Usage == DOMAIN Tokens
Slot == [first |-> 0, more |-> 0, second |-> 1]
Opening == {"first", "second"}
Kind == {"text", "finish"} \cup DOMAIN Slot \cup Usage
Event == (1 .. MaxAttempts) \X (1 .. MaxEvents) \X Kind
Error == <<0, 0, "error">>

(* A model has a known price and context window, a window and no price, or *)
(* neither, unless the provider's list of models, fetched when the process *)
(* starts, names its window.  A fetch that fails, or takes more than two   *)
(* seconds, leaves the list to the default model alone.                    *)
Model == {"priced", "unpriced", "served"}
Known == {"priced", "unpriced"}
Discovered(answered) == IF answered THEN {"served"} ELSE {}

VARIABLES
  attempt,    \* connections made
  sentOut,    \* what the server sent on this connection
  forwarding, \* the transport task runs
  sawFinish,  \* it has seen a finish reason
  emitted,    \* it has forwarded an event
  channel,    \* forwarded and not yet received
  cancelled,  \* the turn's cancellation token
  polling,    \* the turn has looked at the token and polls the channel
  collected,  \* events the turn has taken
  usage,      \* the usage report it holds, "none" before the first
  outcome,    \* what the turn made of the completion
  model,      \* the session's model
  windows,    \* ModelCatalog.context_windows
  totals,     \* UsageTotals of the prompt
  cost,       \* SessionRecord.cost_micros
  owed,       \* history variable: the cost before this completion
  counted     \* history variable: the totals before this completion

transport == <<attempt, sentOut, forwarding, sawFinish, emitted>>
bill == <<model, windows, totals, cost, owed, counted>>
turn == <<polling, collected, usage, outcome, bill>>
vars == <<transport, channel, cancelled, turn>>

(* Earlier requests of the prompt, and earlier prompts, left their counts. *)
Init ==
  /\ attempt = 1
  /\ sentOut = <<>>
  /\ forwarding = TRUE
  /\ sawFinish = FALSE
  /\ emitted = FALSE
  /\ channel = <<>>
  /\ cancelled = FALSE
  /\ polling = FALSE
  /\ collected = <<>>
  /\ usage = "none"
  /\ outcome = "none"
  /\ model \in Model
  /\ windows \in {Discovered(answered) : answered \in BOOLEAN}
  /\ totals \in 0 .. MaxCount
  /\ cost \in 0 .. MaxCount
  /\ owed = cost
  /\ counted = totals

---------------------------------------------------------------------------
(* The transport task, while neither cancelled nor abandoned.              *)
Attends == forwarding /\ ~ cancelled /\ outcome = "none"

EndWith(items) ==
  /\ forwarding' = FALSE
  /\ channel' = channel \o items

(* After a finish reason only usage may come.                              *)
Forward(kind) ==
  LET event == <<attempt, Len(sentOut) + 1, kind>> IN
  /\ Attends
  /\ Len(sentOut) < MaxEvents
  /\ sentOut' = Append(sentOut, event)
  /\ IF sawFinish /\ kind \notin Usage
     THEN EndWith(<<Error>>) /\ UNCHANGED <<sawFinish, emitted>>
     ELSE /\ channel' = Append(channel, event)
          /\ sawFinish' = (sawFinish \/ kind = "finish")
          /\ emitted' = TRUE
          /\ UNCHANGED forwarding
  /\ UNCHANGED <<attempt, cancelled, turn>>

(* The connection drops: a finished completion is complete, one with       *)
(* output fails, and any other is asked for again while retries last.      *)
AlwaysReplays == TRUE
MayReplay == ~ emitted
RetriesLeft == attempt < MaxAttempts
Disconnect ==
  /\ Attends
  /\ \/ /\ sawFinish
        /\ EndWith(<<>>)
        /\ UNCHANGED <<attempt, sentOut, sawFinish>>
     \/ /\ ~ sawFinish
        /\ ~ (MayReplay /\ RetriesLeft)
        /\ EndWith(<<Error>>)
        /\ UNCHANGED <<attempt, sentOut, sawFinish>>
     \/ /\ ~ sawFinish
        /\ MayReplay
        /\ RetriesLeft
        /\ attempt' = attempt + 1
        /\ sentOut' = <<>>
        /\ UNCHANGED <<forwarding, sawFinish, channel>>
  /\ UNCHANGED <<emitted, cancelled, turn>>

(* The server ends the stream, which needs a finish reason.                *)
StreamDone ==
  /\ Attends
  /\ EndWith(IF sawFinish THEN <<>> ELSE <<Error>>)
  /\ UNCHANGED <<attempt, sentOut, sawFinish, emitted, cancelled, turn>>

(* An unreadable or oversized event, or a transport error.                 *)
Broken ==
  /\ Attends
  /\ EndWith(<<Error>>)
  /\ UNCHANGED <<attempt, sentOut, sawFinish, emitted, cancelled, turn>>

(* The token, or the dropped stream, ends the task without a word.         *)
Leave ==
  /\ forwarding
  /\ cancelled \/ outcome # "none"
  /\ forwarding' = FALSE
  /\ UNCHANGED <<attempt, sentOut, sawFinish, emitted, channel, cancelled, turn>>

---------------------------------------------------------------------------
(* The kinds of events.  A fragment makes its slot and all below it, and   *)
(* each of them must have got an id and a name, in whatever order.         *)
Kinds(events) == {events[i][3] : i \in DOMAIN events}
Opened(kinds) ==
  \A kind \in kinds \cap DOMAIN Slot : \A slot \in 0 .. Slot[kind] :
    \E opening \in kinds \cap Opening : Slot[opening] = slot
SlotsUnchecked == TRUE
AllSlotsOpened == Opened(Kinds(collected))

(* The last usage report stands for the completion.  Its tokens join those *)
(* of the prompt; without a context window nothing more happens; the price *)
(* joins the session's cost, each sum checked, unless the session has been *)
(* closed meanwhile; and the client is told, which may fail.               *)
FirstUsage(kind) == IF usage = "none" /\ kind \in Usage THEN kind ELSE usage
UsageAfter(kind) == IF kind \in Usage THEN kind ELSE usage
Used == Tokens[usage]
Listed == model \in Known \cup windows
Price(tokens) == IF model = "priced" THEN tokens ELSE 0
Count == totals + Used
Charged == cost + Price(Used)
Settle(reason) ==
  /\ UNCHANGED <<model, windows, owed, counted>>
  /\ \/ /\ usage = "none"
        /\ outcome' = reason
        /\ UNCHANGED <<totals, cost>>
     \/ /\ usage # "none"
        /\ Count > MaxCount
        /\ outcome' = "error"
        /\ UNCHANGED <<totals, cost>>
     \/ /\ usage # "none"
        /\ Count <= MaxCount
        /\ totals' = Count
        /\ \/ ~ Listed /\ outcome' = reason /\ UNCHANGED cost
           \/ /\ model = "priced"   \* the sum is too large, or no session is left
              /\ outcome' = "error"
              /\ UNCHANGED cost
           \/ /\ Listed
              /\ Charged <= MaxCount
              /\ cost' = Charged
              /\ outcome' \in {reason, "error"}

(* The select of stream_model_turn polls the token first, then the         *)
(* channel.                                                                *)
Look ==
  /\ outcome = "none"
  /\ ~ polling
  /\ IF cancelled
     THEN Settle("cancelled") /\ UNCHANGED polling
     ELSE polling' = TRUE /\ UNCHANGED <<outcome, bill>>
  /\ UNCHANGED <<transport, channel, cancelled, collected, usage>>

(* The client may be gone, the slot out of range, the usage inconsistent.  *)
Receive ==
  /\ outcome = "none"
  /\ polling
  /\ channel # <<>>
  /\ channel' = Tail(channel)
  /\ \/ outcome' = "error" /\ UNCHANGED <<polling, collected, usage>>
     \/ /\ Head(channel) # Error
        /\ collected' = Append(collected, Head(channel))
        /\ usage' = UsageAfter(Head(channel)[3])
        /\ polling' = FALSE
        /\ UNCHANGED outcome
  /\ UNCHANGED <<transport, cancelled, bill>>

(* Nothing yet: both are polled again when one of them wakes the task.     *)
Pending ==
  /\ outcome = "none"
  /\ polling
  /\ channel = <<>>
  /\ forwarding
  /\ polling' = FALSE
  /\ UNCHANGED <<transport, channel, cancelled, collected, usage, outcome, bill>>

(* The channel closed: it is the end of the completion, or the transport   *)
(* saw the token first.  A call without an id or a name fails the          *)
(* completion before it is charged; a cancelled one has no calls.          *)
ReasonUnlooked == "complete"
ReasonOfClose == IF cancelled THEN "cancelled" ELSE "complete"
Close ==
  /\ outcome = "none"
  /\ polling
  /\ channel = <<>>
  /\ ~ forwarding
  /\ IF ReasonOfClose = "complete" /\ ~ AllSlotsOpened
     THEN outcome' = "error" /\ UNCHANGED bill
     ELSE Settle(ReasonOfClose)
  /\ UNCHANGED <<transport, channel, cancelled, polling, collected, usage>>

Cancel ==
  /\ ~ cancelled
  /\ outcome = "none"
  /\ cancelled' = TRUE
  /\ UNCHANGED <<transport, channel, turn>>

Next ==
  \/ \E kind \in Kind : Forward(kind)
  \/ Disconnect
  \/ StreamDone
  \/ Broken
  \/ Leave
  \/ Look
  \/ Receive
  \/ Pending
  \/ Close
  \/ Cancel

Spec == Init /\ [][Next]_vars

---------------------------------------------------------------------------
(* What the turn has taken is a beginning of what one connection sent, in  *)
(* order: a retry never repeats or mixes output (run_stream_attempt).      *)
OneAttempt == IsPrefix(collected, sentOut)

(* A completion counts as complete only with its finish reason, with all   *)
(* the server sent, with nothing generated after the finish and with the   *)
(* beginning of every call: neither a cancellation nor a lost connection   *)
(* is taken for a short answer, and no call runs with what is left of it   *)
(* (run_stream_attempt, stream_model_turn, PendingToolCalls::finish).      *)
CompleteIsWhole ==
  outcome = "complete" =>
    /\ collected = sentOut
    /\ Opened(Kinds(sentOut))
    /\ \E i \in DOMAIN sentOut :
         /\ sentOut[i][3] = "finish"
         /\ \A j \in i + 1 .. Len(sentOut) : sentOut[j][3] \in Usage

(* The last usage report among the events, its tokens and its price.       *)
IsLastReport(kind, events) ==
  IF kind = "none"
  THEN \A i \in DOMAIN events : events[i][3] \notin Usage
  ELSE \E i \in DOMAIN events :
         /\ events[i][3] = kind
         /\ \A j \in i + 1 .. Len(events) : events[j][3] \notin Usage
Spent(kind) == IF kind = "none" THEN 0 ELSE Tokens[kind]
Due(kind) == Price(Spent(kind))

(* The prompt's tokens and the session's cost stand still until the        *)
(* completion ends.  A complete or cancelled one then adds the last report *)
(* the turn read, once, to both, however many reports the server repeats   *)
(* and however many connections it takes; one that fails adds nothing, or  *)
(* that report's tokens, or both.  No sum wraps (add_cost_micros,          *)
(* UsageTotals::add).                                                      *)
BillIsExact ==
  /\ totals <= MaxCount /\ cost <= MaxCount
  /\ outcome = "none" => totals = counted /\ cost = owed
  /\ \/ outcome \in {"none", "error"} /\ totals = counted /\ cost = owed
     \/ \E kind \in Usage \cup {"none"} :
          /\ IsLastReport(kind, collected)
          /\ totals = counted + Spent(kind)
          /\ \/ cost = owed + Due(kind)
             \/ outcome = "error" /\ cost = owed
===========================================================================
