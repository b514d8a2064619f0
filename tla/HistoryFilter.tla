--------------------------- MODULE HistoryFilter ---------------------------
(***************************************************************************)
(* What of a conversation a provider request carries (turn.rs): the        *)
(* mode's instruction goes first, the list is cut to a byte budget, and    *)
(* the cut list is repaired into a shape the provider accepts.             *)
(*                                                                         *)
(* The histories are those that turns leave: a failed turn leaves its      *)
(* prompt alone, and a completion that stops with calls leaves them        *)
(* unanswered.  A message is what the algorithm looks at; parts names the  *)
(* history positions its content comes from, 0 for the instruction.  The   *)
(* cut keeps the order of the list, so what it keeps is a set of positions.*)
(* A text is blank when nothing but white space is left of it: it has a    *)
(* size all the same.                                                      *)
(***************************************************************************)
EXTENDS Integers, Sequences

CONSTANTS
  Budget,       \* MAX_MESSAGE_BYTES
  Base,         \* estimated size of an empty message
  Separator,    \* what joining two messages adds
  Instruction,  \* lengths of the instructions of the modes
  Length,       \* lengths of other messages' content
  MaxCalls,     \* bound: calls in one completion
  MaxMessages   \* bound: messages in the history

ASSUME FilterAssumption ==
  /\ Budget \in Nat
  /\ Base \in Nat \ {0}
  /\ Separator \in 0 .. Base
  /\ Instruction \subseteq Nat
  /\ Length \subseteq Nat
  /\ MaxCalls \in Nat
  /\ MaxMessages \in Nat

VARIABLES
  history,  \* SessionRecord.history
  pc,       \* "idle", or what the turn does next
  request,  \* the request before cutting
  sent      \* the messages of the latest provider request

vars == <<history, pc, request, sent>>

CallId == (1 .. MaxMessages) \X (1 .. MaxCalls)
NoCall == <<0, 0>>

Text(role, length, reasoning, i) ==
  [role |-> role, calls |-> {}, call |-> NoCall, length |-> length,
   blank |-> length = 0, reasoning |-> reasoning, parts |-> <<i>>]
Calling(ids, length, i) ==
  [Text("assistant", length, FALSE, i) EXCEPT !.calls = ids]
ToolResult(id, length, i) == [Text("tool", length, FALSE, i) EXCEPT !.call = id]

Size(m) == Base + m.length

(* The size of the messages of s at the positions I.                       *)
SizeOf(s, I) ==
  LET total[n \in 0 .. Len(s)] ==
        IF n = 0 THEN 0
        ELSE total[n - 1] + (IF n \in I THEN Size(s[n]) ELSE 0)
  IN total[Len(s)]
TotalSize(s) == SizeOf(s, DOMAIN s)

---------------------------------------------------------------------------
(* An assistant message with calls and the results right after it are one  *)
(* unit, every other message after the first is its own.                   *)
EveryMessageAlone(s, j, i) == j = i
InUnit(s, j, i) ==
  \/ j = i
  \/ /\ s[j].calls # {}
     /\ j < i
     /\ \A k \in j + 1 .. i : s[k].role = "tool"

UnitHeads(s) ==
  {j \in 2 .. Len(s) : ~ \E k \in 2 .. j - 1 : InUnit(s, k, j)}
Unit(s, j) == {i \in 2 .. Len(s) : InUnit(s, j, i)}

(* The positions of the latest prompt, at most one.                        *)
FirstPrompt(s) ==
  {j \in 2 .. Len(s) : s[j].role = "user"
                       /\ \A k \in 2 .. j - 1 : s[k].role # "user"}
LatestPrompt(s) ==
  {j \in 2 .. Len(s) : s[j].role = "user"
                       /\ \A k \in j + 1 .. Len(s) : s[k].role # "user"}

(* The first message and the latest prompt must fit.                       *)
Fits(s) == SizeOf(s, {1} \cup LatestPrompt(s)) <= Budget

(* From the newest unit to the oldest, what still fits is kept.            *)
KeepOrStop(s, j, acc) ==
  IF SizeOf(s, Unit(s, j)) <= acc.left
  THEN [left |-> acc.left - SizeOf(s, Unit(s, j)), kept |-> acc.kept \cup Unit(s, j)]
  ELSE [acc EXCEPT !.left = 0]
KeepIfFits(s, j, acc) ==
  IF SizeOf(s, Unit(s, j)) <= acc.left
  THEN [left |-> acc.left - SizeOf(s, Unit(s, j)), kept |-> acc.kept \cup Unit(s, j)]
  ELSE acc

KeptPositions(s) ==
  LET mandatory == {1} \cup LatestPrompt(s)
      walk[j \in 1 .. Len(s) + 1] ==
        IF j = Len(s) + 1
        THEN [left |-> Budget - SizeOf(s, mandatory), kept |-> mandatory]
        ELSE IF j \in UnitHeads(s) \ mandatory
             THEN KeepIfFits(s, j, walk[j + 1])
             ELSE walk[j + 1]
  IN walk[1].kept

(* A result without its call is dropped.                                   *)
ValidateToolResults(s, K) ==
  {i \in K : s[i].role = "tool" => \E j \in K : s[i].call \in s[j].calls}

KeepAll(s) == DOMAIN s
FilterBySize(s) ==
  IF TotalSize(s) <= Budget THEN DOMAIN s
  ELSE ValidateToolResults(s, KeptPositions(s))

---------------------------------------------------------------------------
(* Empty answers go, and text joins the text of the same role before it.   *)
Blank(m) ==
  m.role = "assistant" /\ m.calls = {} /\ m.blank /\ ~ m.reasoning
Mergeable(m) ==
  m.role \in {"user", "assistant"} /\ m.calls = {} /\ ~ m.reasoning

Last(s) == s[Len(s)]
Front(s) == SubSeq(s, 1, Len(s) - 1)

AppendOnly(done, m) == Append(done, m)
AppendOrMerge(done, m) ==
  IF Blank(m) THEN done
  ELSE IF done # <<>> /\ Mergeable(m) /\ Mergeable(Last(done))
          /\ Last(done).role = m.role
  THEN Append(Front(done),
         [m EXCEPT !.length = Last(done).length + Separator + m.length,
                   !.blank = Last(done).blank /\ m.blank,
                   !.parts = Last(done).parts \o m.parts])
  ELSE Append(done, m)
SanitizeConversation(s, K) ==
  LET sanitized[n \in 0 .. Len(s)] ==
        IF n = 0 THEN <<>>
        ELSE IF n \in K THEN AppendOrMerge(sanitized[n - 1], s[n])
        ELSE sanitized[n - 1]
  IN sanitized[Len(s)]

---------------------------------------------------------------------------
Init ==
  /\ history = <<>>
  /\ pc = "idle"
  /\ request = <<>>
  /\ sent = <<>>

Next1 == Len(history) + 1

(* A prompt that cannot be sent on its own is refused before it is saved.  *)
Prompt(instruction, length) ==
  LET alone == <<Text("system", instruction, FALSE, 0),
                 Text("user", length, FALSE, Next1)>> IN
  /\ pc = "idle"
  /\ Len(history) < MaxMessages
  /\ Fits(alone)
  /\ history' = Append(history, alone[2])
  /\ pc' = "request"
  /\ UNCHANGED <<request, sent>>

(* The mode may have changed since; the turn fails if the prompt no longer *)
(* fits beside the new instruction.                                        *)
Request(instruction) ==
  /\ pc = "request"
  /\ request' = <<Text("system", instruction, FALSE, 0)>> \o history
  /\ IF Fits(request')
     THEN /\ pc' = "stream"
          /\ sent' = SanitizeConversation(request', FilterBySize(request'))
     ELSE pc' = "idle" /\ UNCHANGED sent
  /\ UNCHANGED history

Answer(length, blank, reasoning) ==
  LET answer == Text("assistant", length, reasoning, Next1) IN
  /\ pc = "stream"
  /\ Len(history) < MaxMessages
  /\ reasoning => length > 0
  /\ length = 0 => blank
  /\ history' = Append(history, [answer EXCEPT !.blank = blank])
  /\ pc' = "idle"
  /\ UNCHANGED <<request, sent>>

(* A batch of calls with their results; or calls nobody ran, which end the *)
(* turn.                                                                   *)
Calls(lengths, length, run) ==
  LET id(k) == <<Next1, k>> IN
  /\ pc = "stream"
  /\ Len(history) + 1 + Len(lengths) <= MaxMessages
  /\ history' =
       Append(history, Calling({id(k) : k \in DOMAIN lengths}, length, Next1))
         \o IF run
            THEN [k \in DOMAIN lengths |-> ToolResult(id(k), lengths[k], Next1 + k)]
            ELSE <<>>
  /\ pc' = IF run THEN "request" ELSE "idle"
  /\ UNCHANGED <<request, sent>>

(* The turn fails, is cancelled or runs out of requests.                   *)
Stop ==
  /\ pc \in {"request", "stream"}
  /\ pc' = "idle"
  /\ UNCHANGED <<history, request, sent>>

Next ==
  \/ \E i \in Instruction, n \in Length : Prompt(i, n)
  \/ \E i \in Instruction : Request(i)
  \/ \E n \in Length, blank, reasoning \in BOOLEAN : Answer(n, blank, reasoning)
  \/ \E c \in 1 .. MaxCalls : \E lengths \in [1 .. c -> Length], n \in Length,
        run \in BOOLEAN : Calls(lengths, n, run)
  \/ Stop

Spec == Init /\ [][Next]_vars

---------------------------------------------------------------------------
Streaming == pc = "stream"
Parts(m) == {m.parts[k] : k \in DOMAIN m.parts}
SentParts == UNION {Parts(sent[i]) : i \in DOMAIN sent}

(* A request never exceeds the byte budget, joined messages included       *)
(* (filter_messages_by_size then sanitize_conversation).                   *)
FitsBudget == Streaming => TotalSize(sent) <= Budget

(* Every request carries the instruction and the prompt it answers.        *)
PromptIsSent ==
  Streaming =>
    /\ 0 \in SentParts
    /\ \A i \in DOMAIN history :
         history[i].role = "user"
         /\ (\A j \in i + 1 .. Len(history) : history[j].role # "user")
           => i \in SentParts

(* Calls and their results are sent together, whole, adjacent and in order *)
(* or not at all: neither the cut nor the repair splits them.              *)
UnitsStayWhole ==
  Streaming => \A i \in DOMAIN sent :
    /\ sent[i].calls # {} =>
         LET p == sent[i].parts[1]
             results == {j \in DOMAIN history : history[j].call \in sent[i].calls}
         IN /\ Len(sent[i].parts) = 1
            /\ \A j \in results :
                 /\ i + (j - p) \in DOMAIN sent
                 /\ sent[i + (j - p)].parts = <<j>>
    /\ sent[i].role = "tool" =>
         \E k \in 1 .. i - 1 : sent[i].call \in sent[k].calls

(* Two texts of one role, reasoning aside, are never neighbours, and no    *)
(* answer is empty; what is sent keeps the order of the history            *)
(* (sanitize_conversation).                                                *)
TextsAlternate ==
  Streaming =>
    /\ \A i \in DOMAIN sent : ~ Blank(sent[i])
    /\ \A i \in 1 .. Len(sent) - 1 :
         Mergeable(sent[i]) /\ Mergeable(sent[i + 1])
           => sent[i].role # sent[i + 1].role
    /\ \A i, j \in DOMAIN sent : i < j =>
         \A p \in Parts(sent[i]), q \in Parts(sent[j]) : p < q

(* A unit is left out only if it did not fit beside the mandatory messages *)
(* and the newer units that were sent: an oversized unit blocks no older,  *)
(* smaller one (filter_messages_truncate).                                 *)
NothingFitsUnsent ==
  Streaming => \A j \in UnitHeads(request) :
    LET there(i) == request[i].parts[1] \in SentParts \/ Blank(request[i])
        newer == {i \in j + 1 .. Len(request) : there(i) /\ i \notin Unit(request, j)}
        beside == newer \cup {1} \cup LatestPrompt(request)
    IN ~ there(j) => SizeOf(request, beside \cup Unit(request, j)) > Budget
===========================================================================
