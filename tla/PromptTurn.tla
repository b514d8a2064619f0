---------------------------- MODULE PromptTurn ----------------------------
(***************************************************************************)
(* One prompt turn of an ordinary session (turn.rs): provider requests     *)
(* alternate with batches of tool calls until the model answers, while the *)
(* user cancels, changes the session's mode and answers permission         *)
(* prompts.  The tools are the checks that tools/execution/mod.rs and      *)
(* acp/requesters.rs put in front of one abstract effect.                  *)
(*                                                                         *)
(* The turn, the mode handler and the cancel handler run on different      *)
(* threads, so every look at the token and every look at the mode is a     *)
(* step of its own.  A call is <<r, i>>, the i-th of request r.  What a    *)
(* save writes, and what becomes of a closed session, is SessionStore;     *)
(* here a save either keeps every message or fails the turn.               *)
(***************************************************************************)
EXTENDS Naturals, Sequences, FiniteSets

CONSTANTS
  Tool,         \* tools the model calls, out of DOMAIN Kind
  MaxRequests,  \* max_turn_requests
  MaxBatch,     \* bound: calls in one completion
  MaxCalls,     \* bound: calls in the whole turn
  MaxModes      \* bound: session/set_mode requests

Mode == {"ask", "accept_edits", "plan", "yolo"}
Kind == [read_file |-> "read", list_dir |-> "read", glob |-> "search",
         write_file |-> "edit", run_command |-> "execute", mcp_tool |-> "execute",
         update_plan |-> "think", exit_plan_mode |-> "think"]
Harmless == {"read", "search", "think"}
Option == {"allow_once", "allow_always", "reject_once", "reject_always"}
Reply == Option \cup {"dismissed"}

ASSUME TurnAssumption ==
  /\ Tool \subseteq DOMAIN Kind
  /\ MaxRequests \in Nat \ {0}
  /\ MaxBatch \in Nat \ {0}
  /\ MaxCalls \in Nat
  /\ MaxModes \in Nat

VARIABLES
  mode,        \* SessionRecord.mode
  allowed,     \* SessionRecord.permission_allow_always
  rejected,    \* SessionRecord.permission_reject_always
  cancelled,   \* the turn's cancellation token
  pc,          \* where the turn is
  looked,      \* the token was looked at in this stage of the call
  reply,       \* the user's answer to the pending prompt
  request,     \* provider requests made
  messages,    \* the conversation this turn adds to
  saved,       \* messages persist_history has kept
  queue,       \* calls of the batch without a result yet
  transition,  \* pending_mode_transition
  stop,        \* PromptResult.stop_reason, "error" for a failed turn,
               \* "dropped" for one the process did not finish
  told,        \* the status of each call the client was last told
  shown,       \* the state of the session a protocol v2 client was last told
  accepted,    \* whether a protocol v2 client's session/prompt was answered
  group,       \* CommandGroup: a command runs in this process's care
  effects,     \* history variable: calls that changed a file or ran a command
  refusal,     \* history variable: the mode has refused the call ever since it
               \* started or, if later, the user's answer was taken
  late,        \* history variable: the turn was already cancelled when the call
               \* started or, if later, when the user's answer was taken
  modes        \* counter against MaxModes

session  == <<mode, allowed, rejected, cancelled>>
batch    == <<queue, looked, reply, refusal, late, transition, effects, told,
              group>>
progress == <<request, messages, saved, stop, shown, accepted>>
course   == <<request, saved, stop, accepted, modes>>
vars == <<session, batch, progress, pc, modes>>

(* The stages of a call that look at the token, then at the mode.          *)
Stage == {"dispatch", "access", "permission", "reply", "write"}

Id == (1 .. MaxRequests) \X (1 .. MaxBatch)
Message ==
  [role : {"user", "assistant", "tool"}, calls : Seq(Id), asked : BOOLEAN,
   success : BOOLEAN]
Call == [id : Id, tool : Tool]

call == Head(queue)

(* What a mode lets a tool do at all, and without asking.                  *)
Allows(m, tool) == m = "plan" => Kind[tool] \in Harmless
AllowsWithoutPrompt(m, tool) ==
  \/ m = "accept_edits" /\ Kind[tool] = "edit"
  \/ m = "yolo" /\ Kind[tool] \notin Harmless

---------------------------------------------------------------------------
(* A prompt has arrived for an idle session.                               *)
Init ==
  /\ mode \in Mode
  /\ allowed = {}
  /\ rejected = {}
  /\ cancelled = FALSE
  /\ pc = "arrived"
  /\ looked = FALSE
  /\ reply = "dismissed"
  /\ request = 0
  /\ messages = <<[role |-> "user", calls |-> <<>>, asked |-> FALSE, success |-> TRUE]>>
  /\ saved = 0
  /\ queue = <<>>
  /\ transition = "none"
  /\ stop = "none"
  /\ effects = {}
  /\ refusal = FALSE
  /\ late = FALSE
  /\ told = [id \in Id |-> "unknown"]
  /\ shown = "idle"
  /\ accepted = FALSE
  /\ group = FALSE
  /\ modes = 0

End(reason) ==
  /\ pc' = "done"
  /\ stop' = reason
  /\ shown' = "idle"

(* It is refused for its content or its size; otherwise begin_turn makes   *)
(* its token the session's, and cancellations reach it.                    *)
RefusePrompt ==
  /\ pc = "arrived"
  /\ End("error")
  /\ UNCHANGED <<session, batch, request, messages, saved, accepted, modes>>

BeginTurn ==
  /\ pc = "arrived"
  /\ pc' = "admit"
  /\ UNCHANGED <<session, batch, progress, modes>>

(* Its message is saved, and only then is a protocol v2 client's request   *)
(* answered; the rest of the turn reaches it as updates.                   *)
SavePrompt ==
  /\ pc = "admit"
  /\ saved' = Len(messages)
  /\ pc' = "admitted"
  /\ UNCHANGED <<session, batch, request, messages, stop, shown, accepted, modes>>

Admit ==
  /\ pc = "admitted"
  /\ accepted' = TRUE
  /\ shown' = "running"
  /\ pc' = "head"
  /\ UNCHANGED <<session, batch, request, messages, saved, stop, modes>>

(* The head of the loop: stop, or send the next provider request.          *)
MayRequestOnceMore == request <= MaxRequests
MayRequest == request < MaxRequests

RequestOrStop ==
  /\ pc = "head"
  /\ \/ ~ MayRequest /\ End("max_turn_requests") /\ UNCHANGED request
     \/ MayRequest /\ cancelled /\ End("cancelled") /\ UNCHANGED request
     \/ /\ MayRequest
        /\ ~ cancelled
        /\ request' = request + 1
        /\ pc' = "stream"
        /\ UNCHANGED <<stop, shown>>
  /\ UNCHANGED <<session, batch, messages, saved, accepted, modes>>

(* A cancelled stream drops what it collected.                             *)
StreamCancelled ==
  /\ pc = "stream"
  /\ cancelled
  /\ End("cancelled")
  /\ UNCHANGED <<session, batch, request, messages, saved, accepted, modes>>

(* The completion ends with some calls and a finish reason.  Only the      *)
(* reason ToolCalls with at least one call starts a batch; the calls of    *)
(* any other completion join the conversation and are not run.             *)
Requested == Cardinality({at \in (DOMAIN messages) \X (1 .. MaxBatch) :
  messages[at[1]].role = "assistant" /\ at[2] \in DOMAIN messages[at[1]].calls})
StreamEnds(tools, asked) ==
  LET id(i) == <<request, i>> IN
  /\ pc = "stream"
  /\ ~ cancelled
  /\ Requested + Len(tools) <= MaxCalls
  /\ messages' = Append(messages,
       [role |-> "assistant", asked |-> asked, success |-> TRUE,
        calls |-> [i \in DOMAIN tools |-> id(i)]])
  /\ IF asked /\ tools # <<>>
     THEN /\ pc' = "batch"
          /\ queue' = [i \in DOMAIN tools |-> [id |-> id(i), tool |-> tools[i]]]
     ELSE pc' = "final" /\ UNCHANGED queue
  /\ UNCHANGED <<session, looked, reply, refusal, late, transition, effects, told, group,
                 request, saved, stop, shown, accepted, modes>>

(* The final answer is saved, and the turn ends with the stream's reason.  *)
SaveFinal ==
  /\ pc = "final"
  /\ saved' = Len(messages)
  /\ End("end_turn")
  /\ UNCHANGED <<session, batch, request, messages, accepted, modes>>

---------------------------------------------------------------------------
(* Every call gets one result, in order, run or not, and the client is     *)
(* told how the call ended.                                                *)
Status(ok) == IF ok THEN "completed" ELSE "failed"
Tell(status) == told' = [told EXCEPT ![call.id] = status]
ReportToolCall == Tell("pending")
ReportToolResult(ok) == Tell(Status(ok))
ReportInProgress == Tell("in_progress")

ResultUnlessCancelled(ok) ==
  /\ messages' = IF cancelled THEN messages
                 ELSE Append(messages, [role |-> "tool", calls |-> <<call.id>>,
                                        asked |-> FALSE, success |-> ok])
  /\ queue' = Tail(queue)
  /\ pc' = "batch"
  /\ looked' = FALSE
  /\ ReportToolResult(ok)
Result(ok) ==
  /\ messages' = Append(messages, [role |-> "tool", calls |-> <<call.id>>,
                                   asked |-> FALSE, success |-> ok])
  /\ queue' = Tail(queue)
  /\ pc' = "batch"
  /\ looked' = FALSE
  /\ ReportToolResult(ok)
Completed == Result(TRUE)
Failed == Result(FALSE)

Enter(stage) ==
  /\ pc' = stage
  /\ looked' = FALSE
  /\ UNCHANGED <<messages, queue, told>>

(* The next call of the batch is announced.                                *)
NextCall ==
  /\ pc = "batch"
  /\ queue # <<>>
  /\ pc' = "dispatch"
  /\ looked' = FALSE
  /\ ReportToolCall
  /\ refusal' = ~ Allows(mode, call.tool)
  /\ late' = cancelled
  /\ reply' = "dismissed"
  /\ UNCHANGED <<session, messages, queue, transition, effects, group,
                 shown, course>>

(* What each tool does first, unless its arguments are refused.  list_dir  *)
(* and update_plan never look at the token again; read_file and glob, and  *)
(* grep with it, wait for an answer or walk the files; exit_plan_mode      *)
(* works in Plan mode alone; the others need permission.                   *)
ListDir == call.tool = "list_dir" /\ Completed
UpdatePlan == call.tool = "update_plan" /\ Completed
StartRead == call.tool = "read_file" /\ Enter("reading")
StartWalk == call.tool = "glob" /\ Enter("reading")
InPlan == call.tool = "exit_plan_mode" /\ mode = "plan" /\ Enter("exit")
NeedsPermission ==
  call.tool \in {"write_file", "run_command", "mcp_tool"} /\ Enter("permission")
Run ==
  \/ ListDir
  \/ UpdatePlan
  \/ StartRead
  \/ StartWalk
  \/ InPlan
  \/ NeedsPermission
  \/ Failed

(* Where a call goes when the mode allows it.                              *)
Pass ==
  \/ pc = "dispatch" /\ Enter("access")
  \/ pc = "access" /\ Run
  \/ pc = "permission" /\ Enter("policy")
  \/ pc = "reply" /\ Enter("decide")
  \/ pc = "write" /\ Enter("effect")

(* Cancellation is answered with a failed result.                          *)
CancelledBeforeReply == cancelled /\ pc # "reply"
IsCancelled == cancelled
LookAtToken ==
  /\ pc \in Stage
  /\ ~ looked
  /\ IF IsCancelled
     THEN Failed
     ELSE looked' = TRUE /\ UNCHANGED <<pc, messages, queue, told>>
  /\ UNCHANGED <<session, reply, refusal, late, transition, effects, group,
                 shown, course>>

(* So is a mode that does not allow the tool.  A session is removed with   *)
(* its turn's token set, and whatever then asks for it fails.              *)
SessionGone == cancelled
LooksUnlessReplied ==
  \/ (pc = "reply" \/ Allows(mode, call.tool)) /\ Pass
  \/ (~ Allows(mode, call.tool) \/ SessionGone) /\ Failed
Looks ==
  \/ Allows(mode, call.tool) /\ Pass
  \/ (~ Allows(mode, call.tool) \/ SessionGone) /\ Failed
LookAtMode ==
  /\ pc \in Stage
  /\ looked
  /\ Looks
  /\ UNCHANGED <<session, reply, refusal, late, transition, effects, group,
                 shown, course>>

(* A granted write reads the document again first, and fails if it changed *)
(* while the prompt was open.                                              *)
Grant ==
  \/ call.tool = "run_command" /\ Enter("effect")
  \/ call.tool = "mcp_tool" /\ Enter("approved")
  \/ call.tool = "write_file" /\ (Enter("write") \/ Failed)

(* An MCP call looks at the token once more before its request is sent.    *)
Approved ==
  /\ pc = "approved"
  /\ IF cancelled THEN Failed ELSE Enter("effect")
  /\ UNCHANGED <<session, reply, refusal, late, transition, effects, group,
                 shown, course>>

(* What is remembered decides, else the mode, else the user: a protocol v2 *)
(* client is told that the turn waits for it.                              *)
Rejects == call.tool \in rejected
Policy ==
  /\ pc = "policy"
  /\ \/ (Rejects \/ SessionGone) /\ Failed /\ UNCHANGED shown
     \/ /\ ~ Rejects
        /\ call.tool \in allowed \/ AllowsWithoutPrompt(mode, call.tool)
        /\ Grant
        /\ UNCHANGED shown
     \/ /\ ~ Rejects
        /\ ~ (call.tool \in allowed \/ AllowsWithoutPrompt(mode, call.tool))
        /\ Enter("asking")
        /\ shown' = "requires_action"
  /\ UNCHANGED <<session, reply, refusal, late, transition, effects, group, course>>

(* The wait polls the token, then the answer; both may become ready in     *)
(* between, so the answer taken can be one that a cancellation preceded.   *)
StaysAsking == shown
Resumed == "running"
Answer(r) ==
  /\ pc = "asking"
  /\ reply' = r
  /\ shown' = Resumed
  /\ refusal' = ~ Allows(mode, call.tool)
  /\ late' = cancelled
  /\ Enter("reply")
  /\ UNCHANGED <<session, transition, effects, group, course>>

(* The reply is used, and remembered if the user said so; the call fails   *)
(* when there is no session left to remember it in.                        *)
Permitted(decision) == decision \in {"allow_once", "allow_always"}
Remember(decision) ==
  /\ allowed' = allowed \cup IF decision = "allow_always" THEN {call.tool} ELSE {}
  /\ rejected' = rejected \cup IF decision = "reject_always" THEN {call.tool} ELSE {}
Always(decision) == decision \in {"allow_always", "reject_always"}
Decide ==
  /\ pc = "decide"
  /\ \/ (IF Permitted(reply) THEN Grant ELSE Failed) /\ Remember(reply)
     \/ Always(reply) /\ SessionGone /\ Failed /\ UNCHANGED <<allowed, rejected>>
  /\ reply' = "dismissed"
  /\ UNCHANGED <<mode, cancelled, refusal, late, transition, effects, group,
                 shown, course>>

(* A file that was read is dropped if the token is set by then.  A walk    *)
(* looks at the token before each entry, and not after the last.           *)
ReadFile ==
  call.tool = "read_file" /\ IF cancelled THEN Failed ELSE Completed \/ Failed
Walk == call.tool = "glob" /\ (Completed \/ Failed)
ReadEnds ==
  /\ pc = "reading"
  /\ ReadFile \/ Walk
  /\ UNCHANGED <<session, reply, refusal, late, transition, effects, group,
                 shown, course>>

(* A command that no client terminal runs is this process's to end, with   *)
(* all that it started: whatever drops the wait for it kills its group.    *)
(* Once it ended by itself, what it left behind is its own business.       *)
KillShellOnly == UNCHANGED group
KillGroup == group' = FALSE
Release == group' = FALSE

(* Cancellation ends a pending prompt, a read and a traversal, kills a     *)
(* running command, and lets go of an MCP call once its cancellation is    *)
(* sent, or a second later.                                                *)
WaitsForNotice == FALSE
SecondPasses == TRUE
NoticeSent ==
  /\ pc = "cancelling"
  /\ Failed
  /\ UNCHANGED <<session, reply, refusal, late, transition, effects, group,
                 shown, course>>
NoticeTimeout ==
  /\ pc = "cancelling"
  /\ SecondPasses
  /\ Failed
  /\ UNCHANGED <<session, reply, refusal, late, transition, effects, group,
                 shown, course>>

Abandon ==
  /\ pc \in {"asking", "reading", "running"}
  /\ cancelled
  /\ IF pc = "running" /\ call.tool = "mcp_tool" THEN Enter("cancelling") ELSE Failed
  /\ KillGroup
  /\ UNCHANGED <<session, reply, refusal, late, transition, effects, shown, course>>

(* The file is written or its text sent to the editor, the command starts  *)
(* or the request goes to the MCP server; each may fail, and a client      *)
(* terminal is not requested once the token is set.  A command is reported *)
(* in progress.                                                            *)
Started ==
  /\ pc' = "running"
  /\ looked' = FALSE
  /\ ReportInProgress
  /\ group' \in BOOLEAN
  /\ UNCHANGED <<messages, queue>>
WriteFile ==
  call.tool = "write_file" /\ (Completed \/ Enter("writing")) /\ UNCHANGED group
CallServer == call.tool = "mcp_tool" /\ Enter("running") /\ UNCHANGED group
RunCommand == call.tool = "run_command" /\ Started
Effect ==
  /\ pc = "effect"
  /\ \/ Failed /\ UNCHANGED <<effects, group>>
     \/ effects' = effects \cup {call.id} /\ (WriteFile \/ CallServer \/ RunCommand)
  /\ UNCHANGED <<session, reply, refusal, late, transition, shown, course>>

(* The editor's answer ends the wait for its write, and nothing else does: *)
(* neither the token nor a timeout.                                        *)
WriteAnswered ==
  /\ pc = "writing"
  /\ Completed \/ Failed
  /\ UNCHANGED <<session, reply, refusal, late, transition, effects, group, shown,
                 course>>

CommandEnds ==
  /\ pc = "running"
  /\ Completed \/ Failed
  /\ Release
  /\ UNCHANGED <<session, reply, refusal, late, transition, effects, shown, course>>

(* exit_plan_mode saw Plan; it now sets AcceptEdits, in a second critical  *)
(* section, and names that mode in its result.  A failed write leaves the  *)
(* mode and fails the call.                                                *)
TransitionOf(result) == IF result = "none" THEN transition ELSE result
ExitPlan ==
  /\ pc = "exit"
  /\ \/ Completed /\ mode' = "accept_edits" /\ transition' = TransitionOf("accept_edits")
     \/ Failed /\ UNCHANGED <<mode, transition>>
  /\ UNCHANGED <<allowed, rejected, cancelled, reply, refusal, late, effects, group, shown,
                 course>>

---------------------------------------------------------------------------
(* The batch is answered: the mode a tool switched to is set again, unless *)
(* the turn was cancelled.                                                 *)
Transition ==
  /\ pc = "batch"
  /\ queue = <<>>
  /\ mode' = IF transition # "none" /\ ~ cancelled THEN transition ELSE mode
  /\ pc' = "save"
  /\ UNCHANGED <<allowed, rejected, cancelled, batch, progress, modes>>

(* The answered batch is saved; then the turn stops if it was cancelled or *)
(* left Plan mode, and goes round otherwise.                               *)
StopThenSave ==
  /\ saved' = IF cancelled THEN saved ELSE Len(messages)
  /\ IF cancelled THEN End("cancelled")
     ELSE IF transition # "none" THEN End("end_turn")
     ELSE pc' = "head" /\ UNCHANGED <<stop, shown>>
CycleEnd ==
  /\ saved' = Len(messages)
  /\ IF cancelled THEN End("cancelled")
     ELSE IF transition # "none" THEN End("end_turn")
     ELSE pc' = "head" /\ UNCHANGED <<stop, shown>>

SaveCycle ==
  /\ pc = "save"
  /\ CycleEnd
  /\ UNCHANGED <<session, batch, request, messages, accepted, modes>>

(* The provider, a notification, a save or a mode change fails, or the     *)
(* session is gone: the turn ends and its unsaved messages are lost.       *)
Fail ==
  /\ pc \in {"admit", "admitted", "head", "stream", "final", "batch", "dispatch",
            "save"}
  /\ End("error")
  /\ UNCHANGED <<session, batch, request, messages, saved, accepted, modes>>

(* The client is gone, or a signal arrives: the serve loop returns, the    *)
(* turn is dropped wherever it waits and nobody is told: this is no        *)
(* cancellation.  A save already handed to its thread may still happen.    *)
Shutdown ==
  /\ pc # "done"
  /\ pc' = "done"
  /\ stop' = "dropped"
  /\ saved' \in {saved} \cup IF pc \in {"admit", "final", "save"} THEN {Len(messages)} ELSE {}
  /\ KillGroup
  /\ UNCHANGED <<session, queue, looked, reply, refusal, late, transition, effects, told,
                 request, messages, shown, accepted, modes>>

---------------------------------------------------------------------------
Cancel ==
  /\ pc \notin {"arrived", "done"}
  /\ ~ cancelled
  /\ cancelled' = TRUE
  /\ UNCHANGED <<mode, allowed, rejected, batch, progress, pc, modes>>

SetMode(m) ==
  /\ pc # "done"
  /\ modes < MaxModes
  /\ modes' = modes + 1
  /\ mode' = m
  /\ refusal' = (refusal /\ queue # <<>> /\ ~ Allows(m, call.tool))
  /\ UNCHANGED <<allowed, rejected, cancelled, queue, looked, reply, late, transition,
                 effects, told, group, progress, pc>>

Batch == UNION {[1 .. n -> Tool] : n \in 0 .. MaxBatch}

(* What the turn's own task does without waiting for anyone but the disk   *)
(* and the token.                                                          *)
Own ==
  \/ RefusePrompt
  \/ BeginTurn
  \/ SavePrompt
  \/ Admit
  \/ RequestOrStop
  \/ StreamCancelled
  \/ SaveFinal
  \/ NextCall
  \/ LookAtToken
  \/ LookAtMode
  \/ Approved
  \/ Policy
  \/ Decide
  \/ NoticeTimeout
  \/ Abandon
  \/ Effect
  \/ ExitPlan
  \/ Transition
  \/ SaveCycle

Next ==
  \/ Own
  \/ \E tools \in Batch, asked \in BOOLEAN : StreamEnds(tools, asked)
  \/ \E r \in Reply : Answer(r)
  \/ WriteAnswered
  \/ CommandEnds
  \/ ReadEnds
  \/ NoticeSent
  \/ Fail
  \/ Shutdown
  \/ Cancel
  \/ \E m \in Mode : SetMode(m)

Spec == Init /\ [][Next]_vars

(* The runtime polls a task that can run, a cancelled wait ends at once,   *)
(* and the disk answers.  The provider, the user, the editor, a command    *)
(* and an MCP server may never do.                                         *)
FairSpec == Spec /\ WF_vars(Own)

---------------------------------------------------------------------------
(* Every variable stays within its type, and calls are pending exactly     *)
(* while the turn works on a batch.                                        *)
Idle == {"arrived", "admit", "admitted", "head", "stream", "final", "save"}
TypeOK ==
  /\ mode \in Mode
  /\ allowed \subseteq Tool
  /\ rejected \subseteq Tool
  /\ cancelled \in BOOLEAN
  /\ pc \in Stage \cup Idle
            \cup {"batch", "policy", "asking", "decide", "approved", "effect",
                  "reading", "writing", "running", "cancelling", "exit", "done"}
  /\ looked \in BOOLEAN
  /\ reply \in Reply
  /\ request \in 0 .. MaxRequests
  /\ messages \in Seq(Message)
  /\ saved \in 0 .. Len(messages)
  /\ queue \in Seq(Call)
  /\ transition \in {"none", "accept_edits"}
  /\ stop \in {"none", "end_turn", "cancelled", "max_turn_requests", "error",
               "dropped"}
  /\ effects \subseteq Id
  /\ refusal \in BOOLEAN
  /\ late \in BOOLEAN
  /\ modes \in 0 .. MaxModes
  /\ told \in [Id -> {"unknown", "pending", "in_progress", "completed", "failed"}]
  /\ shown \in {"running", "requires_action", "idle"}
  /\ accepted \in BOOLEAN
  /\ group \in BOOLEAN
  /\ pc \in Idle => queue = <<>>
  /\ queue = <<>> => pc \in Idle \cup {"batch", "done"}
  /\ stop # "none" <=> pc = "done"

(* The turn ended by itself, without an error.                             *)
Finished == stop \notin {"none", "error", "dropped"}

(* The conversation on disk.                                               *)
Kept == SubSeq(messages, 1, saved)

(* stored_tool_result: the provider's id of a call, unique in its batch,   *)
(* is looked for among the tool messages that follow; replay shows every   *)
(* call of an assistant message with the outcome found there.              *)
ProviderId(id) == id[2]
WholeHistory(h, i) == {j \in DOMAIN h : h[j].role = "tool"}
Following(h, i) ==
  {j \in DOMAIN h : j > i /\ \A k \in i + 1 .. j : h[k].role = "tool"}
Stored(h, i, id) ==
  {j \in Following(h, i) : ProviderId(h[j].calls[1]) = ProviderId(id)}
Replayable(h) ==
  \A i \in DOMAIN h : h[i].role = "assistant" =>
    \A k \in DOMAIN h[i].calls : Stored(h, i, h[i].calls[k]) # {}
ReplayedCall(h, i, id) ==
  LET first == CHOOSE j \in Stored(h, i, id) : \A l \in Stored(h, i, id) : j <= l
  IN [id |-> id, status |-> Status(h[first].success)]
ReplayedMessage(h, i) ==
  IF h[i].role # "assistant" THEN <<>>
  ELSE [k \in DOMAIN h[i].calls |-> ReplayedCall(h, i, h[i].calls[k])]
Replay(h) ==
  LET replayed[i \in 0 .. Len(h)] ==
        IF i = 0 THEN <<>> ELSE replayed[i - 1] \o ReplayedMessage(h, i)
  IN replayed[Len(h)]

(* The calls of message i are answered right after it, in order.           *)
Answered(h, i) ==
  \A k \in DOMAIN h[i].calls :
    /\ i + k \in DOMAIN h
    /\ h[i + k].role = "tool"
    /\ h[i + k].calls = <<h[i].calls[k]>>

(* On disk, every batch that was run is followed by one result per call,   *)
(* in order, and there is no other result: no save, cancellation, failure  *)
(* or shutdown splits a batch (run_prompt_turn).                           *)
SavedIsPaired ==
  \A i \in DOMAIN Kept :
    /\ Kept[i].role = "assistant" /\ Kept[i].asked => Answered(Kept, i)
    /\ Kept[i].role = "tool" =>
         \E j \in 1 .. i - 1 : Kept[j].asked /\ i - j \in DOMAIN Kept[j].calls

(* A turn that ends without an error, cancelled or not, has on disk the    *)
(* result of every call that changed something: run_prompt_turn saves      *)
(* before it looks at the token.                                           *)
EffectsAreRecorded ==
  Finished =>
    \A id \in effects : \E i \in DOMAIN Kept :
      Kept[i].role = "tool" /\ Kept[i].calls = <<id>>

(* A client is asked to act only while a prompt waits for it or the turn   *)
(* is on its way out, is told so whenever a prompt waits, and a turn that  *)
(* ends without an error leaves it no call that looks unfinished; a prompt *)
(* it was told is accepted is on disk before anything is asked of the      *)
(* provider (V2Tools::request_permission, run_prompt, report_tool_result). *)
ClientView ==
  /\ request > 0 \/ shown # "idle" => accepted
  /\ accepted => saved > 0
  /\ pc = "asking" => shown = "requires_action"
  /\ shown = "requires_action" => pc = "asking" \/ cancelled \/ stop = "dropped"
  /\ pc = "done" /\ stop # "dropped" => shown = "idle"
  /\ Finished =>
       \A id \in Id : told[id] \in {"unknown", "completed", "failed"}

(* One call was asked for before another.                                  *)
Before(a, b) == a[1] < b[1] \/ (a[1] = b[1] /\ a[2] < b[2])

(* When the conversation a turn left on disk can be loaded again, the load *)
(* shows the calls the turn had shown, all of them, once and in order, each*)
(* with the outcome the turn reported (replay_session_history against      *)
(* report_tool_call and report_tool_result), although the provider numbers *)
(* the calls of every completion anew.                                     *)
LoadShowsTheTurn ==
  Finished /\ Replayable(Kept) =>
    LET replay == Replay(Kept) IN
      /\ \A k \in DOMAIN replay : replay[k].status = told[replay[k].id]
      /\ {id \in Id : told[id] # "unknown"} = {replay[k].id : k \in DOMAIN replay}
      /\ \A k, l \in DOMAIN replay : k < l => Before(replay[k].id, replay[l].id)

(* A call changes a file, starts a command or has a decision remembered    *)
(* only if the mode allowed its tool at some moment after the call started *)
(* and after the user's answer was taken, and only if the turn was not yet *)
(* cancelled then: an approval that arrives when the mode has been taken   *)
(* back, or together with a cancellation, is worth nothing                 *)
(* (request_tool_permission).                                              *)
StaleReplyAuthorizesNothing ==
  [][<<effects, allowed, rejected>>' # <<effects, allowed, rejected>>
       => ~ refusal /\ ~ late]_vars

(* A command that runs in this process's care never outlives its call,     *)
(* however the turn ends: by itself, cancelled, or dropped with the        *)
(* connection, where nothing was cancelled (CommandGroup).                 *)
NoCommandIsLeft == pc # "running" => ~ group

(* A turn cancelled before its last answer was complete ends and says so,  *)
(* unless it failed, had used up its requests or went down with the        *)
(* process, and unless the editor was sent a write and does not answer it: *)
(* once it answers, the turn ends (run_prompt_turn).                       *)
CancelIsReported ==
  (cancelled /\ pc \notin {"final", "done"})
    ~> \/ stop \in {"cancelled", "error", "max_turn_requests", "dropped"}
       \/ pc = "writing"

---------------------------------------------------------------------------
(* Statements of the sources and documents that the code does not meet.    *)

(* turn.rs and acp/mod.rs: the call/result pairing is kept for resume, and *)
(* a history without it is refused.  What a finished turn left on disk can *)
(* be loaded again.                                                        *)
SavedCallsAreAnswered == pc = "done" => Replayable(Kept)
===========================================================================
