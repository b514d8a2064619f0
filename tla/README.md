# A TLA+ model of acp-llm-adapter

`acp-llm-adapter` is an ACP agent: an editor speaks JSON-RPC to it, it keeps
sessions, sends each session's conversation to an OpenAI-compatible provider,
and runs the tools the model asks for behind the user's permission. The
modules here model the parts of it whose correctness depends on order,
failure and concurrency; TLC checks them on small instances and TLAPS proves
the most important results for every instance. Paths below are relative to the
repository.

## The system

| part | state it keeps | operations | talks to |
| --- | --- | --- | --- |
| Session store (`src/session_store.rs`) | one mutex over the table of sessions (history, settings, active turn, remembered decisions) and the retired turns; `meta.json` and `history.jsonl` of each ordinary session | create, restore, remove, delete, begin and end a turn, save, clear, update settings, cancel | called by the handlers and by turns; writes files while it holds the mutex |
| ACP v1 handlers (`src/acp/mod.rs`) | none of their own | new, load, resume, close, delete, cancel, set mode, set option, prompt, replay | the store, MCP servers; spawns turns |
| Prompt turn (`src/turn.rs`) | the conversation of the turn, a cancellation token, the pending mode transition, token totals | admission, provider request, stream, charge, batch of calls, save | provider stream, tools, store, client notifications |
| History truncation and repair (`src/turn.rs`) | none | cut to a byte budget, drop orphans, join texts | called before each provider request |
| Provider stream (`src/llm/`) | a transport task, an unbounded channel, partial tool calls | connect, retry, forward, assemble | provider over HTTP, the turn |
| Permission gate (`src/acp/requesters.rs`, `src/session.rs`) | the session's always-allow and always-reject sets | look at the token, the mode and the sets; ask; remember | client, store |
| Tools (`src/tools/execution/mod.rs`) | files, child processes | read, search, edit, write, run, exit plan mode, MCP | disk, client file system and terminal |
| Client terminals (`src/acp/requesters.rs`) | the client's terminal, its hand-over to a call | create, wait, output, kill, release | client |
| MCP servers (`src/mcp.rs`, `src/mcp/sse.rs`) | one connection per configured server | connect, list, call with bounded cancellation | child processes, HTTP |
| ACP v2 draft (`src/acp/v2*`) | none of its own; it tells the client running, requires action or idle | the same operations in another wire format | handlers and turns |
| Recording proxy (`src/proxy.rs`, `src/proxy/`) | a child agent, three pumps | forward and log, end, reclaim descendants, drain | agent, client, log sink |
| Log sink (`src/logsink.rs`, `src/logsink/`) | a bounded queue, a writer thread, the log files and the bounds recorded beside them | log, bind a session, flush, sweep | proxy, other processes that log into the same root |
| Tool registry, provider vocabulary | none that changes, but for the windows of models discovered at start-up | | |
| Entry point (`src/main.rs`) | none | serve until the input ends, a signal or the transport | drops every turn with the connection |

What makes it hard. The runtime has several threads: the store's mutex is the
only thing that orders two handlers, a turn and a cancellation, and several
operations are made of more than one critical section. A restore reads the
disk without the mutex. A turn can be cancelled at any await, its session can
be closed, deleted and restored while it cleans up, and its file writes can
fail or be cut by the death of the process. The provider, the editor and the
user may answer late or never. PROJECT.json lists these hazards at the lines
where they bite, each with the properties that watch it.

What makes each part correct:

- store: one turn per session id, whatever is closed, deleted or restored
  meanwhile; what a save reported is in the file; the file holds every message
  once and in order; a removed session is not written; a helper leaves nothing;
  a cancelled turn gives its session back;
- turn: every call that was run is answered exactly once in what is saved; what
  changed something is recorded; a stale approval authorizes nothing; a
  cancelled turn says so; the client is not left with a state or a call that
  looks unfinished, a later load shows what the turn had shown, and no command
  is left behind, however the turn ends;
- history: a request fits the budget, carries the prompt and never splits a
  call from its results;
- stream: a completion counts as complete only if it is; retries never repeat
  output; it is charged once, for what the provider reported last;
- tools: a document changed behind an open approval is not overwritten; a
  cancelled call writes nothing; a terminal is always released, and a command
  that may still run is killed first;
- proxy and sink: a frame is filed under the session its sender meant, an answer
  after what it answers; whoever is told the agent's status got all it wrote;
  the proxy ends whatever its client and the agent's descendants do;
- log files: a sweep removes only what somebody bounded, and never a file its
  own process goes on writing to.

## The modules

Each component is a module with a theory of its own; an MC module and a .cfg
give it an instance. `map` in PROJECT.json names the lines of every definition.

**SessionStore** is the store under the handlers and turns that call it. The
record of a session is split into functions of the session id (`active`,
`history`, `settings`, `helper`), `live` is the key set of the table and
`retired` is `retired_turns`. `disk` has the metadata, the lines, and whether
the last line still lacks its newline. Every operation holds the mutex
throughout, so most handlers are one action. A save is a sequence of actions
under `lock` (metadata, then for each message its text and its newline, then the
publication in memory), and so is a clear, because a restore reads the disk
without the lock and because a crash or an error may come between two writes. A
restore is metadata, history, the connection of its MCP servers one after the
other, and publication; each server may connect, fail or never answer, and an
SSE server is given up after its limit (`SetupTimeout`), the others are not. A
running turn may wait for the editor's answer to a write (`AwaitEditor`,
`EditorAnswers`), which only the answer ends. `Crash` keeps the disk, with what
an interrupted append may leave in it. Appends are flushed to the kernel and not
synced: a crash is the death of the process, not of the machine.

**TurnOwnership** is what the store promises to turns: a session id is an
exclusive resource, claimed and released by turns. SessionStore implements it
with `owner[s]` = the active or retired turn of `s` and `working` = the turns
under way.

**RestoreRace** is SessionStore with a history variable, `begun`: the turns
that had begun when a restore first read the disk. It carries the statement of
the run `restore_race` and no other.

**PromptTurn** is a prompt from its arrival: it is refused, or admitted, its
message saved and the admission reported, and then `run_prompt_turn` takes over.
Cancel, set mode and the turn run on different threads, so each look at the
token and each look at the mode is a step. A call passes up to five stages that
look at both (dispatch, access, permission, reply, write) and, between them, the
remembered decisions, the prompt and its answer; behind them is one abstract
effect. Each of the eight tools takes the path of its own code: some never look
at the token again, a read and a walk do so at different moments, an MCP call
looks once more and waits at most a second for its cancellation to be sent
(`NoticeSent`, `NoticeTimeout`). A file goes to the disk or, as text, to the
editor; the wait for the editor's answer (`writing`) is the one that neither the
token nor a timeout ends. `refusal` and `late` record what a stale approval is:
since the call started, or since the user's answer was taken, the mode has
refused the call all along, or the turn was already cancelled then. `told` is
the status of each call the client was last told, `shown` and `accepted` what a
protocol v2 client knows of the session and of its request; with v1 the answer
comes at the end and `shown` does not exist. `group` says that a command runs in
a process group of this process. `Fail` stands for a provider error, a failing
notification or save, and a session that is gone; `Shutdown` for the end of
`serve`, which drops the turn wherever it waits and tells nobody. `Replay` is
what a later `session/load` shows of the saved conversation. A notification to
the MCP server is assumed not to block the runtime's thread.

**HistoryFilter** is the pair of pure functions between the history and the
provider, driven by the histories that turns leave. The cut keeps the order of
the list, so it is a set of positions, found by a walk from the newest unit to
the oldest; the repair is a walk from the first position to the last. Both are
recursive functions of the position. Sizes are numbers: a base per message, its
content, a separator for a join; and a text may be blank, empty or of white
space only, whatever its length.

**CompletionStream** is one provider request: the transport task with its
reconnections and the loop that reads its channel. An event carries the
connection it came from and its position, so that a repeated or lost event
shows. A call is assembled in a numbered slot: its first fragment brings the id
and the name, later ones only arguments, and a fragment for slot 1 makes slot 0
too, so that the end of an answer finds a slot whose first fragment is missing.
The turn keeps the last usage report it took (`usage`) and counts its tokens at
the end; when the context window of the model is known or was
discovered at start-up, it charges the session. Both are checked sums; a
session's cost and the prompt's totals start at any value, which stands for the
completions before and which `owed` and `counted` keep. The charge fails when
the sum would wrap or the session was closed meanwhile.

**Terminal** is `run_command` in a client terminal: the call, the task of the
connection that owns the creation until the call has taken the terminal, and a
client that may refuse or never answer.

**FileEdit** is one `write_file` or `edit_file` call: the first read, the
approval, the second read, the last look at the token and the write, on the
disk or through the editor as the client's capabilities say, while the user
types, saves and another process changes the file.

**LogSink** is the diagnostic log: the sniffer's two tables of requests in
flight, the session binding, the bounded queue, where `try_send` drops what does
not fit and the flush waits, and the writer thread. It is a library of actions
without a next-state relation of its own.

**LogRetention** is several processes that log into one root. A writer that
opens a log reads the bounds recorded beside it, truncates and fills the record
with the merge of those and its own, opens the log and appends; after every
line, and when it starts, it sweeps: lists the logs, examines each with its
record, and removes the victims, first by age and then by size. No lock orders
two processes, so each file operation is a step, but for one pair: a sweep looks
at a log's size and time and reads its record in the same step. Another process
between the two could only make the size or the time older than the record they
are judged by, and no property is about which bounded logs a sweep prefers.
`handle` says whether a writer's open file is still the one with that name.
`asked`, `authors` and `disturbed` are history for the properties.

**Proxy** runs on LogSink: it EXTENDS it and each pump's `Attribute`,
`BindSession` and `Log` are the three parts of `ConnectionLog::log`, which
share tables with the other pumps and so are separate steps. A source writes
the lines of a script; a pump reads any number of them at once, logs each, and
passes the chunk on. `main` is the stage of `pump_child` and of
`Lifetime::wait`, and `failures` collects the errors it returns only after the
clean-up. Timeouts may pass at any time. The scripts are any conversations
whose peers keep to JSON-RPC, as `Conversation` says: an answer follows its
request and means its session, a request is answered once, and its id is used
again only by who has read the answer. Of peers that break this the code
promises nothing; it files what it can. `kin` stands for all descendants of the
agent, which hold its pipes. The last line of a source may lack its end: its
bytes go on at once, and at the end of input it is attributed and recorded like
any other (`Open`, `AtEnd`). A `piece` is what the splitter hands on that is no
frame: a line cut off, or a part of one longer than `MAX_PENDING_LINE`. No
request is that long: it would be answered, and the proxy would not know to
whom. A chunk that ends within a line counts as ended before it: those bytes go
on at once, but who reads them acts on whole lines. Killing a process does not
fail.

**Relay** is what the proxy promises to both sides: every pipe passes on what
was written, in order and once; the end of a line goes on no earlier than the
line is recorded; and the agent's status is reported once, of output that has
ended and was passed on and recorded in full. Proxy implements it with
`written` = `said`, `recorded` = `offered`, `delivered` = `passed` and
`status` = `result`.

How they fit: PromptTurn's `effect` stage is FileEdit from its first read on,
or Terminal; its `stream` stage is CompletionStream; the list it sends is
HistoryFilter's; its saves are SessionStore's, where the turn is only
what it adds to the conversation. Each boundary is abstracted by a
nondeterministic outcome on the calling side (a save keeps everything or fails
the turn, a stream ends with any calls and reason, an effect succeeds or
fails), which the detailed module refines. The proxy is a process of its own,
around this adapter or any other agent, and shares with the rest only the log
root: a writer of LogRetention is the log thread of either.

## The runs

| run | question | distinct states |
| --- | --- | --- |
| `store` | safety of one session id, the refinement of TurnOwnership, and the end of a cancelled turn unless the editor leaves its write unanswered | 371 954 |
| `turn` | pairing, recording, stale approvals, honest stop reason, the client's view, replay, commands left behind | 335 389 |
| `history_filter` | budget, prompt, units, alternation, completeness | 157 987 |
| `completion` | one attempt, complete is whole, exact bill | 2.6 million |
| `terminal` | release, kill, bounded end of a call | 557 |
| `file_edit` | conflict, cancellation, pending waits | 33 934 |
| `proxy` | attribution, complete output, the refinement of Relay, bounded end of the proxy | 716 139 |
| `log_retention` | which logs a sweep may remove, what records cover, a writer's own handle | 2 963 970 |
| `restore_race`, `torn_line`, `unanswered_calls`, `retention_race` | disagreements of code and documentation, below | |

Bounds. One session id is enough for the store: operations on different ids
share only the mutex, and every action touches one id. Two turns are the
fewest that can exclude each other, and ids are never shared by more at a time;
one restore is enough because restores do not read each other; it has one MCP
server, over SSE, which can connect, fail, hang and time out: those before it
would only lengthen the wait. Three messages let a turn save one line, then two
at once, so that a save can be cut between its lines; one failing operation,
one crash and one deletion each can meet every step. The settings have one
value, because no property tells two apart. In PromptTurn `MaxRequests` and
`MaxBatch` 2 let a second request follow a batch and a cancellation fall
between two calls, and two calls in all can be of one batch or of two, so that
a number of the provider's comes again; two mode changes can take a mode away
and give it back. All eight tools are there, one of each path through the
checks. In HistoryFilter five messages hold a prompt, a batch of two calls and a
following turn; budget 11 lets an old message of length 5 crowd out others and
an instruction of length 3 leave less room than one of length 1. One retry is
enough for the stream, whose task keeps no memory of how many it made; three
events hold a call of two fragments, or two calls of which one lacks its first,
and a finish, or a finish between two usage reports; and a count limit of 2 lets
a report fit and not fit, in the tokens and in the cost. Two changes by others
are enough to change a document and change it back. The proxy's four routing
conversations are a request and its answer under a safe and an unsafe session
id, two crossing requests of one id, and one id used twice: attribution looks
at no more than the last request of an id; in the other two every event may
come at any time, with whole lines and, at the end of either output, one
without its end. In one routing conversation the last answer lacks its end, in
another a piece precedes an answer. A queue of two is full as
soon as two records meet the launch. LogRetention has a writer bounded in size
and age beside one whose settings are malformed and too large, and so leave it
unbounded; two logs, which may exist from before, so that a sweep can choose
the older (they are interchangeable, hence the symmetry); two lines and two
ticks of the clock let a log be too large, too old, both or neither; one fault
meets every file operation.

`CHECK_DEADLOCK FALSE` everywhere: every model ends (turns are over, a call is
done) or is limited by its bounds.

Fairness, only where a run has a liveness property. In all of them nothing is
assumed of the editor's answer to a file write, which
`src/tools/execution/mod.rs` awaits at 1283-1289 without token or timeout: an
editor that never gives it keeps a cancelled turn, and its session id, for ever.

- SessionStore: a held mutex is released and a waiter is eventually granted it
  (strong fairness of a turn's saves and of the end of a cancelled turn, since
  others may take the mutex in between; weak fairness of the rename under it).
  `EditorAnswers` is not fair, so `CancelledTurnEnds` claims nothing of a turn
  for as long as it waits for the editor. A turn that was not cancelled owes
  nothing, since its provider may never answer, and nothing is claimed of a
  restore, whose server may never answer.
- PromptTurn: weak fairness of the turn's own steps, of which one is enabled
  whenever it is not waiting for the provider, the user, a command or an MCP
  server, and not for the editor's answer to a write; leaving one of the former
  waits once the token is set is one of the steps, and so is the passing of the
  second. `WriteAnswered` is not fair, and `CancelIsReported` claims nothing of
  a turn that waits for it.
- Terminal: weak fairness of the adapter's steps, the one-second deadlines among
  them; none of the client's.
- FileEdit: weak fairness of leaving a cancelled wait and of starting the write.
  A write sent to the editor is not cancellable, so nothing is claimed of a call
  that is already writing.
- Proxy: weak fairness of the main task, its timers among its steps, and of the
  writer thread. None of the pumps, the client or the agent: a pump may be stuck
  in a write for ever, and `ProxyEnds` holds all the same. It claims nothing
  while the agent runs and nobody leaves.

## What the code and its documentation disagree on

- `restore_race`: `session/load` is refused while a turn owns the id, and only
  then. A turn that starts after the restore's first read of the disk and ends
  before its publication is undone in memory: what it saved is missing from the
  conversation that is published, although comment and documentation promise
  the opposite. `begun` sees to it that the run is about no earlier turn.
- `torn_line`: a failed append leaves part of a line and the next save
  continues that line, reports success and makes the file unreadable.
- `unanswered_calls`: a completion that carries calls but another finish reason
  is saved with calls and without results, and can never be loaded again.
- `retention_race`: two processes that open one log at once both find no
  record of bounds; the bounded one writes last, and its sweep removes the
  lines of the unbounded one, although the documentation says that the most
  permissive writer wins and that an unbounded agent's logs are never deleted.
  The run needs no fault. `RecordCoversItsWriters` is what remains: without
  such an overlap the record covers everybody whose lines the log holds.

Behaviours the model has and no run reports, because nothing in the
repository clearly promises otherwise: a `session/cancel` that arrives before
`begin_turn` is lost, and a deletion that overlaps a restore is followed by the
publication of the restored session without files. A stdio or HTTP MCP server
that never answers holds a restore for ever. `exit_plan_mode` and the end of
its batch write a mode they read earlier, over a mode the user chose meanwhile,
and a turn cancelled between the two leaves the client showing the old one. And
a write to an agent
that has just exited may be noticed before its exit, and the proxy then reports
the write's failure and not the agent's status, as the `# Errors` section of `run`
allows.

## What is proved

SessionStoreProofs, for any finite or infinite sets of sessions, turns, loaders
and settings and any bounds, from `StoreAssumption` only:

- `StoreInvariant`: `TypeOK /\ OwnerInv` is inductive. `OneTurnPerSession` is
  not inductive by itself: it does not say that a working turn owns its id, so
  a step could hand the id to another turn. `OwnerInv` says who owns what: a
  working turn is the active or the retired turn of its session; whatever is
  named there is working on that session; a live record excludes a retired
  turn; a turn that holds the mutex is saving and is the active one. The proof
  has one lemma per part of the type invariant (records, disk, pending work,
  turns, loaders, budgets) and one for ownership, each with one step per action.
- `StoreTypes`, `StoreOwnership` and `StoreOneTurnPerSession` follow.
- `StoreKeepsOwnership`: the store implements TurnOwnership. A begun turn is a
  `Claim`, the end of a turn a `Release`, a crash a `Restart`; every other
  step, closing, deleting and restoring among them, changes neither `owner` nor
  `working`.

The second half of the module adds the files, from the same assumption:
`HelpersLeaveNothing`, `WrittenInOrder`, `AcknowledgedIsWritten` and the action
property `RemovedStaysQuiet`. That a file holds each message once is not
inductive by itself: it must be known how far a save has come. `Written` is
the number of messages of a turn that its file holds, computed from the record
between two saves and from what is still to be written during one. `SavingInv`
says of every turn at work that its conversation is what it began with,
followed by its own messages in order; that a save under way has exactly the
last of them left; and that, while the file has no torn line, it holds the
first `Written` of them and no other. `FreshInv` says that nobody has a message
of a turn that has not begun, `HelperInv` that an id which is a helper or not
yet handed out has no file. The four kinds of step that touch a file (it is
kept, it goes, it grows by the next message, it is spoiled) carry the proofs.

PromptTurnProofs, for any subset of the eight tools and any bounds, from
`TurnAssumption`: `TypeCorrect`, `CommandsEnd`, `SavesArePaired`,
`EffectsReachDisk`, `ClientSees`, `LoadsShowTurns` and the action property
`RepliesGoStale`.

- Thirteen actions work on the call at the head of the batch; `CallMoves` says
  once what they do to the conversation, and the proofs go by the few kinds of
  step that are left.
- `RepliesGoStale` rests on `RefusalInv`: between its first look at the mode and
  the prompt, and after the look that follows the answer, a call is allowed; at
  these two looks a refusal is what the mode still says; and on `LateInv`: the
  turn of a late call is cancelled, and the call gets no further than the look
  at the token that comes next.
- `SavesArePaired` is an invariant of the file, and its reason is in the turn's
  memory. `BatchInv` says that a call has its result at its place behind the
  message that asked for it, or waits at that place in the batch; `OriginInv`
  that every result and every waiting call has such a message; `SavedInv` that
  the file ends between batches.
- `EffectsReachDisk` and the last part of `ClientSees` rest on `EffectInv` and
  `StatusInv`: what changed something, or looks unfinished, is the call worked
  on or has its result in the conversation; and on `SettledInv`: a turn that
  goes on, or ends without an error, has saved all it has.
- `LoadsShowTurns` is about two computations: what the turn told the client,
  call by call, and what a load makes of the file, message by message. They meet
  in the numbers. The provider numbers the calls of each completion anew, so a
  load looks for a result only among those that follow the message; that this
  finds the right one is `NumberInv` (a call is named by its request and its
  place, and requests are numbered in order) with `ResultInv` (what a result
  says is what was told) and `ToldInv` (a call that was told to have ended has
  its result in the conversation). `ReplayJoins` and `ReplayCovers` then go
  through the saved messages by induction.

HistoryFilterProofs, for any budget, sizes, instructions and bounds, from
`FilterAssumption`: all five invariants of the run (`RequestsFit`,
`PromptGoesOut`, `RolesAlternate`, `CallsTravelWithResults`,
`OnlyTheOversizedIsCut`).

- `FilterInv` says what a turn leaves: results directly behind the message with
  their calls, each position named once, and a request that is the instruction
  and such a history. Everything else is about the two functions, for every
  conversation of this kind.
- The cut: `WalkState` says of each position of the walk that the mandatory
  messages and whole units were kept, that what is left of the budget is what
  the kept positions do not use, and that every unit passed over was refused
  because it did not fit beside what was kept at that moment.
- The repair: a step drops the message, adds it, or joins it to the last one
  (`RepairStep`), and each of the five properties has a lemma for the step and
  one for the whole list: the size grows by no more than the message's, no
  content is lost, order and alternation stay, and a message that is not plain
  text keeps a place of its own, right behind the one before it.

CompletionStreamProofs, for any number of connections, events and counts, from
`StreamAssumption`: `OneConnection`, `CompleteAnswers`, `ChargedOnce`. The
argument is the pipe between the two tasks (`ChannelInv`): what the turn has
taken, followed by the channel, is what this connection sent, unless an error
ends the channel; and a connection that may be replaced has sent nothing
(`ReplayInv`). `FinishInv` says that without such an error the closed channel
means that the finish reason was sent and only usage after it, or that the turn
was cancelled. `UsageInv` ties the report the turn keeps to those it took, and
`CostInv` the tokens and the cost to this report.

FileEditProofs, for any texts, edits and number of changes by others, from
`EditAssumption`: `EditTypes`, `EditConflictStopsWrite`, `EditCancelStopsWrite`.
The last two speak of what was written; `ReadyInv` carries their reasons to the
state before the write: a call past its second read has read the document it
shows, and a call past its last look at the token was not cancelled before.

TerminalProofs, whatever the client refuses: `TerminalTypes`,
`TerminalKilledBeforeRelease`, `TerminalSuccessMeansReleased` and the action
property `TerminalReleaseIsLast`. `HandOverInv` says that at most one of call
and task holds the terminal, `ClientInv` what the client's answers say of it;
neither kill nor release is safe without the first, nor success without the
second.

LogRetentionProofs, for any writers, finite set of logs, settings and bounds,
from `RetentionAssumption`: `TypeCorrect`, `OwnSweepsAreSafe` and the action
property `SweepsRemoveBounded`. `RetentionInv` adds `BoundsHaveAnAsker` to the
types: whatever bound is recorded beside a log, is about to be, or was seen by
a sweep under way, was set by a writer that has used that log. It survives
half-written and removed records because neither is a bound. `RecordsCover`
has an invariant of its own, `CoverInv`: a log that nobody disturbed is recorded
or removed by one writer at a time, its record admits everybody who has written
to it or has it open, before the writer in between replaces it and after, and
what that writer is about to record covers them too.

ProxyProofs, for any conversations of peers that keep to the protocol and any
capacity of the queue, from `ScriptAssumption` and `SinkAssumption`:
`TypeCorrect`, `AnswersFollow`, `RightFiles`, `AgentsStatusMeansAll` and the
refinement `ProxyRelays`. The inductive invariant `ProxyInv` has a part for
each. What a line waits for has been passed on, and what was passed on has been
handed to the log, but for a last line without its end (`SaidInv`, `PassedInv`):
so an answer is handed over last. The sniffer knows the owner of every request
whose answer has not been attributed (`FlightInv`), because no id is used again
before; so an answer in hand is attributed as its sender meant (`HandInv`),
whichever pump binds the session in between. Each stage of the main task has
made sure of what it waited for, or has put its failure into `failures`
(`EndInv`), a pump is done only when its source is closed and empty (`DoneInv`),
and the queue behind a flush holds only what the client still writes
(`FlushInv`). Under the invariant every step is one of Relay's or changes
nothing there: a source's line is a `Write`, which the agent cannot do once its
status is reported; an entry of the log, a line without its end among them, is a
`Record`; a chunk passed on is a `Deliver`, since only the last line can be
passed on unrecorded (`LastLine`).

The type invariants of SessionStore, CompletionStream, FileEdit, Terminal and
Proxy are proved and not repeated in the runs.

Every safety property, every action property and both refinements of the
passing runs are proved. Model-checked only is all liveness (`CancelledTurnEnds`,
`CancelIsReported`, `CancelledCallEnds`, `NoTerminalIsLeft`, `PendingWaitEnds`,
`ProxyEnds`): fairness and ENABLED are out of reach of the prover.

Where a proof goes through a recursive function (HistoryFilterProofs, and the
replay in PromptTurnProofs), it uses neither a RECURSIVE operator nor the
library's induction theorems, whose operator parameters the installed provers
cannot instantiate. A set of numbers has a smallest element, by
`WFMin`; `InductionTo` states induction as a fact about a set, and
`Recursion` that a function with the given steps exists, so that the CHOOSE
behind a recursive definition has something to choose.

## Not modelled

Listing, titles and timestamps in the store; headers, decoding and request
building in the provider client; redaction in the sink; names and schemas of
MCP tools and the framing of the SSE transport; path confinement and matching in
the tools, and what the read-only tools return; the encoding of updates in both
protocol versions, and of v2 everything but a prompt's admission and states;
command lines and tracing. They are code over data that no property above
reads. The updates of a v2 `/clear` are left out too: they are sent after the
store was awaited, and may come between those of a prompt admitted meanwhile.
For the permission gate and the tools, texts shown to the user are abstracted
away.

HistoryFilter's `TextsAlternate` is about texts that can be joined: an assistant
text beside an assistant message with calls or reasoning is left as it is by
the code, and by the property.

## Plan

Done: SessionStore with TurnOwnership, PromptTurn, HistoryFilter,
CompletionStream, Terminal, FileEdit, LogSink, Proxy with Relay, LogRetention;
the proofs of the safety of all of them.

Next, in this order:

1. An abstract specification for CompletionStream: a reader that is given a
   prefix of one answer and told truthfully whether that was all; it follows
   from `ChannelInv`.
2. A composition of SessionStore and PromptTurn at the save, to carry
   `SavesArePaired` to what a restore reads after a crash.
3. The updates of two v2 requests on one session, `/clear` among them.
