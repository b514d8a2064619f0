--------------------------- MODULE SessionStore ---------------------------
(***************************************************************************)
(* The session store: the table of live sessions behind one mutex, the     *)
(* ownership of prompt turns, and the meta.json / history.jsonl pair each  *)
(* ordinary session keeps on disk (session_store.rs), driven by the        *)
(* session handlers (acp/mod.rs) and by prompt turns (turn.rs).            *)
(*                                                                         *)
(* Every operation takes the mutex for its whole duration, disk writes     *)
(* included, with one exception: a restore reads the disk and connects its *)
(* MCP servers without the mutex and takes it only to publish.  A save and *)
(* a clear are therefore several steps, so that a restore can read, or the *)
(* process can die, between two writes; the other operations are one step. *)
(*                                                                         *)
(* A message is <<t, k>>, the k-th message turn t adds to its session.     *)
(* Mode, model, effort and token cap are one abstract Setting; title,      *)
(* timestamps and spend are left out, and of a session's MCP servers only  *)
(* what connecting them means for a restore is kept.                       *)
(***************************************************************************)
EXTENDS Naturals, Sequences, Functions

CONSTANTS
  Session,      \* session ids (uuids, never reused)
  Turn,         \* prompt turns, each with a fresh cancellation token
  Loader,       \* restore requests (session/load, session/resume) in flight
  Setting,      \* values of the persisted settings
  DefaultSetting,
  Servers,      \* transports of a session's MCP servers, in their order
  MaxMessages,  \* bound: messages one turn adds
  MaxFaults,    \* bound: file system operations that fail
  MaxCrashes,   \* bound: process deaths
  MaxDeletes,   \* bound: session/delete requests
  NoTurn, NoSession, NoMeta, Free, Torn

Transport == {"stdio", "http", "sse"}

ASSUME StoreAssumption ==
  /\ NoTurn \notin Turn
  /\ NoSession \notin Session
  /\ DefaultSetting \in Setting
  /\ NoMeta \notin Setting
  /\ Servers \in Seq(Transport)
  /\ Turn \cap Session = {}
  /\ Free \notin Turn \cup Session
  /\ Torn \notin Turn \X Nat
  /\ MaxMessages \in Nat \ {0}
  /\ MaxFaults \in Nat
  /\ MaxCrashes \in Nat
  /\ MaxDeletes \in Nat

VARIABLES
  live,      \* keys of AdapterState.sessions
  born,      \* ids session/new has handed out
  active,    \* SessionRecord.active_turn
  retired,   \* AdapterState.retired_turns
  history,   \* SessionRecord.history
  settings,  \* SessionRecord.{mode, model, reasoning_effort, max_tokens}
  helper,    \* SessionRecord.{selected_content, selected_content_used}
  disk,      \* the session directory: meta.json, lines of history.jsonl
  lock,      \* holder of the state mutex between two steps
  todo,      \* what the lock holder still has to write
  turn,      \* the prompt turns
  loader,    \* the restore requests
  acked,     \* history variable: a turn's messages whose save reported success
  faults, crashes, deletes   \* counters against the bounds

vars == <<live, born, active, retired, history, settings, helper, disk, lock,
          todo, turn, loader, acked, faults, crashes, deletes>>

memory  == <<live, active, retired, history, settings, helper>>
budgets == <<faults, crashes, deletes>>

Message == Turn \X (1 .. MaxMessages)
Line    == Message \cup {Torn}
Image   == [meta : Setting \cup {NoMeta}, lines : Seq(Line), open : BOOLEAN]
Work    == [at : {"none", "json", "newline"}, lines : Seq(Message)]
TurnRecord ==
  [pc : {"new", "admit", "running", "writing", "save", "failed", "done"},
   on : Session \cup {NoSession}, messages : Seq(Message),
   made : 0 .. MaxMessages, cancelled : BOOLEAN]
LoaderRecord ==
  [pc : {"idle", "meta", "ready"}, on : Session \cup {NoSession},
   meta : Setting \cup {NoMeta}, lines : Seq(Message), left : Seq(Transport)]

EmptyDisk  == [meta |-> NoMeta, lines |-> <<>>, open |-> FALSE]
AtRest(pc) == [pc |-> pc, on |-> NoSession, messages |-> <<>>, made |-> 0,
               cancelled |-> FALSE]
IdleLoader == [pc |-> "idle", on |-> NoSession, meta |-> NoMeta, lines |-> <<>>,
               left |-> <<>>]
NoWork     == [at |-> "none", lines |-> <<>>]

(* A turn that has begun and not yet released its session.                 *)
Executing(t) == turn[t].pc \in {"admit", "running", "writing", "save", "failed"}

(* What a reader finds on disk; one bad line and the whole load fails.     *)
Readable(s) == Torn \notin Range(disk[s].lines)

(* Ordinary sessions are persisted; selected-content helpers never are.    *)
PersistsHelpersToo(s) == s \in Session
Persists(s) == helper[s] = "no"

(* Messages a save still has to append: messages.skip(history.len()).      *)
UnsavedButOne(t) ==
  SubSeq(turn[t].messages, Len(history[turn[t].on]) + 2, Len(turn[t].messages))
UnsavedFromTheStart(t) == turn[t].messages
Unsaved(t) ==
  SubSeq(turn[t].messages, Len(history[turn[t].on]) + 1, Len(turn[t].messages))

---------------------------------------------------------------------------
Init ==
  /\ live = {}
  /\ born = {}
  /\ active   = [s \in Session |-> NoTurn]
  /\ retired  = [s \in Session |-> NoTurn]
  /\ history  = [s \in Session |-> <<>>]
  /\ settings = [s \in Session |-> DefaultSetting]
  /\ helper   = [s \in Session |-> "no"]
  /\ disk     = [s \in Session |-> EmptyDisk]
  /\ lock = Free
  /\ todo = NoWork
  /\ turn   = [t \in Turn |-> AtRest("new")]
  /\ loader = [l \in Loader |-> IdleLoader]
  /\ acked  = [s \in Session |-> {}]
  /\ faults = 0
  /\ crashes = 0
  /\ deletes = 0

---------------------------------------------------------------------------
(* session/new: once its MCP servers are connected, a session with a fresh *)
(* id is published.  Nothing reaches the disk until its first save.        *)
NewSession(s, kind) ==
  /\ lock = Free
  /\ s \notin born
  /\ born' = born \cup {s}
  /\ live' = live \cup {s}
  /\ helper' = [helper EXCEPT ![s] = kind]
  /\ settings' = [settings EXCEPT ![s] = DefaultSetting]
  /\ UNCHANGED <<active, retired, history, disk, lock, todo, turn, loader,
                 acked, budgets>>

(* A turn still running is cancelled, and keeps owning the id of its       *)
(* removed session until its cleanup ends.                                 *)
CancelOnly(s) ==
  /\ turn' = IF active[s] \in Turn
             THEN [turn EXCEPT ![active[s]].cancelled = TRUE] ELSE turn
  /\ UNCHANGED retired
Retire(s) ==
  IF active[s] \in Turn
  THEN /\ retired' = [retired EXCEPT ![s] = active[s]]
       /\ turn' = [turn EXCEPT ![active[s]].cancelled = TRUE]
  ELSE UNCHANGED <<retired, turn>>

(* remove_session: the record goes, its turn is retired.                   *)
RemoveRecord(s) ==
  /\ live' = live \ {s}
  /\ active' = [active EXCEPT ![s] = NoTurn]
  /\ history' = [history EXCEPT ![s] = <<>>]
  /\ settings' = [settings EXCEPT ![s] = DefaultSetting]
  /\ helper' = [helper EXCEPT ![s] = "no"]
  /\ Retire(s)

(* session/close.                                                          *)
Close(s) ==
  /\ lock = Free
  /\ s \in live
  /\ RemoveRecord(s)
  /\ UNCHANGED <<born, disk, lock, todo, loader, acked, budgets>>

(* session/delete: memory, then the directory, under one lock.             *)
Delete(s) ==
  /\ lock = Free
  /\ s \in live \/ disk[s] # EmptyDisk
  /\ deletes < MaxDeletes
  /\ RemoveRecord(s)
  /\ disk' = [disk EXCEPT ![s] = EmptyDisk]
  /\ acked' = [acked EXCEPT ![s] = {}]
  /\ deletes' = deletes + 1
  /\ UNCHANGED <<born, lock, todo, loader, faults, crashes>>

(* remove_dir_all fails part way: memory is gone, each file may remain.    *)
DeleteFails(s) ==
  /\ lock = Free
  /\ disk[s] # EmptyDisk
  /\ deletes < MaxDeletes
  /\ faults < MaxFaults
  /\ RemoveRecord(s)
  /\ disk' \in {[disk EXCEPT ![s] = d] :
       d \in {disk[s], [disk[s] EXCEPT !.meta = NoMeta],
              [disk[s] EXCEPT !.lines = <<>>, !.open = FALSE]}}
  /\ acked' = [acked EXCEPT ![s] = {}]
  /\ faults' = faults + 1
  /\ deletes' = deletes + 1
  /\ UNCHANGED <<born, lock, todo, loader, crashes>>

(* session/cancel: without an active turn it does nothing.                 *)
Cancel(s) ==
  /\ lock = Free
  /\ s \in live
  /\ active[s] \in Turn
  /\ turn' = [turn EXCEPT ![active[s]].cancelled = TRUE]
  /\ UNCHANGED <<born, memory, disk, lock, todo, loader, acked, budgets>>

(* set_mode, set_model, set_reasoning_effort, set_max_tokens: metadata is  *)
(* replaced on disk first (one rename), then published; a failed write     *)
(* changes neither.  Helpers keep their settings in memory only.           *)
UpdateSettings(s, m) ==
  /\ lock = Free
  /\ s \in live
  /\ disk' = IF Persists(s) THEN [disk EXCEPT ![s].meta = m] ELSE disk
  /\ settings' = [settings EXCEPT ![s] = m]
  /\ UNCHANGED <<born, live, active, retired, history, helper, lock, todo,
                 turn, loader, acked, budgets>>

(* /clear on an idle ordinary session: metadata is rewritten, then an      *)
(* empty history is renamed over the old one, then memory is cleared.      *)
ClearMeta(s) ==
  /\ lock = Free
  /\ s \in live
  /\ active[s] = NoTurn
  /\ Persists(s)
  /\ disk' = [disk EXCEPT ![s].meta = settings[s]]
  /\ lock' = s
  /\ UNCHANGED <<born, memory, todo, turn, loader, acked, budgets>>

ClearRename(s) ==
  /\ lock = s
  /\ disk' = [disk EXCEPT ![s] = [@ EXCEPT !.lines = <<>>, !.open = FALSE]]
  /\ history' = [history EXCEPT ![s] = <<>>]
  /\ acked' = [acked EXCEPT ![s] = {}]
  /\ lock' = Free
  /\ UNCHANGED <<born, live, active, retired, settings, helper, todo, turn,
                 loader, budgets>>

(* The rename fails: both conversations stay as they were.                 *)
ClearFails(s) ==
  /\ lock = s
  /\ faults < MaxFaults
  /\ faults' = faults + 1
  /\ lock' = Free
  /\ UNCHANGED <<born, memory, disk, todo, turn, loader, acked, crashes, deletes>>

---------------------------------------------------------------------------
(* begin_turn: a turn claims an idle session, whose history plus the user  *)
(* message becomes the conversation.  A helper admits one turn ever.       *)
Begin(t, s) ==
  /\ lock = Free
  /\ turn[t].pc = "new"
  /\ s \in live
  /\ active[s] = NoTurn
  /\ helper[s] # "used"
  /\ active' = [active EXCEPT ![s] = t]
  /\ helper' = [helper EXCEPT ![s] = IF @ = "no" THEN "no" ELSE "used"]
  /\ turn' = [turn EXCEPT ![t] =
       [pc |-> "admit", on |-> s, messages |-> Append(history[s], <<t, 1>>),
        made |-> 1, cancelled |-> FALSE]]
  /\ UNCHANGED <<born, live, retired, history, settings, disk, lock, todo,
                 loader, acked, budgets>>

(* The provider's answer, or an assistant message and its tool results,    *)
(* joins the conversation; the turn then saves.                            *)
NewMessages(t, n) == [i \in 1 .. n |-> <<t, turn[t].made + i>>]

Produce(t) ==
  /\ turn[t].pc = "running"
  /\ \E n \in 1 .. MaxMessages - turn[t].made :
       turn' = [turn EXCEPT ![t] =
         [turn[t] EXCEPT !.pc = "save", !.messages = @ \o NewMessages(t, n),
                         !.made = @ + n]]
  /\ UNCHANGED <<born, memory, disk, lock, todo, loader, acked, budgets>>

(* A call of the turn sends a file's text to the editor and waits for its  *)
(* answer; the token was looked at before, and cannot end the wait.        *)
AwaitEditor(t) ==
  /\ turn[t].pc = "running"
  /\ ~ turn[t].cancelled
  /\ turn' = [turn EXCEPT ![t].pc = "writing"]
  /\ UNCHANGED <<born, memory, disk, lock, todo, loader, acked, budgets>>

EditorAnswers(t) ==
  /\ turn[t].pc = "writing"
  /\ turn' = [turn EXCEPT ![t].pc = "running"]
  /\ UNCHANGED <<born, memory, disk, lock, todo, loader, acked, budgets>>

Saving(t) == turn[t].pc \in {"admit", "save"}

(* save_history of a removed session or of a helper succeeds and keeps     *)
(* nothing.  Any other save finds its record: its "unknown session" error  *)
(* cannot happen, because the turn owns the id (see Ownership).            *)
DiscardedIfHelper(t) == ~ Persists(turn[t].on)
Discarded(t) == retired[turn[t].on] # NoTurn \/ ~ Persists(turn[t].on)

SaveSkip(t) ==
  /\ lock = Free
  /\ Saving(t)
  /\ Discarded(t)
  /\ turn' = [turn EXCEPT ![t].pc = "running"]
  /\ UNCHANGED <<born, memory, disk, lock, todo, loader, acked, budgets>>

(* save_history, persist_turn: metadata, then the new lines.               *)
SaveMeta(t) ==
  LET s == turn[t].on IN
  /\ lock = Free
  /\ Saving(t)
  /\ ~ Discarded(t)
  /\ disk' = [disk EXCEPT ![s].meta = settings[s]]
  /\ lock' = t
  /\ todo' = [at |-> "json", lines |-> Unsaved(t)]
  /\ UNCHANGED <<born, memory, turn, loader, acked, budgets>>

(* The file when text is appended: text that follows a line without its    *)
(* newline continues that line and spoils it.                              *)
WithText(d, line) ==
  [d EXCEPT !.lines = IF d.open THEN [@ EXCEPT ![Len(@)] = Torn]
                                ELSE Append(@, line),
            !.open = TRUE]

(* append_history writes a message and its newline separately.             *)
WriteJson(t) ==
  LET s == turn[t].on IN
  /\ lock = t
  /\ todo.at = "json"
  /\ todo.lines # <<>>
  /\ disk' = [disk EXCEPT ![s] = WithText(@, Head(todo.lines))]
  /\ todo' = [todo EXCEPT !.at = "newline"]
  /\ UNCHANGED <<born, memory, lock, turn, loader, acked, budgets>>

WriteNewline(t) ==
  /\ lock = t
  /\ todo.at = "newline"
  /\ disk' = [disk EXCEPT ![turn[t].on].open = FALSE]
  /\ todo' = [at |-> "json", lines |-> Tail(todo.lines)]
  /\ UNCHANGED <<born, memory, lock, turn, loader, acked, budgets>>

(* Every line is written: publish the conversation and report success.     *)
SaveCommit(t) ==
  LET s == turn[t].on IN
  /\ lock = t
  /\ todo.at = "json"
  /\ todo.lines = <<>>
  /\ acked' = [acked EXCEPT ![s] = @ \cup
                  {m \in Range(turn[t].messages) : m[1] = t}]
  /\ history' = [history EXCEPT ![s] = turn[t].messages]
  /\ turn' = [turn EXCEPT ![t].pc = "running"]
  /\ lock' = Free
  /\ todo' = NoWork
  /\ UNCHANGED <<born, live, active, retired, settings, helper, disk, loader,
                 budgets>>

(* What an interrupted write can leave: nothing of the next line, or part  *)
(* of it.                                                                  *)
Interrupted(t) ==
  LET s == turn[t].on IN
  {disk} \cup
    IF todo.at = "json" /\ todo.lines # <<>>
    THEN {[disk EXCEPT ![s] = WithText(@, Torn)]}
    ELSE {}

(* A save fails on the metadata, before anything changed.                  *)
SaveMetaFails(t) ==
  /\ lock = Free
  /\ Saving(t)
  /\ ~ Discarded(t)
  /\ faults < MaxFaults
  /\ faults' = faults + 1
  /\ turn' = [turn EXCEPT ![t].pc = "failed"]
  /\ UNCHANGED <<born, memory, disk, lock, todo, loader, acked, crashes, deletes>>

(* A save fails among its lines: the written ones stay, memory does not    *)
(* change, the turn ends with the error.                                   *)
SaveLineFails(t) ==
  /\ lock = t
  /\ todo.lines # <<>>
  /\ faults < MaxFaults
  /\ faults' = faults + 1
  /\ disk' \in Interrupted(t)
  /\ turn' = [turn EXCEPT ![t].pc = "failed"]
  /\ lock' = Free
  /\ todo' = NoWork
  /\ UNCHANGED <<born, memory, loader, acked, crashes, deletes>>

(* clear_active_turn releases what this turn, and only it, still owns.     *)
ReleaseActiveOnly(t, s) ==
  /\ active' = [active EXCEPT ![s] = IF @ = t THEN NoTurn ELSE @]
  /\ UNCHANGED retired
ReleaseSession(t, s) ==
  /\ retired' = [retired EXCEPT ![s] = IF @ = t THEN NoTurn ELSE @]
  /\ active' = [active EXCEPT ![s] = IF @ = t THEN NoTurn ELSE @]

(* The turn is over: answered, cancelled, failed or out of requests.       *)
Finish(t) ==
  /\ lock = Free
  /\ turn[t].pc \in {"running", "failed"}
  /\ ReleaseSession(t, turn[t].on)
  /\ turn' = [turn EXCEPT ![t] = AtRest("done")]
  /\ UNCHANGED <<born, live, history, settings, helper, disk, lock, todo,
                 loader, acked, budgets>>

---------------------------------------------------------------------------
(* restore_persisted_session, off the lock: read_meta, then read_history.  *)
ReadMeta(l, s) ==
  /\ loader[l].pc = "idle"
  /\ disk[s].meta # NoMeta
  /\ loader' = [loader EXCEPT ![l] =
       [pc |-> "meta", on |-> s, meta |-> disk[s].meta, lines |-> <<>>,
        left |-> <<>>]]
  /\ UNCHANGED <<born, memory, disk, lock, todo, turn, acked, budgets>>

(* A missing history file reads as an empty one; a bad line is an error.   *)
ReadHistory(l) ==
  LET s == loader[l].on IN
  /\ loader[l].pc = "meta"
  /\ Readable(s)
  /\ loader' = [loader EXCEPT ![l].pc = "ready", ![l].lines = disk[s].lines,
                              ![l].left = Servers]
  /\ UNCHANGED <<born, memory, disk, lock, todo, turn, acked, budgets>>

(* One after the other, the MCP servers connect and list their tools.  The *)
(* first that fails ends the restore, and so does an SSE server that takes *)
(* more than five seconds; a process or an HTTP server has no limit.       *)
Give(l) ==
  /\ loader' = [loader EXCEPT ![l] = IdleLoader]
  /\ UNCHANGED <<born, memory, disk, lock, todo, turn, acked, budgets>>

Connecting(l) == loader[l].pc = "ready" /\ loader[l].left # <<>>
Connect(l) ==
  /\ Connecting(l)
  /\ loader' = [loader EXCEPT ![l].left = Tail(@)]
  /\ UNCHANGED <<born, memory, disk, lock, todo, turn, acked, budgets>>

ConnectFails(l) == Connecting(l) /\ Give(l)

Limited(transport) == transport = "sse"
SetupTimeout(l) ==
  /\ Connecting(l)
  /\ Limited(Head(loader[l].left))
  /\ Give(l)

(* An id owned by no turn, live or retired, may be replaced.               *)
RestorableDuringCleanup(s) == active[s] = NoTurn
Restorable(s) == retired[s] = NoTurn /\ active[s] = NoTurn

(* The restore is refused: unreadable history, another cwd, a history that *)
(* cannot be replayed, or, once its servers are connected, a session whose *)
(* turn is still active or cleaning up.                                    *)
Refuse(l) ==
  /\ \/ loader[l].pc = "meta"
     \/ /\ lock = Free
        /\ loader[l].pc = "ready"
        /\ loader[l].left = <<>>
        /\ ~ Restorable(loader[l].on)
  /\ Give(l)

(* insert_session_with_resources: after its MCP servers connected, the     *)
(* restore replaces the record by what it read, if no turn owns the id.    *)
Publish(l) ==
  LET s == loader[l].on IN
  /\ lock = Free
  /\ loader[l].pc = "ready"
  /\ loader[l].left = <<>>
  /\ Restorable(s)
  /\ live' = live \cup {s}
  /\ history' = [history EXCEPT ![s] = loader[l].lines]
  /\ settings' = [settings EXCEPT ![s] = loader[l].meta]
  /\ helper' = [helper EXCEPT ![s] = "no"]
  /\ loader' = [loader EXCEPT ![l] = IdleLoader]
  /\ UNCHANGED <<born, active, retired, disk, lock, todo, turn, acked, budgets>>

---------------------------------------------------------------------------
(* The process dies and starts again: only the disk survives, with what an *)
(* interrupted append left in it.                                          *)
Crash ==
  /\ crashes < MaxCrashes
  /\ crashes' = crashes + 1
  /\ disk' \in IF lock \in Turn THEN Interrupted(lock) ELSE {disk}
  /\ live' = {}
  /\ active'   = [s \in Session |-> NoTurn]
  /\ retired'  = [s \in Session |-> NoTurn]
  /\ history'  = [s \in Session |-> <<>>]
  /\ settings' = [s \in Session |-> DefaultSetting]
  /\ helper'   = [s \in Session |-> "no"]
  /\ lock' = Free
  /\ todo' = NoWork
  /\ turn' = [t \in Turn |->
       IF Executing(t) THEN AtRest("done") ELSE turn[t]]
  /\ loader' = [l \in Loader |-> IdleLoader]
  /\ UNCHANGED <<born, acked, faults, deletes>>

TurnStep(t) ==
  \/ Produce(t)
  \/ AwaitEditor(t)
  \/ EditorAnswers(t)
  \/ SaveSkip(t)
  \/ SaveMeta(t)
  \/ WriteJson(t)
  \/ WriteNewline(t)
  \/ SaveCommit(t)
  \/ SaveMetaFails(t)
  \/ SaveLineFails(t)
  \/ Finish(t)

Next ==
  \/ \E s \in Session :
       \/ \E kind \in {"no", "fresh"} : NewSession(s, kind)
       \/ Close(s)
       \/ Delete(s)
       \/ DeleteFails(s)
       \/ Cancel(s)
       \/ \E m \in Setting : UpdateSettings(s, m)
       \/ ClearMeta(s)
       \/ ClearRename(s)
       \/ ClearFails(s)
       \/ \E t \in Turn : Begin(t, s)
       \/ \E l \in Loader : ReadMeta(l, s)
  \/ \E t \in Turn : TurnStep(t)
  \/ \E l \in Loader :
       \/ ReadHistory(l)
       \/ Connect(l)
       \/ ConnectFails(l)
       \/ SetupTimeout(l)
       \/ Refuse(l)
       \/ Publish(l)
  \/ Crash

(* Tokio runs a woken task and a held mutex is released; a waiter for the  *)
(* mutex is eventually granted it (strong fairness: others may take it in  *)
(* between).  A turn that was not cancelled owes nothing: its provider may *)
(* never answer.  Nor does an editor owe an answer to a write.             *)
Fairness ==
  /\ \A t \in Turn : SF_vars(\/ SaveSkip(t) \/ SaveMeta(t) \/ WriteJson(t)
                             \/ WriteNewline(t) \/ SaveCommit(t)
                             \/ turn[t].cancelled /\ Finish(t))
  /\ \A s \in Session : WF_vars(ClearRename(s))

Spec == Init /\ [][Next]_vars
FairSpec == Spec /\ Fairness

---------------------------------------------------------------------------
(* Every variable stays within its type, and an id without a record keeps  *)
(* neither a turn nor a conversation (AdapterState, SessionRecord).        *)
RecordTypes ==
  /\ live \subseteq born
  /\ born \subseteq Session
  /\ active  \in [Session -> Turn \cup {NoTurn}]
  /\ retired \in [Session -> Turn \cup {NoTurn}]
  /\ history \in [Session -> Seq(Message)]
  /\ settings \in [Session -> Setting]
  /\ helper \in [Session -> {"no", "fresh", "used"}]
  /\ \A s \in Session \ live : active[s] = NoTurn /\ history[s] = <<>>
  /\ \A s \in Session \ born : retired[s] = NoTurn
DiskTypes ==
  /\ disk \in [Session -> Image]
  /\ \A s \in Session \ born : disk[s].meta = NoMeta
  /\ acked \in [Session -> SUBSET Message]
WorkTypes ==
  /\ lock \in {Free} \cup Turn \cup Session
  /\ todo \in Work
  /\ todo.at = "newline" => todo.lines # <<>>
TurnTypes == turn \in [Turn -> TurnRecord]
LoaderTypes ==
  /\ loader \in [Loader -> LoaderRecord]
  /\ \A l \in Loader : loader[l].pc # "idle" =>
       loader[l].on \in born /\ loader[l].meta \in Setting
BudgetTypes ==
  /\ faults \in 0 .. MaxFaults
  /\ crashes \in 0 .. MaxCrashes
  /\ deletes \in 0 .. MaxDeletes
TypeOK ==
  RecordTypes /\ DiskTypes /\ WorkTypes /\ TurnTypes /\ LoaderTypes /\ BudgetTypes

(* At most one turn works on a session id at any time, even when the       *)
(* session was closed, deleted and restored while the first was cleaning   *)
(* up (begin_turn, remove_session, insert_session_with_resources).         *)
OneTurnPerSession ==
  \A t, u \in Turn :
    Executing(t) /\ Executing(u) /\ turn[t].on = turn[u].on => t = u

(* Why: a working turn owns its id, through the record or through          *)
(* retired_turns; an owner is a working turn on that id; a retired owner   *)
(* excludes a record; and only the owner of a live session holds the mutex *)
(* to save (active_turn, retired_turns, save_history).                     *)
OwnerInv ==
  /\ \A t \in Turn : Executing(t) =>
       turn[t].on \in Session /\ t \in {active[turn[t].on], retired[turn[t].on]}
  /\ \A s \in Session, t \in Turn :
       t \in {active[s], retired[s]} => Executing(t) /\ turn[t].on = s
  /\ \A s \in live : retired[s] = NoTurn
  /\ lock \in Turn => Saving(lock) /\ active[turn[lock].on] = lock
  /\ lock \in Session => lock \in live /\ active[lock] = NoTurn

(* What a save reported as persisted is in the file, whatever ran or died  *)
(* since, unless the session was cleared or deleted, or the file is        *)
(* unreadable (save_history, persist_turn).                                *)
AckedIsDurable ==
  \A s \in Session : Readable(s) => acked[s] \subseteq Range(disk[s].lines)

(* The file holds each message of a turn once, in the order the turn made  *)
(* them and without gaps: what save_history skips is exactly what earlier  *)
(* saves of the same turn wrote.                                           *)
LinesInOrder ==
  \A s \in Session : Readable(s) =>
    \A j \in DOMAIN disk[s].lines :
      LET m == disk[s].lines[j] IN
      /\ \A i \in 1 .. j - 1 :
           disk[s].lines[i][1] = m[1] => disk[s].lines[i][2] < m[2]
      /\ m[2] > 1 => \E i \in 1 .. j - 1 : disk[s].lines[i] = <<m[1], m[2] - 1>>

(* A selected-content helper leaves nothing on disk: no settings, no       *)
(* question, no answer (save_history, update_settings, clear_history).     *)
HelperIsEphemeral ==
  \A s \in Session : helper[s] # "no" => disk[s] = EmptyDisk

(* Once a session is removed from memory its directory gets nothing new,   *)
(* neither a line nor metadata, until it is restored: a save that was      *)
(* pending cannot resurrect it (delete_session, save_history).             *)
RemovedIsNotWritten ==
  [][\A s \in Session : s \notin live =>
       /\ Len(disk'[s].lines) <= Len(disk[s].lines)
       /\ disk'[s].meta \in {disk[s].meta, NoMeta}]_vars

(* The store keeps the ownership promise of TurnOwnership: a removed       *)
(* session's turn stays the owner through retired_turns.                   *)
Ownership ==
  INSTANCE TurnOwnership WITH
    owner <- [s \in Session |-> IF active[s] # NoTurn THEN active[s]
                                                    ELSE retired[s]],
    working <- {t \in Turn : Executing(t)}
KeepsOwnership == Ownership!Spec

(* A cancelled turn, closed and deleted sessions' turns among them, ends   *)
(* and stops blocking its session id, unless it waits for an editor that   *)
(* never answers a write (clear_active_turn).                              *)
CancelledTurnEnds ==
  \A t \in Turn : turn[t].cancelled ~>
    \/ \A s \in Session : active[s] # t /\ retired[s] # t
    \/ turn[t].pc = "writing"

---------------------------------------------------------------------------
(* Statements of the sources and documents that the code does not meet.    *)

(* turn.rs, run_prompt_turn: "If the process crashes during the next LLM    *)
(* stream, history up to this point is already on disk and can be          *)
(* resumed": a turn at work, its last save done, has a readable file.      *)
StreamingIsResumable ==
  \A t \in Turn, s \in Session :
    turn[t].pc = "running" /\ active[s] = t => Readable(s)
===========================================================================
