------------------------------ MODULE FileEdit ------------------------------
(***************************************************************************)
(* One write_file or edit_file call on one document                        *)
(* (tools/execution/mod.rs): it is read to show the change, read again     *)
(* after the approval, and written.  Each of the two accesses goes to the  *)
(* disk or through the editor, as the client's capabilities say, while the *)
(* user types, saves, deletes and cancels.                                 *)
(*                                                                         *)
(* What permission depends on, the mode among it, is PromptTurn; here an   *)
(* approval comes, is refused, or never comes.                             *)
(***************************************************************************)
EXTENDS Naturals

CONSTANTS
  Text,       \* contents of the document
  Match,      \* those where edit_file's old_text occurs exactly once
  Edited,     \* what edit_file makes of each of them
  NewText,    \* the content given to write_file
  Spoiled,    \* what a local write that fails half way leaves
  MaxChanges, \* bound: changes made by others
  Missing, Clean, NoDiff

ASSUME EditAssumption ==
  /\ Match \subseteq Text
  /\ Edited \in [Match -> Text]
  /\ NewText \in Text
  /\ Spoiled \in Text
  /\ MaxChanges \in Nat
  /\ Missing \notin Text
  /\ Clean \notin Text
  /\ NoDiff \notin [old : Text \cup {Missing}, new : Text]

VARIABLES
  tool,       \* the tool called
  caps,       \* file system capabilities of the client
  disk,       \* the document on disk
  buffer,     \* the editor's unsaved text of it, if any
  pc,         \* the stage of the call
  diff,       \* the change the permission request shows
  cancelled,  \* the turn's cancellation token
  written,    \* the text the call wrote
  base,       \* history variable: the document to be overwritten, as it was
              \* when the call read for the last time
  stoppedAt,  \* history variable: the stage at which the turn was cancelled
  changes     \* counter against MaxChanges

vars == <<tool, caps, disk, buffer, pc, diff, cancelled, written, base,
          stoppedAt, changes>>
setup == <<tool, caps>>
document == <<disk, buffer>>
history == <<base, stoppedAt, changes>>

Document == Text \cup {Missing}
Stage == {"reading", "asking", "rereading", "checked", "writing", "done"}
Diff == [old : Document, new : Text] \cup {NoDiff}

(* The document as the disk or the editor has it.                          *)
Content(place) == IF place = "disk" \/ buffer = Clean THEN disk ELSE buffer

(* Where the call writes, and where it reads: write_file reads what it     *)
(* would overwrite, or nothing if the editor writes but does not read;     *)
(* edit_file reads wherever it can.                                        *)
Target == IF "write" \in caps THEN "editor" ELSE "disk"
Source ==
  IF "read" \in caps /\ (tool = "edit_file" \/ "write" \in caps) THEN "editor"
  ELSE IF tool = "write_file" /\ "write" \in caps THEN "unknown" ELSE "disk"

(* write_file replaces any document, edit_file a unique match.             *)
Changeable(old) == tool = "write_file" \/ old \in Match
Change(old) ==
  [old |-> old, new |-> IF tool = "write_file" THEN NewText ELSE Edited[old]]

---------------------------------------------------------------------------
Init ==
  /\ tool \in {"write_file", "edit_file"}
  /\ caps \in SUBSET {"read", "write"}
  /\ disk \in Document
  /\ buffer \in Text \cup {Clean}
  /\ pc = "reading"
  /\ diff = NoDiff
  /\ cancelled = FALSE
  /\ written = Missing
  /\ base = Missing
  /\ stoppedAt = "none"
  /\ changes = 0

Go(stage) ==
  /\ pc' = stage
  /\ UNCHANGED <<setup, cancelled>>

(* The first read: it fails, or there is nothing to change, or the change  *)
(* is shown.                                                               *)
Read ==
  /\ pc = "reading"
  /\ ~ cancelled
  /\ \/ Go("done") /\ UNCHANGED diff
     \/ Source = "unknown" /\ Go("asking") /\ UNCHANGED diff
     \/ /\ Source # "unknown"
        /\ Changeable(Content(Source))
        /\ diff' = Change(Content(Source))
        /\ Go("asking")
  /\ UNCHANGED <<document, written, history>>

(* The permission gate lets the call go on, or ends it.                    *)
Decide ==
  /\ pc = "asking"
  /\ ~ cancelled
  /\ Go("rereading") \/ Go("done")
  /\ UNCHANGED <<document, diff, written, history>>

(* The second read: the call ends if it fails or finds another document.   *)
AlwaysUnchanged == TRUE
UnchangedSince == Source # "unknown" => Content(Source) = diff.old
Reread ==
  /\ pc = "rereading"
  /\ ~ cancelled
  /\ \/ Go("done") /\ UNCHANGED base
     \/ UnchangedSince /\ Go("checked") /\ base' = Content(Target)
  /\ UNCHANGED <<document, diff, written, stoppedAt, changes>>

(* The last look at the token, and at the mode; then the write is under    *)
(* way.                                                                    *)
NoLook == Go("writing")
Look == IF cancelled THEN Go("done") ELSE Go("writing")
StartWrite ==
  /\ pc = "checked"
  /\ Look \/ Go("done")
  /\ UNCHANGED <<document, diff, written, history>>

(* The write succeeds or fails; the editor saves what it writes.           *)
Write ==
  LET new == IF diff = NoDiff THEN NewText ELSE diff.new IN
  /\ pc = "writing"
  /\ Go("done")
  /\ \/ /\ written' = new
        /\ disk' = new
        /\ buffer' = IF Target = "editor" THEN Clean ELSE buffer
     \/ /\ disk' \in IF Target = "disk" THEN {disk, Spoiled} ELSE {disk}
        /\ UNCHANGED <<buffer, written>>
  /\ UNCHANGED <<diff, history>>

(* The waits for a read and for the approval end with the turn.            *)
WaitsForPrompt == {"asking"}
Waits == {"reading", "asking", "rereading"}
Abandon ==
  /\ pc \in Waits
  /\ cancelled
  /\ Go("done")
  /\ UNCHANGED <<document, diff, written, history>>

---------------------------------------------------------------------------
(* Meanwhile: the user types or saves; anything happens to the file.       *)
Others(d, b) ==
  /\ changes < MaxChanges
  /\ changes' = changes + 1
  /\ disk' = d
  /\ buffer' = b
  /\ UNCHANGED <<setup, pc, diff, cancelled, written, base, stoppedAt>>

Type(t) == Others(disk, t)
SaveBuffer == buffer # Clean /\ Others(buffer, Clean)
ChangeFile(d) == Others(d, buffer)

Cancel ==
  /\ ~ cancelled
  /\ cancelled' = TRUE
  /\ stoppedAt' = pc
  /\ UNCHANGED <<setup, document, pc, diff, written, base, changes>>

Next ==
  \/ Read
  \/ Decide
  \/ Reread
  \/ StartWrite
  \/ Write
  \/ Abandon
  \/ \E t \in Text : Type(t)
  \/ SaveBuffer
  \/ \E d \in Document : ChangeFile(d)
  \/ Cancel

Spec == Init /\ [][Next]_vars

(* The runtime polls the call; the editor may never answer a request, nor  *)
(* the user the prompt.                                                    *)
FairSpec == Spec /\ WF_vars(Abandon) /\ WF_vars(StartWrite)

---------------------------------------------------------------------------
(* Every variable stays within its type; past the first read only a        *)
(* document nobody can read has no diff.                                   *)
TypeOK ==
  /\ tool \in {"write_file", "edit_file"}
  /\ caps \subseteq {"read", "write"}
  /\ disk \in Document
  /\ buffer \in Text \cup {Clean}
  /\ pc \in Stage
  /\ diff \in Diff
  /\ cancelled \in BOOLEAN
  /\ written \in Document
  /\ base \in Document
  /\ stoppedAt \in Stage \cup {"none"}
  /\ changes \in 0 .. MaxChanges
  /\ pc \in {"asking", "rereading", "checked", "writing"} =>
       (diff = NoDiff <=> Source = "unknown")

(* What is written is the change that was shown, and the document it       *)
(* overwrote was, when last read, the one it was shown for: a document     *)
(* changed, created or deleted while the approval was pending is left      *)
(* alone.  A call that reads in one place and writes in the other, as      *)
(* edit_file does if the editor offers only one of the two, has no such    *)
(* promise.                                                                *)
ConflictStopsWrite ==
  written # Missing /\ Source = Target => diff = [old |-> base, new |-> written]

(* A turn cancelled before the write started writes nothing, whatever      *)
(* answers came late (read_existing_text, read_edit_source).             *)
CancelStopsWrite == written # Missing => stoppedAt \in {"none", "writing", "done"}

(* A pending read or approval does not keep a cancelled call active, even  *)
(* if the editor never answers.                                            *)
PendingWaitEnds == cancelled /\ pc \in {"reading", "asking", "rereading"} ~> pc = "done"

=============================================================================
