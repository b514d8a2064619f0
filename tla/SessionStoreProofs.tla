------------------------ MODULE SessionStoreProofs ------------------------
(***************************************************************************)
(* Proofs about SessionStore for every set of sessions, turns and restore  *)
(* requests and every bound.                                               *)
(*                                                                         *)
(* First type correctness, the exclusive ownership of session ids by turns *)
(* and that the store implements TurnOwnership: TypeOK /\ OwnerInv is      *)
(* inductive.  Each part of TypeOK has a lemma with one step per action    *)
(* that touches the part; OwnerInv has one step per action of the store.   *)
(*                                                                         *)
(* Then the files: helpers leave none, a removed session's file does not   *)
(* grow, messages are written once and in order, and what a save           *)
(* acknowledged is there.  The two last rest on a count: while a turn      *)
(* works on a session, Written is the number of its messages the file      *)
(* holds, whatever step of a save the turn is at.                          *)
(***************************************************************************)
EXTENDS SessionStore, SequenceTheorems, TLAPS

USE StoreAssumption DEF Executing, Saving

---------------------------------------------------------------------------
(* Appending text keeps a file's image well formed (append_history).       *)
LEMMA AppendKeepsImage ==
  ASSUME NEW d \in Image, NEW line \in Line
  PROVE  WithText(d, line) \in Image
<1>1. d.lines \in Seq(Line) /\ Torn \in Line
  BY DEF Image, Line
<1>2. Append(d.lines, line) \in Seq(Line)
  BY <1>1
<1>3. [d.lines EXCEPT ![Len(d.lines)] = Torn] \in Seq(Line)
  <2>1. CASE d.lines = <<>>
    <3>1. DOMAIN d.lines = 1 .. 0
      BY <1>1, <2>1
    <3>2. [d.lines EXCEPT ![Len(d.lines)] = Torn] = d.lines
      BY <1>1, <2>1, <3>1
    <3>3. QED
      BY <1>1, <3>2
  <2>2. CASE d.lines # <<>>
    BY <2>2, <1>1, ExceptSeq, EmptySeq, LenProperties
  <2>3. QED
    BY <2>1, <2>2
<1>4. CASE d.open
  BY <1>3, <1>4 DEF WithText, Image
<1>5. CASE ~ d.open
  BY <1>2, <1>5 DEF WithText, Image
<1>6. QED
  BY <1>4, <1>5

(* What the other writes leave in a file keeps its image well formed.      *)
LEMMA ImageUpdates ==
  ASSUME NEW d \in Image
  PROVE  /\ EmptyDisk \in Image
         /\ [d EXCEPT !.open = FALSE] \in Image
         /\ [d EXCEPT !.lines = <<>>, !.open = FALSE] \in Image
         /\ \A m \in Setting \cup {NoMeta} : [d EXCEPT !.meta = m] \in Image
<1>1. <<>> \in Seq(Line) /\ EmptyDisk \in Image
  BY DEF EmptyDisk, Image
<1>2. [d EXCEPT !.open = FALSE] \in Image
  BY DEF Image
<1>3. [d EXCEPT !.lines = <<>>, !.open = FALSE] \in Image
  <2>1. ASSUME NEW e \in Seq(Line)
        PROVE  [d EXCEPT !.lines = e, !.open = FALSE] \in Image
    BY DEF Image
  <2>2. QED
    BY <1>1, <2>1
<1>4. \A m \in Setting \cup {NoMeta} : [d EXCEPT !.meta = m] \in Image
  BY DEF Image
<1>5. QED
  BY <1>1, <1>2, <1>3, <1>4

(* An interrupted append keeps every file's image well formed.             *)
LEMMA InterruptedKeepsDisk ==
  ASSUME DiskTypes, NEW t \in Turn, turn[t].on \in Session,
         NEW d \in Interrupted(t)
  PROVE  d \in [Session -> Image] /\ \A s \in Session : d[s].meta = disk[s].meta
<1>1. Torn \in Line
  BY DEF Line
<1>2. WithText(disk[turn[t].on], Torn) \in Image
  BY <1>1, AppendKeepsImage DEF DiskTypes
<1>3. WithText(disk[turn[t].on], Torn).meta = disk[turn[t].on].meta
  BY DEF DiskTypes, WithText, Image
<1>4. QED
  BY <1>2, <1>3 DEF DiskTypes, Interrupted

(* The messages a save still has to write are messages (save_history).     *)
LEMMA UnsavedAreMessages ==
  ASSUME TypeOK, NEW t \in Turn, turn[t].on \in Session
  PROVE  Unsaved(t) \in Seq(Message)
<1>1. turn[t].messages \in Seq(Message) /\ history[turn[t].on] \in Seq(Message)
  BY DEF TypeOK, RecordTypes, TurnTypes, TurnRecord
<1>2. QED
  BY <1>1 DEF Unsaved

(* A turn record stays one when its progress or its token changes.         *)
LEMMA TurnRecordUpdates ==
  ASSUME NEW r \in TurnRecord
  PROVE  /\ [r EXCEPT !.cancelled = TRUE] \in TurnRecord
         /\ \A pc \in {"running", "writing", "failed"} : [r EXCEPT !.pc = pc] \in TurnRecord
  BY DEF TurnRecord

(* A finished turn keeps nothing; an idle restore has read nothing.        *)
LEMMA IdleRecords ==
  /\ \A pc \in {"new", "done"} : AtRest(pc) \in TurnRecord
  /\ IdleLoader \in LoaderRecord
  BY DEF AtRest, TurnRecord, IdleLoader, LoaderRecord

(* What a restore does between its first read and its publication: it      *)
(* reads the history, connects the MCP servers or gives up.                *)
RestoreStep(l) ==
  ReadHistory(l) \/ Connect(l) \/ ConnectFails(l) \/ SetupTimeout(l) \/ Refuse(l)

(* The two ends of a turn's wait for the editor (write_file_to_client).    *)
EditorWait(t) == AwaitEditor(t) \/ EditorAnswers(t)

(* Until it publishes, a restore changes nothing but itself                *)
(* (restore_persisted_session).                                            *)
LEMMA RestoreOnlyReads ==
  ASSUME NEW l \in Loader, RestoreStep(l)
  PROVE  UNCHANGED <<born, live, active, retired, history, settings, helper,
                     disk, lock, todo, turn, acked, faults, crashes, deletes>>
BY DEF RestoreStep, ReadHistory, Connect, ConnectFails, SetupTimeout, Refuse,
   Give, memory, budgets

(* Removing a record keeps the types of records and turns (remove_session).*)
LEMMA RemoveKeepsRecordTypes ==
  ASSUME TypeOK, NEW s \in Session, RemoveRecord(s), UNCHANGED born
  PROVE  RecordTypes' /\ TurnTypes'
<1> USE DEF RemoveRecord
<1>1. retired' \in [Session -> Turn \cup {NoTurn}]
  BY DEF TypeOK, RecordTypes, Retire
<1>2. history' \in [Session -> Seq(Message)]
  BY DEF TypeOK, RecordTypes
<1>3. s \notin born => retired' = retired
  BY DEF TypeOK, RecordTypes, Retire
<1>4. RecordTypes'
  <2>1. \A z \in Session \ live' : active'[z] = NoTurn /\ history'[z] = <<>>
    BY DEF TypeOK, RecordTypes
  <2>2. \A z \in Session \ born' : retired'[z] = NoTurn
    BY <1>3 DEF TypeOK, RecordTypes, Retire
  <2>3. /\ live' \subseteq born' /\ born' \subseteq Session
        /\ active' \in [Session -> Turn \cup {NoTurn}]
        /\ settings' \in [Session -> Setting]
        /\ helper' \in [Session -> {"no", "fresh", "used"}]
    BY DEF TypeOK, RecordTypes
  <2>4. QED
    BY <1>1, <1>2, <2>1, <2>2, <2>3 DEF RecordTypes
<1>5. TurnTypes'
  <2>1. CASE active[s] \in Turn
    <3>1. turn[active[s]] \in TurnRecord
      BY <2>1 DEF TypeOK, TurnTypes
    <3>2. [turn[active[s]] EXCEPT !.cancelled = TRUE] \in TurnRecord
      BY <3>1, TurnRecordUpdates
    <3>3. turn' = [turn EXCEPT ![active[s]] = [turn[active[s]] EXCEPT !.cancelled = TRUE]]
      BY <2>1 DEF Retire
    <3>4. QED
      BY <2>1, <3>2, <3>3 DEF TypeOK, TurnTypes
  <2>2. CASE active[s] \notin Turn
    BY <2>2 DEF TypeOK, TurnTypes, Retire
  <2>3. QED
    BY <2>1, <2>2
<1>6. QED
  BY <1>4, <1>5

(* Session records stay well formed (every handler that touches one).       *)
LEMMA RecordStep ==
  ASSUME TypeOK, OwnerInv, [Next]_vars
  PROVE  RecordTypes'
<1> USE DEF TypeOK, RecordTypes
<1>1. ASSUME NEW s \in Session, NEW kind \in {"no", "fresh"}, NewSession(s, kind)
      PROVE  RecordTypes'
  BY <1>1 DEF NewSession
<1>2. ASSUME NEW s \in Session, Close(s) PROVE RecordTypes'
  BY <1>2, RemoveKeepsRecordTypes DEF Close
<1>3. ASSUME NEW s \in Session, Delete(s) PROVE RecordTypes'
  BY <1>3, RemoveKeepsRecordTypes DEF Delete
<1>4. ASSUME NEW s \in Session, DeleteFails(s) PROVE RecordTypes'
  BY <1>4, RemoveKeepsRecordTypes DEF DeleteFails
<1>5. ASSUME NEW s \in Session, NEW m \in Setting, UpdateSettings(s, m)
      PROVE  RecordTypes'
  BY <1>5 DEF UpdateSettings
<1>6. ASSUME NEW s \in Session, ClearRename(s) PROVE RecordTypes'
  BY <1>6 DEF ClearRename
<1>7. ASSUME NEW s \in Session, NEW t \in Turn, Begin(t, s) PROVE RecordTypes'
  BY <1>7 DEF Begin
<1>8. ASSUME NEW t \in Turn, SaveCommit(t) PROVE RecordTypes'
  <2>1. /\ turn[t].on \in live
        /\ turn[t].messages \in Seq(Message)
    BY <1>8 DEF SaveCommit, OwnerInv, TurnTypes, TurnRecord
  <2>2. QED
    BY <1>8, <2>1 DEF SaveCommit
<1>9. ASSUME NEW t \in Turn, Finish(t) PROVE RecordTypes'
  <2>1. turn[t].on \in Session
    BY <1>9 DEF Finish, OwnerInv
  <2>2. QED
    BY <1>9, <2>1 DEF Finish, ReleaseSession
<1>10. ASSUME NEW l \in Loader, Publish(l) PROVE RecordTypes'
  <2>1. /\ loader[l].on \in born
        /\ loader[l].lines \in Seq(Message)
        /\ loader[l].meta \in Setting
    BY <1>10 DEF Publish, LoaderTypes, LoaderRecord
  <2>2. QED
    BY <1>10, <2>1 DEF Publish
<1>11. CASE Crash
  BY <1>11 DEF Crash
<1>12. ASSUME NEW s \in Session,
             Cancel(s) \/ ClearMeta(s) \/ ClearFails(s)
      PROVE  RecordTypes'
  BY <1>12 DEF Cancel, ClearMeta, ClearFails, memory, budgets
<1>13. ASSUME NEW t \in Turn,
             Produce(t) \/ EditorWait(t) \/ SaveSkip(t) \/ SaveMeta(t)
               \/ WriteJson(t) \/ WriteNewline(t) \/ SaveMetaFails(t) \/ SaveLineFails(t)
      PROVE  RecordTypes'
  BY <1>13 DEF Produce, EditorWait, AwaitEditor, EditorAnswers, SaveSkip,
     SaveMeta, WriteJson, WriteNewline, SaveMetaFails, SaveLineFails, memory,
     budgets
<1>14. ASSUME NEW l \in Loader, NEW s \in Session,
             ReadMeta(l, s)
      PROVE  RecordTypes'
  BY <1>14 DEF ReadMeta, memory, budgets
<1>15. ASSUME NEW l \in Loader, RestoreStep(l) PROVE RecordTypes'
  BY <1>15, RestoreOnlyReads
<1>16. CASE UNCHANGED vars
  BY <1>16 DEF vars
<1>17. QED
  BY <1>1, <1>2, <1>3, <1>4, <1>5, <1>6, <1>7, <1>8, <1>9, <1>10, <1>11,
     <1>12, <1>13, <1>14, <1>15, <1>16
     DEF Next, TurnStep, EditorWait, RestoreStep

(* Files stay well formed.                                                 *)
LEMMA DiskStep ==
  ASSUME TypeOK, OwnerInv, [Next]_vars
  PROVE  DiskTypes'
<1> USE DEF TypeOK, DiskTypes
<1>1. ASSUME NEW s \in Session, NEW kind \in {"no", "fresh"}, NewSession(s, kind)
      PROVE  DiskTypes'
  BY <1>1 DEF NewSession
<1>2. ASSUME NEW s \in Session, Delete(s) PROVE DiskTypes'
  <2>1. EmptyDisk \in Image /\ EmptyDisk.meta = NoMeta
    BY ImageUpdates DEF EmptyDisk
  <2>2. QED
    BY <1>2, <2>1 DEF Delete
<1>3. ASSUME NEW s \in Session, DeleteFails(s) PROVE DiskTypes'
  <2>1. PICK d \in {disk[s], [disk[s] EXCEPT !.meta = NoMeta],
                    [disk[s] EXCEPT !.lines = <<>>, !.open = FALSE]} :
          disk' = [disk EXCEPT ![s] = d]
    BY <1>3 DEF DeleteFails
  <2>2. disk[s] \in Image
    OBVIOUS
  <2>3. d \in Image
    <3>1. [disk[s] EXCEPT !.meta = NoMeta] \in Image
      BY <2>2, ImageUpdates
    <3>2. [disk[s] EXCEPT !.lines = <<>>, !.open = FALSE] \in Image
      BY <2>2, ImageUpdates
    <3>3. QED
      BY <2>1, <2>2, <3>1, <3>2
  <2>4. s \notin born => d.meta = NoMeta
    BY <2>1, <2>2 DEF EmptyDisk, Image
  <2>5. acked' \in [Session -> SUBSET Message] /\ UNCHANGED born
    BY <1>3 DEF DeleteFails
  <2>6. QED
    BY <2>1, <2>3, <2>4, <2>5
<1>4. ASSUME NEW s \in Session, NEW m \in Setting, UpdateSettings(s, m)
      PROVE  DiskTypes'
  <2>1. [disk[s] EXCEPT !.meta = m] \in Image
    BY ImageUpdates
  <2>2. QED
    BY <1>4, <2>1 DEF UpdateSettings, RecordTypes
<1>5. ASSUME NEW s \in Session, ClearMeta(s) PROVE DiskTypes'
  <2>1. [disk[s] EXCEPT !.meta = settings[s]] \in Image
    BY ImageUpdates DEF RecordTypes
  <2>2. QED
    BY <1>5, <2>1 DEF ClearMeta, RecordTypes
<1>6. ASSUME NEW s \in Session, ClearRename(s) PROVE DiskTypes'
  <2>1. [disk[s] EXCEPT !.lines = <<>>, !.open = FALSE] \in Image
    BY ImageUpdates
  <2>2. [disk[s] EXCEPT !.lines = <<>>, !.open = FALSE].meta = disk[s].meta
    BY DEF Image
  <2>3. QED
    BY <1>6, <2>1, <2>2 DEF ClearRename
<1>7. ASSUME NEW t \in Turn, SaveMeta(t) PROVE DiskTypes'
  <2>1. turn[t].on \in live
    <3>1. Executing(t) /\ turn[t].on \in Session /\ retired[turn[t].on] = NoTurn
      BY <1>7 DEF SaveMeta, Discarded, OwnerInv
    <3>2. active[turn[t].on] = t /\ t # NoTurn
      BY <3>1 DEF OwnerInv
    <3>3. QED
      BY <3>1, <3>2 DEF RecordTypes
  <2>2. [disk[turn[t].on] EXCEPT !.meta = settings[turn[t].on]] \in Image
    BY <2>1, ImageUpdates DEF RecordTypes
  <2>3. QED
    BY <1>7, <2>1, <2>2 DEF SaveMeta, RecordTypes
<1>8. ASSUME NEW t \in Turn, WriteJson(t) PROVE DiskTypes'
  <2> DEFINE s == turn[t].on
  <2>1. s \in Session /\ Head(todo.lines) \in Line
    BY <1>8 DEF WriteJson, OwnerInv, WorkTypes, Work, Line
  <2>2. disk[s] \in Image
    BY <2>1
  <2>3. WithText(disk[s], Head(todo.lines)) \in Image
    BY <2>1, <2>2, AppendKeepsImage
  <2>4. WithText(disk[s], Head(todo.lines)).meta = disk[s].meta
    BY <2>2 DEF WithText, Image
  <2>5. disk' = [disk EXCEPT ![s] = WithText(@, Head(todo.lines))]
        /\ UNCHANGED <<born, acked>>
    BY <1>8 DEF WriteJson
  <2> HIDE DEF s
  <2>6. QED
    BY <2>1, <2>3, <2>4, <2>5
<1>9. ASSUME NEW t \in Turn, WriteNewline(t) PROVE DiskTypes'
  <2>1. turn[t].on \in Session
    BY <1>9 DEF WriteNewline, OwnerInv, WorkTypes
  <2>2. [disk[turn[t].on] EXCEPT !.open = FALSE] \in Image
    BY <2>1, ImageUpdates
  <2>3. [disk[turn[t].on] EXCEPT !.open = FALSE].meta = disk[turn[t].on].meta
    BY <2>1 DEF Image
  <2>4. QED
    BY <1>9, <2>1, <2>2, <2>3 DEF WriteNewline
<1>10. ASSUME NEW t \in Turn, SaveCommit(t) PROVE DiskTypes'
  <2>1. turn[t].on \in Session
    BY <1>10 DEF SaveCommit, OwnerInv
  <2>2. Range(turn[t].messages) \subseteq Message
    BY DEF TurnTypes, TurnRecord, Range
  <2>3. QED
    BY <1>10, <2>1, <2>2 DEF SaveCommit
<1>11. ASSUME NEW t \in Turn, SaveLineFails(t) PROVE DiskTypes'
  BY <1>11, InterruptedKeepsDisk DEF SaveLineFails, OwnerInv
<1>12. CASE Crash
  BY <1>12, InterruptedKeepsDisk DEF Crash, OwnerInv
<1>13. ASSUME NEW s \in Session,
             Close(s) \/ Cancel(s) \/ ClearFails(s)
      PROVE  DiskTypes'
  BY <1>13 DEF Close, Cancel, ClearFails, memory, budgets
<1>14. ASSUME NEW s \in Session, NEW t \in Turn, Begin(t, s) PROVE DiskTypes'
  BY <1>14 DEF Begin, memory, budgets
<1>15. ASSUME NEW t \in Turn,
             Produce(t) \/ EditorWait(t) \/ SaveSkip(t) \/ SaveMetaFails(t)
               \/ Finish(t)
      PROVE  DiskTypes'
  BY <1>15 DEF Produce, EditorWait, AwaitEditor, EditorAnswers, SaveSkip,
     SaveMetaFails, Finish, memory, budgets
<1>16. ASSUME NEW l \in Loader, NEW s \in Session,
             ReadMeta(l, s)
      PROVE  DiskTypes'
  BY <1>16 DEF ReadMeta, memory, budgets
<1>17. ASSUME NEW l \in Loader,
             RestoreStep(l) \/ Publish(l)
      PROVE  DiskTypes'
  BY <1>17, RestoreOnlyReads DEF Publish, budgets
<1>18. CASE UNCHANGED vars
  BY <1>18 DEF vars
<1>19. QED
  BY <1>1, <1>2, <1>3, <1>4, <1>5, <1>6, <1>7, <1>8, <1>9, <1>10, <1>11,
     <1>12, <1>13, <1>14, <1>15, <1>16, <1>17, <1>18
     DEF Next, TurnStep, EditorWait, RestoreStep

(* The mutex and the work of its holder stay well formed.                  *)
LEMMA WorkStep ==
  ASSUME TypeOK, OwnerInv, [Next]_vars
  PROVE  WorkTypes'
<1> USE DEF TypeOK, WorkTypes
<1>1. ASSUME NEW s \in Session, ClearMeta(s) PROVE WorkTypes'
  BY <1>1 DEF ClearMeta, memory, budgets
<1>2. ASSUME NEW s \in Session, ClearRename(s) PROVE WorkTypes'
  BY <1>2 DEF ClearRename
<1>3. ASSUME NEW s \in Session, ClearFails(s) PROVE WorkTypes'
  BY <1>3 DEF ClearFails
<1>4. ASSUME NEW t \in Turn, SaveMeta(t) PROVE WorkTypes'
  BY <1>4, UnsavedAreMessages DEF SaveMeta, OwnerInv, Work
<1>5. ASSUME NEW t \in Turn, WriteJson(t) PROVE WorkTypes'
  BY <1>5 DEF WriteJson, Work
<1>6. ASSUME NEW t \in Turn, WriteNewline(t) PROVE WorkTypes'
  BY <1>6 DEF WriteNewline, Work
<1>7. ASSUME NEW t \in Turn, SaveCommit(t) PROVE WorkTypes'
  BY <1>7 DEF SaveCommit, NoWork, Work
<1>8. ASSUME NEW t \in Turn, SaveLineFails(t) PROVE WorkTypes'
  BY <1>8 DEF SaveLineFails, NoWork, Work
<1>9. CASE Crash
  BY <1>9 DEF Crash, NoWork, Work
<1>10. ASSUME NEW s \in Session, NEW kind \in {"no", "fresh"},
             NewSession(s, kind)
      PROVE  WorkTypes'
  BY <1>10 DEF NewSession, memory, budgets
<1>11. ASSUME NEW s \in Session,
             Close(s) \/ Delete(s) \/ DeleteFails(s) \/ Cancel(s)
      PROVE  WorkTypes'
  BY <1>11 DEF Close, Delete, DeleteFails, Cancel, memory, budgets
<1>12. ASSUME NEW s \in Session, NEW m \in Setting,
             UpdateSettings(s, m)
      PROVE  WorkTypes'
  BY <1>12 DEF UpdateSettings, memory, budgets
<1>13. ASSUME NEW s \in Session, NEW t \in Turn, Begin(t, s) PROVE WorkTypes'
  BY <1>13 DEF Begin, memory, budgets
<1>14. ASSUME NEW t \in Turn,
             Produce(t) \/ EditorWait(t) \/ SaveSkip(t) \/ SaveMetaFails(t)
               \/ Finish(t)
      PROVE  WorkTypes'
  BY <1>14 DEF Produce, EditorWait, AwaitEditor, EditorAnswers, SaveSkip,
     SaveMetaFails, Finish, memory, budgets
<1>15. ASSUME NEW l \in Loader, NEW s \in Session,
             ReadMeta(l, s)
      PROVE  WorkTypes'
  BY <1>15 DEF ReadMeta, memory, budgets
<1>16. ASSUME NEW l \in Loader,
             RestoreStep(l) \/ Publish(l)
      PROVE  WorkTypes'
  BY <1>16, RestoreOnlyReads DEF Publish, budgets
<1>17. CASE UNCHANGED vars
  BY <1>17 DEF vars
<1>18. QED
  BY <1>1, <1>2, <1>3, <1>4, <1>5, <1>6, <1>7, <1>8, <1>9, <1>10, <1>11,
     <1>12, <1>13, <1>14, <1>15, <1>16, <1>17
     DEF Next, TurnStep, EditorWait, RestoreStep

(* Turns stay well formed.                                                 *)
LEMMA TurnTypeStep ==
  ASSUME TypeOK, OwnerInv, [Next]_vars
  PROVE  TurnTypes'
<1> USE DEF TypeOK, TurnTypes
<1>1. ASSUME NEW s \in Session, Close(s) PROVE TurnTypes'
  BY <1>1, RemoveKeepsRecordTypes DEF Close
<1>2. ASSUME NEW s \in Session, Delete(s) PROVE TurnTypes'
  BY <1>2, RemoveKeepsRecordTypes DEF Delete
<1>3. ASSUME NEW s \in Session, DeleteFails(s) PROVE TurnTypes'
  BY <1>3, RemoveKeepsRecordTypes DEF DeleteFails
<1>4. ASSUME NEW s \in Session, Cancel(s) PROVE TurnTypes'
  BY <1>4, TurnRecordUpdates DEF Cancel, RecordTypes
<1>5. ASSUME NEW s \in Session, NEW t \in Turn, Begin(t, s) PROVE TurnTypes'
  <2>1. Append(history[s], <<t, 1>>) \in Seq(Message)
    BY DEF RecordTypes, Message
  <2>2. QED
    BY <1>5, <2>1 DEF Begin, TurnRecord
<1>6. ASSUME NEW t \in Turn, Produce(t) PROVE TurnTypes'
  <2>1. PICK n \in 1 .. MaxMessages - turn[t].made :
          turn' = [turn EXCEPT ![t] =
            [turn[t] EXCEPT !.pc = "save", !.messages = @ \o NewMessages(t, n),
                            !.made = @ + n]]
    BY <1>6 DEF Produce
  <2>2. turn[t] \in TurnRecord
    OBVIOUS
  <2>3. turn[t].messages \in Seq(Message) /\ turn[t].made \in 0 .. MaxMessages
    BY <2>2 DEF TurnRecord
  <2>4. NewMessages(t, n) \in Seq(Message) /\ turn[t].made + n \in 0 .. MaxMessages
    BY <2>3 DEF NewMessages, Message
  <2>5. turn[t].messages \o NewMessages(t, n) \in Seq(Message)
    BY <2>3, <2>4
  <2>6. ASSUME NEW r \in TurnRecord, NEW ms \in Seq(Message), NEW k \in 0 .. MaxMessages
        PROVE  [r EXCEPT !.pc = "save", !.messages = ms, !.made = k] \in TurnRecord
    BY DEF TurnRecord
  <2>7. QED
    <3>1. [turn[t] EXCEPT !.pc = "save", !.messages = @ \o NewMessages(t, n),
                          !.made = @ + n] \in TurnRecord
      BY <2>2, <2>4, <2>5, <2>6
    <3>2. QED
      BY <2>1, <3>1
<1>7. ASSUME NEW t \in Turn, SaveSkip(t) PROVE TurnTypes'
  BY <1>7, TurnRecordUpdates DEF SaveSkip
<1>20. ASSUME NEW t \in Turn, EditorWait(t) PROVE TurnTypes'
  <2>1. CASE AwaitEditor(t)
    BY <2>1, TurnRecordUpdates DEF AwaitEditor
  <2>2. CASE EditorAnswers(t)
    BY <2>2, TurnRecordUpdates DEF EditorAnswers
  <2>3. QED
    BY <1>20, <2>1, <2>2 DEF EditorWait
<1>8. ASSUME NEW t \in Turn, SaveCommit(t) PROVE TurnTypes'
  BY <1>8, TurnRecordUpdates DEF SaveCommit
<1>9. ASSUME NEW t \in Turn, SaveMetaFails(t) PROVE TurnTypes'
  BY <1>9, TurnRecordUpdates DEF SaveMetaFails
<1>10. ASSUME NEW t \in Turn, SaveLineFails(t) PROVE TurnTypes'
  BY <1>10, TurnRecordUpdates DEF SaveLineFails
<1>11. ASSUME NEW t \in Turn, Finish(t) PROVE TurnTypes'
  <2>1. AtRest("done") \in TurnRecord
    BY IdleRecords
  <2>2. QED
    BY <1>11, <2>1 DEF Finish
<1>12. CASE Crash
  <2>1. AtRest("done") \in TurnRecord
    BY IdleRecords
  <2>2. QED
    BY <1>12, <2>1 DEF Crash
<1>13. ASSUME NEW s \in Session, NEW kind \in {"no", "fresh"},
             NewSession(s, kind)
      PROVE  TurnTypes'
  BY <1>13 DEF NewSession, memory, budgets
<1>14. ASSUME NEW s \in Session, NEW m \in Setting,
             UpdateSettings(s, m)
      PROVE  TurnTypes'
  BY <1>14 DEF UpdateSettings, memory, budgets
<1>15. ASSUME NEW s \in Session,
             ClearMeta(s) \/ ClearRename(s) \/ ClearFails(s)
      PROVE  TurnTypes'
  BY <1>15 DEF ClearMeta, ClearRename, ClearFails, memory, budgets
<1>16. ASSUME NEW t \in Turn,
             SaveMeta(t) \/ WriteJson(t) \/ WriteNewline(t)
      PROVE  TurnTypes'
  BY <1>16 DEF SaveMeta, WriteJson, WriteNewline, memory, budgets
<1>17. ASSUME NEW l \in Loader, NEW s \in Session,
             ReadMeta(l, s)
      PROVE  TurnTypes'
  BY <1>17 DEF ReadMeta, memory, budgets
<1>18. ASSUME NEW l \in Loader,
             RestoreStep(l) \/ Publish(l)
      PROVE  TurnTypes'
  BY <1>18, RestoreOnlyReads DEF Publish, budgets
<1>19. CASE UNCHANGED vars
  BY <1>19 DEF vars
<1>21. QED
  BY <1>1, <1>2, <1>3, <1>4, <1>5, <1>6, <1>7, <1>8, <1>9, <1>10, <1>11,
     <1>12, <1>13, <1>14, <1>15, <1>16, <1>17, <1>18, <1>19, <1>20
     DEF Next, TurnStep, EditorWait, RestoreStep

(* Restores stay well formed: one past its first read names a session that  *)
(* exists and settings that were on disk.                                  *)
LEMMA LoaderStep ==
  ASSUME TypeOK, OwnerInv, [Next]_vars
  PROVE  LoaderTypes'
<1> USE DEF TypeOK, LoaderTypes
<1>1. ASSUME NEW s \in Session, NEW kind \in {"no", "fresh"}, NewSession(s, kind)
      PROVE  LoaderTypes'
  BY <1>1 DEF NewSession
<1>2. ASSUME NEW l \in Loader, NEW s \in Session, ReadMeta(l, s)
      PROVE  LoaderTypes'
  BY <1>2 DEF ReadMeta, DiskTypes, RecordTypes, Image, LoaderRecord, memory
<1>3. ASSUME NEW l \in Loader, ReadHistory(l) PROVE LoaderTypes'
  <2>1. disk[loader[l].on].lines \in Seq(Message)
    <3>1. loader[l].on \in Session
      BY <1>3 DEF ReadHistory, RecordTypes
    <3>2. /\ disk[loader[l].on].lines \in Seq(Line)
          /\ Torn \notin Range(disk[loader[l].on].lines)
      BY <1>3, <3>1 DEF ReadHistory, Readable, DiskTypes, Image
    <3>3. QED
      BY <3>2 DEF Line, Range
  <2>2. QED
    BY <1>3, <2>1, ZenonT(60) DEF ReadHistory, LoaderRecord, memory
<1>4. ASSUME NEW l \in Loader, ConnectFails(l) \/ SetupTimeout(l) \/ Refuse(l)
      PROVE  LoaderTypes'
  <2>1. loader' = [loader EXCEPT ![l] = IdleLoader] /\ UNCHANGED born
    BY <1>4 DEF ConnectFails, SetupTimeout, Refuse, Give
  <2>2. QED
    BY <2>1, IdleRecords DEF IdleLoader
<1>12. ASSUME NEW l \in Loader, Connect(l) PROVE LoaderTypes'
  <2>1. loader[l] \in LoaderRecord /\ loader[l].left # <<>>
    BY <1>12 DEF Connect, Connecting
  <2>2. Tail(loader[l].left) \in Seq(Transport)
    BY <2>1 DEF LoaderRecord
  <2>3. [loader[l] EXCEPT !.left = Tail(@)] \in LoaderRecord
    BY <2>1, <2>2 DEF LoaderRecord
  <2>4. loader' = [loader EXCEPT ![l] = [loader[l] EXCEPT !.left = Tail(@)]]
    BY <1>12 DEF Connect
  <2>5. QED
    BY <1>12, <2>1, <2>3, <2>4 DEF Connect, LoaderRecord
<1>5. ASSUME NEW l \in Loader, Publish(l) PROVE LoaderTypes'
  BY <1>5 DEF Publish, LoaderRecord, IdleLoader, memory
<1>6. CASE Crash
  BY <1>6 DEF Crash, LoaderRecord, IdleLoader
<1>7. ASSUME NEW s \in Session,
             Close(s) \/ Delete(s) \/ DeleteFails(s) \/ Cancel(s)
               \/ ClearMeta(s) \/ ClearRename(s) \/ ClearFails(s)
      PROVE  LoaderTypes'
  BY <1>7 DEF Close, Delete, DeleteFails, Cancel, ClearMeta, ClearRename,
     ClearFails, memory, budgets
<1>8. ASSUME NEW s \in Session, NEW m \in Setting,
             UpdateSettings(s, m)
      PROVE  LoaderTypes'
  BY <1>8 DEF UpdateSettings, memory, budgets
<1>9. ASSUME NEW s \in Session, NEW t \in Turn, Begin(t, s) PROVE LoaderTypes'
  BY <1>9 DEF Begin, memory, budgets
<1>10. ASSUME NEW t \in Turn,
             Produce(t) \/ EditorWait(t) \/ SaveSkip(t) \/ SaveMeta(t)
               \/ WriteJson(t) \/ WriteNewline(t) \/ SaveCommit(t) \/ SaveMetaFails(t)
               \/ SaveLineFails(t) \/ Finish(t)
      PROVE  LoaderTypes'
  BY <1>10 DEF Produce, EditorWait, AwaitEditor, EditorAnswers, SaveSkip,
     SaveMeta, WriteJson, WriteNewline, SaveCommit, SaveMetaFails,
     SaveLineFails, Finish, memory, budgets
<1>11. CASE UNCHANGED vars
  BY <1>11 DEF vars
<1>13. QED
  BY <1>1, <1>2, <1>3, <1>4, <1>5, <1>6, <1>7, <1>8, <1>9, <1>10, <1>11, <1>12
     DEF Next, TurnStep, EditorWait

(* The bounds are respected.                                               *)
LEMMA BudgetStep ==
  ASSUME TypeOK, OwnerInv, [Next]_vars
  PROVE  BudgetTypes'
<1> USE DEF TypeOK, BudgetTypes
<1>1. ASSUME NEW s \in Session, NEW kind \in {"no", "fresh"},
             NewSession(s, kind)
      PROVE  BudgetTypes'
  BY <1>1 DEF NewSession, memory, budgets
<1>2. ASSUME NEW s \in Session,
             Close(s) \/ Delete(s) \/ DeleteFails(s) \/ Cancel(s)
               \/ ClearMeta(s) \/ ClearRename(s) \/ ClearFails(s)
      PROVE  BudgetTypes'
  BY <1>2 DEF Close, Delete, DeleteFails, Cancel, ClearMeta, ClearRename,
     ClearFails, memory, budgets
<1>3. ASSUME NEW s \in Session, NEW m \in Setting,
             UpdateSettings(s, m)
      PROVE  BudgetTypes'
  BY <1>3 DEF UpdateSettings, memory, budgets
<1>4. ASSUME NEW s \in Session, NEW t \in Turn, Begin(t, s) PROVE BudgetTypes'
  BY <1>4 DEF Begin, memory, budgets
<1>5. ASSUME NEW t \in Turn,
             Produce(t) \/ EditorWait(t) \/ SaveSkip(t) \/ SaveMeta(t)
               \/ WriteJson(t) \/ WriteNewline(t) \/ SaveCommit(t) \/ SaveMetaFails(t)
               \/ SaveLineFails(t) \/ Finish(t)
      PROVE  BudgetTypes'
  <2>1. UNCHANGED budgets \/ SaveMetaFails(t) \/ SaveLineFails(t)
    BY <1>5 DEF Produce, EditorWait, AwaitEditor, EditorAnswers, SaveSkip,
       SaveMeta, WriteJson, WriteNewline, SaveCommit, Finish, memory
  <2>2. CASE UNCHANGED budgets
    BY <2>2 DEF budgets
  <2>3. CASE SaveMetaFails(t)
    BY <2>3 DEF SaveMetaFails
  <2>4. CASE SaveLineFails(t)
    BY <2>4 DEF SaveLineFails
  <2>5. QED
    BY <2>1, <2>2, <2>3, <2>4
<1>6. ASSUME NEW l \in Loader, NEW s \in Session,
             ReadMeta(l, s)
      PROVE  BudgetTypes'
  BY <1>6 DEF ReadMeta, memory, budgets
<1>7. ASSUME NEW l \in Loader,
             RestoreStep(l) \/ Publish(l)
      PROVE  BudgetTypes'
  BY <1>7, RestoreOnlyReads DEF Publish, budgets
<1>8. CASE Crash
  BY <1>8 DEF Crash, memory, budgets
<1>9. CASE UNCHANGED vars
  BY <1>9 DEF vars
<1>10. QED
  BY <1>1, <1>2, <1>3, <1>4, <1>5, <1>6, <1>7, <1>8, <1>9
     DEF Next, TurnStep, EditorWait, RestoreStep

---------------------------------------------------------------------------
(* Removing a session from memory keeps its turn the owner of the id:      *)
(* remove_session moves the claim to retired_turns.                        *)
LEMMA RemoveKeepsOwners ==
  ASSUME TypeOK, OwnerInv, NEW s \in Session, RemoveRecord(s),
         lock = Free, UNCHANGED lock
  PROVE  OwnerInv'
<1> USE DEF TypeOK, RecordTypes, WorkTypes, TurnTypes, TurnRecord, OwnerInv
<1>1. /\ live' = live \ {s}
      /\ active' = [active EXCEPT ![s] = NoTurn]
  BY DEF RemoveRecord
<1>2. CASE active[s] \in Turn
  <2>1. /\ retired' = [retired EXCEPT ![s] = active[s]]
        /\ \A t \in Turn : turn'[t].pc = turn[t].pc /\ turn'[t].on = turn[t].on
    <3>1. /\ retired' = [retired EXCEPT ![s] = active[s]]
          /\ turn' = [turn EXCEPT ![active[s]] = [@ EXCEPT !.cancelled = TRUE]]
      BY <1>2 DEF RemoveRecord, Retire
    <3>2. QED
      BY <1>2, <3>1
  <2>2. s \in live /\ retired[s] = NoTurn
    BY <1>2
  <2>3. QED
    BY <1>1, <1>2, <2>1, <2>2
<1>3. CASE active[s] \notin Turn
  <2>1. UNCHANGED <<retired, turn>>
    BY <1>3 DEF RemoveRecord, Retire
  <2>2. QED
    BY <1>1, <1>3, <2>1
<1>4. QED
  BY <1>2, <1>3

(* Every step keeps the owners: each action claims, releases, retires or    *)
(* leaves alone, and only an owner starts or continues a save.             *)
LEMMA OwnerStep ==
  ASSUME TypeOK, OwnerInv, [Next]_vars
  PROVE  OwnerInv'
<1> USE DEF TypeOK, RecordTypes, WorkTypes, TurnTypes, TurnRecord, OwnerInv, memory, budgets, AtRest
<1>1. ASSUME NEW s \in Session, NEW kind \in {"no", "fresh"}, NewSession(s, kind)
      PROVE  OwnerInv'
  BY <1>1 DEF NewSession
<1>2. ASSUME NEW s \in Session, Close(s) PROVE OwnerInv'
  BY <1>2, RemoveKeepsOwners DEF Close
<1>3. ASSUME NEW s \in Session, Delete(s) \/ DeleteFails(s) PROVE OwnerInv'
  BY <1>3, RemoveKeepsOwners DEF Delete, DeleteFails
<1>4. ASSUME NEW s \in Session, Cancel(s) PROVE OwnerInv'
  BY <1>4 DEF Cancel
<1>5. ASSUME NEW s \in Session, NEW m \in Setting, UpdateSettings(s, m)
      PROVE  OwnerInv'
  BY <1>5 DEF UpdateSettings
<1>6. ASSUME NEW s \in Session, ClearMeta(s) PROVE OwnerInv'
  BY <1>6 DEF ClearMeta
<1>7. ASSUME NEW s \in Session, ClearRename(s) \/ ClearFails(s) PROVE OwnerInv'
  <2>1. lock' = Free /\ UNCHANGED <<live, active, retired, turn>>
    BY <1>7 DEF ClearRename, ClearFails
  <2>2. QED
    BY <2>1
<1>8. ASSUME NEW s \in Session, NEW t \in Turn, Begin(t, s) PROVE OwnerInv'
  BY <1>8 DEF Begin
<1>9. ASSUME NEW t \in Turn, Produce(t) PROVE OwnerInv'
  <2>1. PICK n \in 1 .. MaxMessages - turn[t].made :
          turn' = [turn EXCEPT ![t] =
            [turn[t] EXCEPT !.pc = "save", !.messages = @ \o NewMessages(t, n),
                            !.made = @ + n]]
    BY <1>9 DEF Produce
  <2>2. /\ turn[t].pc = "running"
        /\ UNCHANGED <<live, active, retired, lock>>
    BY <1>9 DEF Produce
  <2>3. /\ turn'[t].pc = "save" /\ turn'[t].on = turn[t].on
        /\ \A u \in Turn \ {t} : turn'[u] = turn[u]
    BY <2>1
  <2>4. \A u \in Turn : /\ Executing(u)' <=> Executing(u)
                        /\ turn'[u].on = turn[u].on
                        /\ Saving(u) => Saving(u)'
    BY <2>2, <2>3
  <2>5. QED
    BY <2>2, <2>4, SMTT(30)
<1>10. ASSUME NEW t \in Turn, SaveSkip(t) PROVE OwnerInv'
  BY <1>10 DEF SaveSkip
<1>23. ASSUME NEW t \in Turn, EditorWait(t) PROVE OwnerInv'
  <2>1. CASE AwaitEditor(t)
    BY <2>1 DEF AwaitEditor
  <2>2. CASE EditorAnswers(t)
    BY <2>2 DEF EditorAnswers
  <2>3. QED
    BY <1>23, <2>1, <2>2 DEF EditorWait
<1>11. ASSUME NEW t \in Turn, SaveMeta(t) PROVE OwnerInv'
  BY <1>11 DEF SaveMeta, Discarded
<1>12. ASSUME NEW t \in Turn, WriteJson(t) \/ WriteNewline(t) PROVE OwnerInv'
  BY <1>12 DEF WriteJson, WriteNewline
<1>13. ASSUME NEW t \in Turn, SaveCommit(t) PROVE OwnerInv'
  BY <1>13 DEF SaveCommit
<1>14. ASSUME NEW t \in Turn, SaveMetaFails(t) PROVE OwnerInv'
  BY <1>14 DEF SaveMetaFails
<1>15. ASSUME NEW t \in Turn, SaveLineFails(t) PROVE OwnerInv'
  BY <1>15 DEF SaveLineFails
<1>16. ASSUME NEW t \in Turn, Finish(t) PROVE OwnerInv'
  BY <1>16 DEF Finish, ReleaseSession
<1>17. ASSUME NEW l \in Loader, NEW s \in Session, ReadMeta(l, s)
       PROVE  OwnerInv'
  BY <1>17 DEF ReadMeta
<1>18. ASSUME NEW l \in Loader, RestoreStep(l) PROVE OwnerInv'
  BY <1>18, RestoreOnlyReads
<1>19. ASSUME NEW l \in Loader, Publish(l) PROVE OwnerInv'
  BY <1>19 DEF Publish, Restorable
<1>20. CASE Crash
  BY <1>20 DEF Crash
<1>21. CASE UNCHANGED vars
  BY <1>21 DEF vars
<1>22. QED
  BY <1>1, <1>2, <1>3, <1>4, <1>5, <1>6, <1>7, <1>8, <1>9, <1>10, <1>11, <1>12,
     <1>13, <1>14, <1>15, <1>16, <1>17, <1>18, <1>19, <1>20, <1>21, <1>23,
     SMTT(30)
     DEF Next, TurnStep, EditorWait, RestoreStep

---------------------------------------------------------------------------
(* The store starts with no session, no turn and an empty disk.            *)
LEMMA InitInv == Init => TypeOK /\ OwnerInv
<1> SUFFICES ASSUME Init PROVE TypeOK /\ OwnerInv
  OBVIOUS
<1>1. RecordTypes
  BY DEF Init, RecordTypes
<1>2. DiskTypes
  BY DEF Init, DiskTypes, EmptyDisk, Image
<1>3. WorkTypes
  BY DEF Init, WorkTypes, NoWork, Work
<1>4. TurnTypes /\ LoaderTypes
  BY IdleRecords DEF Init, TurnTypes, LoaderTypes, IdleLoader
<1>5. BudgetTypes
  BY DEF Init, BudgetTypes
<1>6. OwnerInv
  BY DEF Init, OwnerInv, AtRest
<1>7. QED
  BY <1>1, <1>2, <1>3, <1>4, <1>5, <1>6 DEF TypeOK

(* Type correctness and the ownership invariant hold in every reachable    *)
(* state of the store.                                                     *)
THEOREM StoreInvariant == Spec => [](TypeOK /\ OwnerInv)
<1>1. TypeOK /\ OwnerInv /\ [Next]_vars => (TypeOK /\ OwnerInv)'
  <2> SUFFICES ASSUME TypeOK, OwnerInv, [Next]_vars
               PROVE  TypeOK' /\ OwnerInv'
    OBVIOUS
  <2>1. RecordTypes' /\ DiskTypes' /\ WorkTypes'
    BY RecordStep, DiskStep, WorkStep
  <2>2. TurnTypes' /\ LoaderTypes' /\ BudgetTypes'
    BY TurnTypeStep, LoaderStep, BudgetStep
  <2>3. OwnerInv'
    BY OwnerStep
  <2>4. QED
    BY <2>1, <2>2, <2>3 DEF TypeOK
<1>2. QED
  BY <1>1, InitInv, PTL DEF Spec

(* Every variable keeps its type, and a removed session keeps no turn and  *)
(* no conversation in memory (remove_session).                             *)
THEOREM StoreTypes == Spec => []TypeOK
  BY StoreInvariant, PTL

(* Turns own the ids they work on, through active_turn or retired_turns.   *)
THEOREM StoreOwnership == Spec => []OwnerInv
  BY StoreInvariant, PTL

(* No two turns ever work on one session id, whatever closes, deletes and  *)
(* restores happen around them (begin_turn, insert_session_with_resources).*)
THEOREM StoreOneTurnPerSession == Spec => []OneTurnPerSession
<1>1. TypeOK /\ OwnerInv => OneTurnPerSession
  <2> SUFFICES ASSUME TypeOK, OwnerInv, NEW t \in Turn, NEW u \in Turn,
                      Executing(t), Executing(u), turn[t].on = turn[u].on
               PROVE  t = u
    BY DEF OneTurnPerSession
  <2> DEFINE s == turn[t].on
  <2>1. s \in Session /\ {t, u} \subseteq {active[s], retired[s]}
    BY DEF OwnerInv
  <2>2. CASE s \in live
    BY <2>1, <2>2 DEF OwnerInv
  <2>3. CASE s \notin live
    BY <2>1, <2>3 DEF TypeOK, RecordTypes
  <2>4. QED
    BY <2>2, <2>3
<1>2. QED
  BY <1>1, StoreInvariant, PTL

---------------------------------------------------------------------------
(* The refinement mapping.                                                 *)
Owner   == [s \in Session |-> IF active[s] # NoTurn THEN active[s] ELSE retired[s]]
Working == {t \in Turn : Executing(t)}

(* A step that disturbs neither an owner nor who is working is a stutter.  *)
LEMMA OwnershipStep ==
  ASSUME TypeOK, OwnerInv, [Next]_vars
  PROVE  [Ownership!Next]_<<Owner, Working>>
<1> USE DEF TypeOK, RecordTypes, TurnTypes, TurnRecord, Owner, Working, memory
<1>1. ASSUME NEW s \in Session, RemoveRecord(s)
      PROVE  UNCHANGED <<Owner, Working>>
  <2>1. Owner' = Owner
    <3>1. active' = [active EXCEPT ![s] = NoTurn]
      BY <1>1 DEF RemoveRecord
    <3>2. retired' = IF active[s] # NoTurn
                     THEN [retired EXCEPT ![s] = active[s]] ELSE retired
      BY <1>1 DEF RemoveRecord, Retire
    <3>3. QED
      BY <3>1, <3>2
  <2>2. \A t \in Turn : turn'[t].pc = turn[t].pc
    <3>1. CASE active[s] \in Turn
      <4>1. turn' = [turn EXCEPT ![active[s]] = [@ EXCEPT !.cancelled = TRUE]]
        BY <1>1, <3>1 DEF RemoveRecord, Retire
      <4>2. QED
        BY <3>1, <4>1
    <3>2. CASE active[s] \notin Turn
      BY <1>1, <3>2 DEF RemoveRecord, Retire
    <3>3. QED
      BY <3>1, <3>2
  <2>3. QED
    BY <2>1, <2>2
<1>2. ASSUME NEW s \in Session, NEW t \in Turn, Begin(t, s)
      PROVE  Ownership!Claim(t, s)
  <2>1. /\ active[s] = NoTurn /\ retired[s] = NoTurn /\ turn[t].pc = "new"
        /\ UNCHANGED retired
        /\ active' = [active EXCEPT ![s] = t]
    BY <1>2 DEF Begin, OwnerInv
  <2>2. Owner' = [Owner EXCEPT ![s] = t]
    BY <2>1
  <2>3. /\ turn'[t].pc = "admit"
        /\ \A u \in Turn \ {t} : turn'[u] = turn[u]
    BY <1>2 DEF Begin
  <2>4. Working' = Working \cup {t} /\ t \notin Working
    BY <2>1, <2>3
  <2>5. Owner[s] = NoTurn
    BY <2>1
  <2>6. QED
    BY <2>2, <2>4, <2>5 DEF Ownership!Claim
<1>3. ASSUME NEW t \in Turn, Finish(t)
      PROVE  \E s \in Session : Ownership!Release(t, s)
  <2> DEFINE s == turn[t].on
  <2>1. /\ Executing(t) /\ s \in Session /\ t \in {active[s], retired[s]}
        /\ active[s] # NoTurn => retired[s] = NoTurn
    BY <1>3 DEF Finish, OwnerInv
  <2>2. /\ active' = [active EXCEPT ![s] = IF @ = t THEN NoTurn ELSE @]
        /\ retired' = [retired EXCEPT ![s] = IF @ = t THEN NoTurn ELSE @]
    BY <1>3 DEF Finish, ReleaseSession
  <2>3. turn' = [turn EXCEPT ![t] = AtRest("done")]
    BY <1>3 DEF Finish
  <2>4. Working' = Working \ {t} /\ t \in Working
    BY <2>1, <2>3 DEF AtRest
  <2> HIDE DEF s
  <2>5. Owner[s] = t /\ Owner' = [Owner EXCEPT ![s] = NoTurn]
    BY <2>1, <2>2
  <2>6. QED
    BY <2>1, <2>4, <2>5 DEF Ownership!Release
<1>4. CASE Crash
  <2>1. Owner' = [s \in Session |-> NoTurn]
    BY <1>4 DEF Crash
  <2>2. Working' = {}
    BY <1>4 DEF Crash, AtRest
  <2>3. QED
    BY <2>1, <2>2 DEF Ownership!Next, Ownership!Restart
<1>5. ASSUME NEW s \in Session, NEW kind \in {"no", "fresh"}, NewSession(s, kind)
      PROVE  UNCHANGED <<Owner, Working>>
  BY <1>5 DEF NewSession
<1>6. ASSUME NEW s \in Session, Close(s) \/ Delete(s) \/ DeleteFails(s)
      PROVE  UNCHANGED <<Owner, Working>>
  BY <1>1, <1>6 DEF Close, Delete, DeleteFails
<1>7. ASSUME NEW s \in Session, Cancel(s) PROVE UNCHANGED <<Owner, Working>>
  BY <1>7 DEF Cancel
<1>8. ASSUME NEW s \in Session, NEW m \in Setting, UpdateSettings(s, m)
      PROVE  UNCHANGED <<Owner, Working>>
  BY <1>8 DEF UpdateSettings
<1>9. ASSUME NEW s \in Session, ClearMeta(s) \/ ClearRename(s) \/ ClearFails(s)
      PROVE  UNCHANGED <<Owner, Working>>
  BY <1>9 DEF ClearMeta, ClearRename, ClearFails
<1>10. ASSUME NEW t \in Turn, Produce(t) PROVE UNCHANGED <<Owner, Working>>
  BY <1>10 DEF Produce
<1>11. ASSUME NEW t \in Turn, SaveMeta(t) \/ WriteJson(t) \/ WriteNewline(t)
       PROVE  UNCHANGED <<Owner, Working>>
  BY <1>11 DEF SaveMeta, WriteJson, WriteNewline
<1>12. ASSUME NEW t \in Turn,
              EditorWait(t) \/ SaveSkip(t) \/ SaveCommit(t) \/ SaveMetaFails(t)
                \/ SaveLineFails(t)
       PROVE  UNCHANGED <<Owner, Working>>
  <2>1. UNCHANGED <<active, retired>> /\ Executing(t)
    BY <1>12 DEF EditorWait, AwaitEditor, EditorAnswers, SaveSkip,
       SaveCommit, SaveMetaFails, SaveLineFails, OwnerInv
  <2>2. \E pc \in {"running", "writing", "failed"} :
          turn' = [turn EXCEPT ![t] = [@ EXCEPT !.pc = pc]]
    BY <1>12 DEF EditorWait, AwaitEditor, EditorAnswers, SaveSkip,
       SaveCommit, SaveMetaFails, SaveLineFails
  <2>3. \A u \in Turn : Executing(u)' <=> Executing(u)
    BY <2>1, <2>2
  <2>4. QED
    BY <2>1, <2>3
<1>13. ASSUME NEW l \in Loader,
              (\E s \in Session : ReadMeta(l, s)) \/ RestoreStep(l) \/ Publish(l)
       PROVE  UNCHANGED <<Owner, Working>>
  BY <1>13, RestoreOnlyReads DEF ReadMeta, Publish, memory
<1>14. CASE UNCHANGED vars
  BY <1>14 DEF vars
<1> HIDE DEF TypeOK, Owner, Working
<1>15. ASSUME NEW t \in Turn, TurnStep(t)
       PROVE  Ownership!Next \/ UNCHANGED <<Owner, Working>>
  <2>1. CASE Finish(t)
    BY <1>3, <2>1 DEF Ownership!Next, Ownership!Release
  <2>2. CASE ~ Finish(t)
    BY <1>10, <1>11, <1>12, <1>15, <2>2 DEF TurnStep, EditorWait
  <2>3. QED
    BY <2>1, <2>2
<1>16. ASSUME NEW s \in Session, NEW t \in Turn, Begin(t, s)
       PROVE  Ownership!Next
  BY <1>2, <1>16 DEF Ownership!Next
<1>17. QED
  BY <1>4, <1>5, <1>6, <1>7, <1>8, <1>9, <1>13, <1>14, <1>15, <1>16
     DEF Next, RestoreStep

(* The store implements the ownership promise: begin_turn claims an id     *)
(* nobody owns, the cleanup of the owner releases it, the death of the     *)
(* process releases all, and no other step changes an owner.               *)
THEOREM StoreKeepsOwnership == Spec => KeepsOwnership
<1>1. Init => Ownership!Init
  BY DEF Init, Ownership!Init, AtRest
<1>2. TypeOK /\ OwnerInv /\ [Next]_vars => [Ownership!Next]_<<Owner, Working>>
  BY OwnershipStep
<1>3. QED
  BY <1>1, <1>2, StoreInvariant, PTL 
     DEF Spec, KeepsOwnership, Ownership!Spec, Owner, Working

---------------------------------------------------------------------------
(* The files.                                                              *)

Lines(s) == disk[s].lines

(* A turn that owns a live session and whose last save did not fail.       *)
Works(t) ==
  turn[t].pc \in {"admit", "running", "writing", "save"} /\ active[turn[t].on] = t

(* Messages of the conversation the turn began with, and those of its own  *)
(* that the file holds.                                                    *)
Before(t) == Len(turn[t].messages) - turn[t].made
Written(t) ==
  IF lock = t
  THEN turn[t].made - Len(todo.lines) + (IF todo.at = "newline" THEN 1 ELSE 0)
  ELSE Len(history[turn[t].on]) - Before(t)

(* The conversation of a turn ends with the messages it made, and the      *)
(* record holds what was saved of them.                                    *)
Conversation(t) ==
  /\ 0 <= Before(t)
  /\ Before(t) <= Len(history[turn[t].on])
  /\ Len(history[turn[t].on]) <= Len(turn[t].messages)
  /\ \A i \in 1 .. Len(turn[t].messages) :
       IF i > Before(t) THEN turn[t].messages[i] = <<t, i - Before(t)>>
                        ELSE turn[t].messages[i][1] # t

(* A save under way still has to write the last messages of its turn.      *)
Pending(t) ==
  lock = t =>
    /\ Len(todo.lines) <= Len(turn[t].messages) - Len(history[turn[t].on])
    /\ \A i \in 1 .. Len(todo.lines) :
         todo.lines[i] = <<t, turn[t].made - Len(todo.lines) + i>>
OnDisk(t) ==
  Readable(turn[t].on) =>
    \A k \in 1 .. MaxMessages :
      <<t, k>> \in Range(Lines(turn[t].on)) <=> k <= Written(t)
SavingInv == \A t \in Turn : Works(t) => Conversation(t) /\ Pending(t) /\ OnDisk(t)

(* A turn that has not begun has left no message anywhere.                 *)
Absent(t, lines) == \A k \in 1 .. MaxMessages : <<t, k>> \notin Range(lines)
FreshInv ==
  \A t \in Turn : turn[t].pc = "new" =>
    /\ \A s \in Session : Absent(t, Lines(s)) /\ Absent(t, history[s])
    /\ \A l \in Loader : Absent(t, loader[l].lines)
    /\ \A u \in Turn : Absent(t, turn[u].messages)

(* Only a line can miss its newline.                                       *)
OpenInv == \A s \in Session : disk[s].open => Lines(s) # <<>>

(* A helper and an id not yet handed out have no file, and whoever holds   *)
(* the mutex to write is at an ordinary session.                           *)
HelperInv ==
  /\ \A s \in Session : helper[s] # "no" \/ s \notin born => disk[s] = EmptyDisk
  /\ lock \in Turn => helper[turn[lock].on] = "no"
  /\ lock \in Session => helper[lock] = "no"

---------------------------------------------------------------------------
(* What a step does to the lines of one file, and to what was acknowledged *)
(* of them.                                                                *)
Kept(s) ==
  /\ Lines(s)' = Lines(s)
  /\ \/ acked'[s] \subseteq acked[s]
     \/ \E t \in Turn : SaveCommit(t) /\ turn[t].on = s
Gone(s) == Lines(s)' = <<>> /\ acked'[s] = {} /\ active'[s] = NoTurn
Grows(s) ==
  \E t \in Turn :
    /\ WriteJson(t)
    /\ turn[t].on = s
    /\ Lines(s)' = Append(Lines(s), Head(todo.lines))
    /\ acked' = acked
Spoils(s) ==
  /\ lock \in Turn
  /\ turn[lock].on = s
  /\ ~ Readable(s)'
  /\ Range(Lines(s)') \subseteq Range(Lines(s)) \cup {Torn}

(* Text appended to a file adds its line, or spoils the one it continues.  *)
LEMMA TextAppended ==
  ASSUME NEW d \in Image, NEW line \in Line, d.open => d.lines # <<>>
  PROVE  /\ WithText(d, line).lines # <<>>
         /\ ~ d.open => WithText(d, line).lines = Append(d.lines, line)
         /\ d.open => /\ Torn \in Range(WithText(d, line).lines)
                      /\ Range(WithText(d, line).lines) \subseteq Range(d.lines) \cup {Torn}
<1>1. d.lines \in Seq(Line) /\ Len(d.lines) \in Nat
  BY DEF Image
<1>2. CASE ~ d.open
  <2>1. WithText(d, line).lines = Append(d.lines, line)
    BY <1>2 DEF WithText, Image
  <2>2. Append(d.lines, line) # <<>>
    BY <1>1, AppendProperties
  <2>3. QED
    BY <1>2, <2>1, <2>2
<1>3. CASE d.open
  <2> DEFINE spoilt == [d.lines EXCEPT ![Len(d.lines)] = Torn]
  <2>1. WithText(d, line).lines = spoilt
    BY <1>3 DEF WithText, Image
  <2>2. Len(d.lines) \in 1 .. Len(d.lines) /\ DOMAIN d.lines = 1 .. Len(d.lines)
    BY <1>1, <1>3, EmptySeq, LenProperties
  <2>3. /\ DOMAIN spoilt = 1 .. Len(d.lines)
        /\ spoilt[Len(d.lines)] = Torn
        /\ \A i \in 1 .. Len(d.lines) : spoilt[i] \in {d.lines[i], Torn}
    BY <2>2
  <2>4. spoilt # <<>>
    BY <2>2, <2>3, EmptySeq
  <2>5. Torn \in Range(spoilt) /\ Range(spoilt) \subseteq Range(d.lines) \cup {Torn}
    BY <2>2, <2>3 DEF Range
  <2>6. QED
    BY <1>3, <2>1, <2>4, <2>5
<1>4. QED
  BY <1>2, <1>3

(* An interrupted append keeps a file's lines, or spoils it.               *)
LEMMA InterruptedFile ==
  ASSUME TypeOK, OwnerInv, OpenInv, lock \in Turn, disk' \in Interrupted(lock),
         NEW s \in Session
  PROVE  disk'[s] = disk[s] \/ (Spoils(s) /\ Lines(s)' # <<>>)
<1>1. turn[lock].on \in Session /\ disk[turn[lock].on] \in Image /\ Torn \in Line
  BY DEF OwnerInv, TypeOK, DiskTypes, Line
<1>2. CASE disk' = disk
  BY <1>2
<1>3. CASE disk' = [disk EXCEPT ![turn[lock].on] = WithText(@, Torn)]
  <2>1. CASE turn[lock].on # s
    BY <1>3, <2>1 DEF TypeOK, DiskTypes
  <2>2. CASE turn[lock].on = s
    <3> DEFINE d == disk[s]
    <3>1. disk'[s] = WithText(d, Torn)
      BY <1>3, <2>2 DEF TypeOK, DiskTypes
    <3>2. d \in Image /\ (d.open => d.lines # <<>>)
      BY <1>1, <2>2 DEF OpenInv, Lines
    <3>3. /\ WithText(d, Torn).lines # <<>>
          /\ Torn \in Range(WithText(d, Torn).lines)
          /\ Range(WithText(d, Torn).lines) \subseteq Range(d.lines) \cup {Torn}
      <4>1. CASE d.open
        BY <1>1, <3>2, <4>1, TextAppended
      <4>2. CASE ~ d.open
        <5>1. WithText(d, Torn).lines = Append(d.lines, Torn) /\ d.lines \in Seq(Line)
          BY <1>1, <3>2, <4>2, TextAppended DEF Image
        <5>2. /\ Append(d.lines, Torn) # <<>>
              /\ DOMAIN Append(d.lines, Torn) = 1 .. Len(d.lines) + 1
              /\ DOMAIN d.lines = 1 .. Len(d.lines) /\ Len(d.lines) \in Nat
              /\ Append(d.lines, Torn)[Len(d.lines) + 1] = Torn
              /\ \A i \in 1 .. Len(d.lines) : Append(d.lines, Torn)[i] = d.lines[i]
          BY <1>1, <5>1, AppendProperties, SMTT(30)
        <5>3. Torn \in Range(Append(d.lines, Torn))
          BY <5>2 DEF Range
        <5>4. \A i \in 1 .. Len(d.lines) + 1 :
                Append(d.lines, Torn)[i] \in Range(d.lines) \cup {Torn}
          BY <5>2, SMTT(30) DEF Range
        <5>5. QED
          BY <5>1, <5>2, <5>3, <5>4 DEF Range
      <4>3. QED
        BY <4>1, <4>2
    <3>4. QED
      BY <2>2, <3>1, <3>3 DEF Spoils, Readable, Lines
  <2>3. QED
    BY <2>1, <2>2
<1>4. QED
  BY <1>2, <1>3 DEF Interrupted

(* A line can miss its newline only if there is a line (append_history).   *)
LEMMA OpenStep ==
  ASSUME TypeOK, OwnerInv, OpenInv, [Next]_vars
  PROVE  OpenInv'
<1> USE DEF OpenInv, Lines
<1>0. ASSUME NEW z, NEW d, disk' = [disk EXCEPT ![z] = d],
             d.open => d.lines # <<>>
      PROVE  OpenInv'
  BY <1>0 DEF TypeOK, DiskTypes
<1>1. ASSUME NEW z \in Session, NEW d, disk' = [disk EXCEPT ![z] = d],
             \/ ~ d.open
             \/ d.open = disk[z].open /\ d.lines = disk[z].lines
      PROVE  OpenInv'
  BY <1>0, <1>1
<1>2. ASSUME NEW s \in Session,
             \/ Delete(s) \/ DeleteFails(s) \/ ClearRename(s) \/ ClearMeta(s)
             \/ \E m \in Setting : UpdateSettings(s, m)
      PROVE  OpenInv'
  <2>1. disk[s] \in Image
    BY DEF TypeOK, DiskTypes
  <2>2. /\ ~ EmptyDisk.open
        /\ ~ [disk[s] EXCEPT !.lines = <<>>, !.open = FALSE].open
        /\ \A m : [disk[s] EXCEPT !.meta = m].open = disk[s].open
                /\ [disk[s] EXCEPT !.meta = m].lines = disk[s].lines
    BY <2>1 DEF EmptyDisk, Image
  <2>3. CASE Delete(s)
    BY <1>1, <2>2, <2>3 DEF Delete
  <2>4. CASE DeleteFails(s)
    <3>1. PICK d \in {disk[s], [disk[s] EXCEPT !.meta = NoMeta],
                      [disk[s] EXCEPT !.lines = <<>>, !.open = FALSE]} :
            disk' = [disk EXCEPT ![s] = d]
      BY <2>4 DEF DeleteFails
    <3>2. QED
      BY <1>1, <2>2, <3>1
  <2>5. CASE ClearRename(s)
    BY <1>1, <2>2, <2>5 DEF ClearRename
  <2>6. CASE ClearMeta(s)
    BY <1>1, <2>2, <2>6 DEF ClearMeta
  <2>7. CASE \E m \in Setting : UpdateSettings(s, m)
    BY <1>1, <2>2, <2>7 DEF UpdateSettings
  <2>8. QED
    BY <1>2, <2>3, <2>4, <2>5, <2>6, <2>7
<1>3. ASSUME NEW t \in Turn, SaveMeta(t) \/ WriteNewline(t) PROVE OpenInv'
  <2>1. turn[t].on \in Session /\ disk[turn[t].on] \in Image
    BY <1>3 DEF SaveMeta, WriteNewline, OwnerInv, TypeOK, DiskTypes, WorkTypes
  <2>2. /\ ~ [disk[turn[t].on] EXCEPT !.open = FALSE].open
        /\ \A m : [disk[turn[t].on] EXCEPT !.meta = m].open = disk[turn[t].on].open
                /\ [disk[turn[t].on] EXCEPT !.meta = m].lines = disk[turn[t].on].lines
    BY <2>1 DEF Image
  <2>3. QED
    BY <1>1, <1>3, <2>1, <2>2, ZenonT(60) DEF SaveMeta, WriteNewline
<1>4. ASSUME NEW t \in Turn, WriteJson(t) PROVE OpenInv'
  <2> DEFINE s == turn[t].on
             new == WithText(disk[s], Head(todo.lines))
  <2>1. s \in Session /\ disk[s] \in Image /\ Head(todo.lines) \in Line
    BY <1>4 DEF WriteJson, OwnerInv, TypeOK, DiskTypes, WorkTypes, Work, Line
  <2>2. disk[s].open => disk[s].lines # <<>>
    BY <2>1
  <2>3. new.lines # <<>>
    BY <2>1, <2>2, TextAppended
  <2>4. disk' = [disk EXCEPT ![s] = new]
    BY <1>4 DEF WriteJson
  <2> HIDE DEF s, new
  <2>5. \A z \in Session : disk'[z] = IF z = s THEN new ELSE disk[z]
    BY <2>4 DEF TypeOK, DiskTypes
  <2>6. QED
    BY <2>3, <2>5
<1>5. ASSUME lock \in Turn, disk' \in Interrupted(lock) PROVE OpenInv'
  BY <1>5, InterruptedFile
<1>6. ASSUME NEW t \in Turn, SaveLineFails(t) PROVE OpenInv'
  BY <1>5, <1>6 DEF SaveLineFails
<1>7. CASE Crash
  BY <1>5, <1>7 DEF Crash
<1>8. ASSUME disk' = disk PROVE OpenInv'
  BY <1>8
<1>9. ASSUME NEW s \in Session,
             \/ \E kind \in {"no", "fresh"} : NewSession(s, kind)
             \/ Close(s) \/ Cancel(s) \/ ClearFails(s)
             \/ \E t \in Turn : Begin(t, s)
             \/ \E l \in Loader : ReadMeta(l, s)
      PROVE  disk' = disk
  BY <1>9 DEF NewSession, Close, Cancel, ClearFails, Begin, ReadMeta
<1>10. ASSUME NEW t \in Turn,
              Produce(t) \/ EditorWait(t) \/ SaveSkip(t) \/ SaveCommit(t) \/ SaveMetaFails(t)
                \/ Finish(t)
       PROVE  disk' = disk
  BY <1>10 DEF Produce, EditorWait, AwaitEditor, EditorAnswers, SaveSkip,
     SaveCommit, SaveMetaFails, Finish
<1>11. ASSUME NEW l \in Loader, RestoreStep(l) \/ Publish(l) PROVE disk' = disk
  BY <1>11, RestoreOnlyReads DEF Publish
<1>12. UNCHANGED vars => disk' = disk
  BY DEF vars
<1>13. QED
  BY <1>2, <1>3, <1>4, <1>6, <1>7, <1>8, <1>9, <1>10, <1>11, <1>12
     DEF Next, TurnStep, EditorWait, RestoreStep

(* Every step does one of these to the file of a session.                  *)
LEMMA FileStep ==
  ASSUME TypeOK, OwnerInv, OpenInv, [Next]_vars, NEW s \in Session
  PROVE  Kept(s) \/ Gone(s) \/ Grows(s) \/ Spoils(s)
<1> USE DEF Lines
<1>1. disk \in [Session -> Image] /\ acked \in [Session -> SUBSET Message]
      /\ active \in [Session -> Turn \cup {NoTurn}]
  BY DEF TypeOK, DiskTypes, RecordTypes
<1>2. ASSUME disk'[s].lines = disk[s].lines, acked'[s] \subseteq acked[s]
      PROVE  Kept(s)
  BY <1>2 DEF Kept
<1>3. ASSUME NEW z \in Session, Delete(z) \/ DeleteFails(z)
      PROVE  Kept(s) \/ Gone(s)
  <2>1. /\ active' = [active EXCEPT ![z] = NoTurn]
        /\ acked' = [acked EXCEPT ![z] = {}]
        /\ \E d : disk' = [disk EXCEPT ![z] = d]
    BY <1>3 DEF Delete, DeleteFails, RemoveRecord
  <2>2. CASE z # s
    BY <1>1, <1>2, <2>1, <2>2
  <2>3. CASE z = s
    <3>1. acked'[s] = {} /\ active'[s] = NoTurn
      BY <1>1, <2>1, <2>3
    <3>2. disk'[s].lines \in {<<>>, disk[s].lines}
      <4>1. CASE Delete(z)
        BY <1>1, <2>3, <4>1 DEF Delete, EmptyDisk
      <4>2. CASE DeleteFails(z)
        <5>1. PICK d \in {disk[s], [disk[s] EXCEPT !.meta = NoMeta],
                          [disk[s] EXCEPT !.lines = <<>>, !.open = FALSE]} :
                disk' = [disk EXCEPT ![s] = d]
          BY <2>3, <4>2 DEF DeleteFails
        <5>2. disk[s] \in Image
          BY <1>1
        <5>3. d.lines \in {<<>>, disk[s].lines}
          BY <5>1, <5>2 DEF Image
        <5>4. QED
          BY <1>1, <5>1, <5>3
      <4>3. QED
        BY <1>3, <4>1, <4>2
    <3>3. QED
      BY <1>2, <3>1, <3>2 DEF Gone
  <2>4. QED
    BY <2>2, <2>3
<1>4. ASSUME NEW z \in Session, ClearRename(z) PROVE Kept(s) \/ Gone(s)
  <2>1. CASE z # s
    BY <1>1, <1>2, <1>4, <2>1 DEF ClearRename
  <2>2. CASE z = s
    <3>1. disk'[s].lines = <<>>
      BY <1>1, <1>4, <2>2 DEF ClearRename, Image
    <3>2. active'[s] = NoTurn /\ acked'[s] = {}
      BY <1>1, <1>4, <2>2 DEF ClearRename, OwnerInv
    <3>3. QED
      BY <3>1, <3>2 DEF Gone
  <2>3. QED
    BY <2>1, <2>2
<1>5. ASSUME NEW z, NEW m, disk' = [disk EXCEPT ![z].meta = m], acked' = acked
      PROVE  Kept(s)
  BY <1>1, <1>2, <1>5 DEF Image
<1>6. ASSUME NEW z \in Session,
             ClearMeta(z) \/ \E m \in Setting : UpdateSettings(z, m)
      PROVE  Kept(s)
  <2>1. CASE ClearMeta(z)
    BY <1>5, <2>1 DEF ClearMeta
  <2>2. ASSUME NEW m \in Setting, UpdateSettings(z, m) PROVE Kept(s)
    <3>1. disk' = disk \/ disk' = [disk EXCEPT ![z].meta = m]
      BY <2>2 DEF UpdateSettings
    <3>2. QED
      BY <1>2, <1>5, <2>2, <3>1 DEF UpdateSettings
  <2>3. QED
    BY <1>6, <2>1, <2>2
<1>7. ASSUME NEW t \in Turn, SaveMeta(t) PROVE Kept(s)
  BY <1>5, <1>7 DEF SaveMeta
<1>8. ASSUME NEW t \in Turn, WriteNewline(t) PROVE Kept(s)
  BY <1>1, <1>2, <1>8 DEF WriteNewline, Image
<1>9. ASSUME NEW t \in Turn, WriteJson(t) PROVE Kept(s) \/ Grows(s) \/ Spoils(s)
  <2> DEFINE new == WithText(disk[s], Head(todo.lines))
  <2>1. CASE turn[t].on # s
    BY <1>1, <1>2, <1>9, <2>1 DEF WriteJson
  <2>2. CASE turn[t].on = s
    <3>1. disk[s] \in Image /\ Head(todo.lines) \in Line
          /\ (disk[s].open => disk[s].lines # <<>>)
      BY <1>9 DEF WriteJson, OpenInv, TypeOK, DiskTypes, WorkTypes, Work, Line
    <3>2. disk'[s] = new /\ acked' = acked /\ lock = t
      BY <1>1, <1>9, <2>2 DEF WriteJson
    <3>3. CASE disk[s].open
      <4>1. Torn \in Range(new.lines) /\ Range(new.lines) \subseteq Range(disk[s].lines) \cup {Torn}
        BY <3>1, <3>3, TextAppended
      <4>2. QED
        BY <2>2, <3>2, <4>1 DEF Spoils, Readable
    <3>4. CASE ~ disk[s].open
      <4>1. new.lines = Append(disk[s].lines, Head(todo.lines))
        BY <3>1, <3>4, TextAppended
      <4>2. QED
        BY <1>9, <2>2, <3>2, <4>1 DEF Grows
    <3>5. QED
      BY <3>3, <3>4
  <2>3. QED
    BY <2>1, <2>2
<1>10. ASSUME NEW t \in Turn, SaveCommit(t) PROVE Kept(s)
  <2>1. disk' = disk
    BY <1>10 DEF SaveCommit
  <2>2. turn[t].on # s => acked'[s] = acked[s]
    BY <1>1, <1>10 DEF SaveCommit
  <2>3. QED
    BY <1>10, <2>1, <2>2 DEF Kept
<1>11. ASSUME lock \in Turn, disk' \in Interrupted(lock), acked' = acked
       PROVE  Kept(s) \/ Spoils(s)
  BY <1>2, <1>11, InterruptedFile
<1>12. ASSUME NEW t \in Turn, SaveLineFails(t) PROVE Kept(s) \/ Spoils(s)
  BY <1>11, <1>12 DEF SaveLineFails
<1>13. CASE Crash
  BY <1>2, <1>11, <1>13 DEF Crash
<1>14. ASSUME disk' = disk, acked' = acked PROVE Kept(s)
  BY <1>2, <1>14
<1>15. ASSUME NEW z \in Session,
             \/ \E kind \in {"no", "fresh"} : NewSession(z, kind)
             \/ Close(z) \/ Cancel(z) \/ ClearFails(z)
             \/ \E t \in Turn : Begin(t, z)
             \/ \E l \in Loader : ReadMeta(l, z)
      PROVE  UNCHANGED <<disk, acked>>
  BY <1>15 DEF NewSession, Close, Cancel, ClearFails, Begin, ReadMeta
<1>16. ASSUME NEW t \in Turn,
              Produce(t) \/ EditorWait(t) \/ SaveSkip(t) \/ SaveMetaFails(t)
                \/ Finish(t)
       PROVE  UNCHANGED <<disk, acked>>
  BY <1>16 DEF Produce, EditorWait, AwaitEditor, EditorAnswers, SaveSkip,
     SaveMetaFails, Finish
<1>17. ASSUME NEW l \in Loader, RestoreStep(l) \/ Publish(l)
       PROVE  UNCHANGED <<disk, acked>>
  BY <1>17, RestoreOnlyReads DEF Publish
<1>18. UNCHANGED vars => UNCHANGED <<disk, acked>>
  BY DEF vars
<1>19. QED
  BY <1>3, <1>4, <1>6, <1>7, <1>8, <1>9, <1>10, <1>12, <1>13, <1>14, <1>15,
     <1>16, <1>17, <1>18 DEF Next, TurnStep, EditorWait, RestoreStep

---------------------------------------------------------------------------
(* A turn that works owns a live session.                                  *)
LEMMA WorkerOwns ==
  ASSUME TypeOK, OwnerInv
  PROVE  /\ \A t \in Turn : Works(t) => turn[t].on \in live
         /\ lock \in Turn => Works(lock)
         /\ \A t, u \in Turn : Works(t) /\ Works(u) /\ turn[t].on = turn[u].on => t = u
BY DEF Works, TypeOK, RecordTypes, OwnerInv

(* The steps of a turn that works.                                         *)
Unaffected(t) ==
  /\ Works(t)
  /\ turn'[t].on = turn[t].on
  /\ turn'[t].messages = turn[t].messages
  /\ turn'[t].made = turn[t].made
  /\ history'[turn[t].on] = history[turn[t].on]
  /\ lock' = t <=> lock = t
  /\ lock = t => todo' = todo

(* What makes, or keeps, a turn one that works: its own steps, or one that *)
(* does not affect it.                                                     *)
LEMMA WorkerStep ==
  ASSUME TypeOK, OwnerInv, [Next]_vars, NEW t \in Turn, Works(t)'
  PROVE  \/ \E s \in Session : Begin(t, s)
         \/ Produce(t) \/ SaveMeta(t) \/ WriteJson(t) \/ WriteNewline(t) \/ SaveCommit(t)
         \/ Unaffected(t)
<1> USE DEF Works
<1>1. /\ turn \in [Turn -> TurnRecord]
      /\ active \in [Session -> Turn \cup {NoTurn}]
      /\ history \in [Session -> Seq(Message)]
      /\ lock \in {Free} \cup Turn \cup Session
      /\ t # NoTurn /\ t # Free /\ t \notin Session
  BY DEF TypeOK, RecordTypes, TurnTypes, WorkTypes
<1>2. /\ \A u \in Turn : Executing(u) => turn[u].on \in Session
      /\ lock \in Turn => Works(lock)
      /\ \A s \in Session : active[s] = t => turn[t].on = s
      /\ lock \in Session => active[lock] = NoTurn
  BY WorkerOwns DEF OwnerInv
<1>3. ASSUME NEW s \in Session,
             (\E kind \in {"no", "fresh"} : NewSession(s, kind)) \/ ClearMeta(s)
               \/ ClearFails(s) \/ (\E m \in Setting : UpdateSettings(s, m))
               \/ (\E l \in Loader : ReadMeta(l, s))
      PROVE  Unaffected(t)
  BY <1>1, <1>2, <1>3
     DEF NewSession, ClearMeta, ClearFails, UpdateSettings, ReadMeta, memory, Unaffected
<1>4. ASSUME NEW s \in Session, RemoveRecord(s), UNCHANGED <<lock, todo>>
      PROVE  Unaffected(t)
  <2>1. /\ active' = [active EXCEPT ![s] = NoTurn]
        /\ history' = [history EXCEPT ![s] = <<>>]
        /\ \/ turn' = turn
           \/ /\ active[s] \in Turn
              /\ turn' = [turn EXCEPT ![active[s]] = [@ EXCEPT !.cancelled = TRUE]]
    BY <1>4 DEF RemoveRecord, Retire
  <2>2. /\ turn'[t].pc = turn[t].pc /\ turn'[t].on = turn[t].on
        /\ turn'[t].messages = turn[t].messages /\ turn'[t].made = turn[t].made
    <3>1. turn'[t] \in {turn[t], [turn[t] EXCEPT !.cancelled = TRUE]}
      BY <1>1, <2>1
    <3>2. turn[t] \in TurnRecord
      BY <1>1
    <3>3. QED
      BY <3>1, <3>2 DEF TurnRecord
  <2>3. turn[t].on # s
    BY <1>1, <2>1, <2>2
  <2>4. QED
    BY <1>1, <1>2, <1>4, <2>1, <2>2, <2>3 DEF Unaffected
<1>5. ASSUME NEW s \in Session, Close(s) \/ Delete(s) \/ DeleteFails(s)
      PROVE  Unaffected(t)
  BY <1>4, <1>5 DEF Close, Delete, DeleteFails
<1>6. ASSUME NEW s \in Session, Cancel(s) PROVE Unaffected(t)
  <2>1. /\ turn'[t].pc = turn[t].pc /\ turn'[t].on = turn[t].on
        /\ turn'[t].messages = turn[t].messages /\ turn'[t].made = turn[t].made
    BY <1>1, <1>6 DEF Cancel, TurnRecord
  <2>2. QED
    BY <1>1, <1>6, <2>1 DEF Cancel, memory, Unaffected
<1>7. ASSUME NEW s \in Session, ClearRename(s) PROVE Unaffected(t)
  <2>1. turn[t].on # s
    BY <1>1, <1>2, <1>7 DEF ClearRename
  <2>2. QED
    BY <1>1, <1>7, <2>1 DEF ClearRename, Unaffected
<1>8. ASSUME NEW s \in Session, NEW u \in Turn \ {t}, Begin(u, s) PROVE Unaffected(t)
  <2>1. turn'[t] = turn[t] /\ turn[t].on # s
    BY <1>1, <1>2, <1>8 DEF Begin
  <2>2. QED
    BY <1>1, <1>8, <2>1 DEF Begin, Unaffected
<1>9. ASSUME NEW u \in Turn \ {t}, TurnStep(u) PROVE Unaffected(t)
  <2>1. turn'[t] = turn[t]
    BY <1>1, <1>9 DEF TurnStep, Produce, AwaitEditor, EditorAnswers, SaveSkip,
       SaveMeta, WriteJson, WriteNewline, SaveCommit, SaveMetaFails,
       SaveLineFails, Finish
  <2>2. active'[turn[t].on] = t => active[turn[t].on] = t
    <3>1. CASE Finish(u)
      BY <1>1, <3>1 DEF Finish, ReleaseSession
    <3>2. CASE ~ Finish(u)
      BY <1>9, <3>2 DEF TurnStep, Produce, AwaitEditor, EditorAnswers, SaveSkip,
         SaveMeta, WriteJson, WriteNewline, SaveCommit, SaveMetaFails,
         SaveLineFails, memory
    <3>3. QED
      BY <3>1, <3>2
  <2>3. history'[turn[t].on] = history[turn[t].on]
    <3>1. CASE SaveCommit(u)
      <4>1. lock = u /\ turn[u].on # turn[t].on
        BY <1>1, <1>2, <2>1, <2>2, <3>1, WorkerOwns DEF SaveCommit
      <4>2. QED
        BY <1>1, <3>1, <4>1 DEF SaveCommit
    <3>2. CASE ~ SaveCommit(u)
      BY <1>9, <3>2 DEF TurnStep, Produce, AwaitEditor, EditorAnswers, SaveSkip,
         SaveMeta, WriteJson, WriteNewline, SaveMetaFails, SaveLineFails,
         Finish, memory
    <3>3. QED
      BY <3>1, <3>2
  <2>4. /\ lock' = t <=> lock = t
        /\ lock = t => todo' = todo
    BY <1>1, <1>9 DEF TurnStep, Produce, AwaitEditor, EditorAnswers, SaveSkip,
       SaveMeta, WriteJson, WriteNewline, SaveCommit, SaveMetaFails,
       SaveLineFails, Finish
  <2>5. QED
    BY <2>1, <2>2, <2>3, <2>4 DEF Unaffected
<1>10. ASSUME EditorWait(t) \/ SaveSkip(t) PROVE Unaffected(t)
  BY <1>1, <1>10 DEF EditorWait, AwaitEditor, EditorAnswers, SaveSkip, Unaffected,
     TurnRecord, memory
<1>11. ASSUME SaveMetaFails(t) \/ SaveLineFails(t) \/ Finish(t) PROVE FALSE
  <2>1. turn'[t].pc \in {"failed", "done"}
    <3>1. CASE SaveMetaFails(t) \/ SaveLineFails(t)
      BY <1>1, <3>1 DEF SaveMetaFails, SaveLineFails, TurnRecord
    <3>2. CASE Finish(t)
      BY <1>1, <3>2 DEF Finish, AtRest
    <3>3. QED
      BY <1>11, <3>1, <3>2
  <2>2. QED
    BY <2>1
<1>12. ASSUME NEW l \in Loader, RestoreStep(l) PROVE Unaffected(t)
  BY <1>12, RestoreOnlyReads DEF Unaffected
<1>13. ASSUME NEW l \in Loader, Publish(l) PROVE Unaffected(t)
  <2>1. turn' = turn /\ active' = active /\ turn[t].on # loader[l].on
    BY <1>1, <1>13 DEF Publish, Restorable
  <2>2. QED
    BY <1>1, <1>13, <2>1 DEF Publish, Unaffected
<1>14. CASE Crash
  BY <1>14 DEF Crash, AtRest
<1>15. CASE UNCHANGED vars
  BY <1>15 DEF vars, Unaffected
<1> HIDE DEF Works
<1>16. QED
  BY <1>3, <1>5, <1>6, <1>7, <1>8, <1>9, <1>10, <1>11, <1>12, <1>13, <1>14, <1>15
     DEF Next, TurnStep, EditorWait, RestoreStep

---------------------------------------------------------------------------
(* A file that can be read after a step holds what it held, in order, with *)
(* at most the message its worker just wrote.                              *)
LEMMA ReadableAfter ==
  ASSUME TypeOK, OwnerInv, OpenInv, [Next]_vars, NEW s \in Session, Readable(s)'
  PROVE  \/ Kept(s) /\ Readable(s)
         \/ Gone(s)
         \/ Grows(s) /\ Readable(s)
<1>1. CASE Kept(s)
  BY <1>1 DEF Kept, Readable, Lines
<1>2. CASE Grows(s)
  <2>1. Lines(s) \in Seq(Line)
    BY DEF TypeOK, DiskTypes, Image, Lines
  <2>2. PICK t \in Turn : WriteJson(t) /\ Lines(s)' = Append(Lines(s), Head(todo.lines))
    BY <1>2 DEF Grows
  <2>3. Head(todo.lines) \in Line
    BY <2>2 DEF WriteJson, TypeOK, WorkTypes, Work, Line
  <2>4. Range(Lines(s)) \subseteq Range(Lines(s)')
    BY <2>1, <2>2, <2>3, AppendProperties DEF Range
  <2>5. QED
    BY <1>2, <2>4 DEF Readable, Lines
<1>3. CASE Spoils(s)
  BY <1>3 DEF Spoils
<1>4. QED
  BY <1>1, <1>2, <1>3, FileStep

(* The message a worker writes is the next one the file misses.            *)
LEMMA NextMessage ==
  ASSUME TypeOK, OwnerInv, SavingInv, NEW t \in Turn, WriteJson(t)
  PROVE  /\ lock = t /\ Works(t) /\ Conversation(t)
         /\ Written(t) + 1 \in 1 .. MaxMessages
         /\ Head(todo.lines) = <<t, Written(t) + 1>>
         /\ Written(t)' = Written(t) + 1
         /\ Written(t) \in Nat
<1>1. /\ lock = t /\ Works(t) /\ Conversation(t) /\ Pending(t)
  BY WorkerOwns DEF WriteJson, SavingInv
<1>2. /\ turn[t] \in TurnRecord /\ todo \in Work
      /\ turn[t].messages \in Seq(Message) /\ history[turn[t].on] \in Seq(Message)
  BY <1>1 DEF TypeOK, TurnTypes, WorkTypes, RecordTypes, TurnRecord, OwnerInv
<1>3. /\ Len(todo.lines) \in Nat \ {0} /\ Head(todo.lines) = todo.lines[1]
      /\ turn[t].made \in 0 .. MaxMessages
      /\ Len(turn[t].messages) \in Nat /\ Len(history[turn[t].on]) \in Nat
  BY <1>1, <1>2, EmptySeq DEF WriteJson, Work, TurnRecord
<1>4. /\ todo' = [todo EXCEPT !.at = "newline"] /\ todo.at = "json"
      /\ UNCHANGED <<lock, turn>>
  BY DEF WriteJson
<1>5. Written(t) = turn[t].made - Len(todo.lines)
  BY <1>1, <1>3, <1>4 DEF Written
<1>6. Written(t)' = turn[t].made - Len(todo.lines) + 1
  BY <1>1, <1>2, <1>3, <1>4 DEF Written, Work
<1>7. Len(todo.lines) <= turn[t].made
  <2>1. Len(todo.lines) <= Len(turn[t].messages) - Len(history[turn[t].on])
    BY <1>1 DEF Pending
  <2>2. Len(turn[t].messages) - turn[t].made <= Len(history[turn[t].on])
    BY <1>1 DEF Conversation, Before
  <2>3. \A a, b, c, d \in Int : a <= b - c /\ b - d <= c => a <= d
    OBVIOUS
  <2>4. /\ Len(todo.lines) \in Int /\ turn[t].made \in Int
        /\ Len(turn[t].messages) \in Int /\ Len(history[turn[t].on]) \in Int
    BY <1>3
  <2>5. QED
    BY <2>1, <2>2, <2>3, <2>4
<1>8. todo.lines[1] = <<t, turn[t].made - Len(todo.lines) + 1>>
  BY <1>1, <1>3 DEF Pending
<1>9. QED
  BY <1>1, <1>3, <1>5, <1>6, <1>7, <1>8

(* An appended element is the one a sequence gains.                        *)
LEMMA RangeAppended ==
  ASSUME NEW S, NEW seq \in Seq(S), NEW e \in S
  PROVE  Range(Append(seq, e)) = Range(seq) \cup {e}
<1>1. /\ DOMAIN Append(seq, e) = 1 .. Len(seq) + 1
      /\ DOMAIN seq = 1 .. Len(seq) /\ Len(seq) \in Nat
      /\ Append(seq, e)[Len(seq) + 1] = e
      /\ \A i \in 1 .. Len(seq) : Append(seq, e)[i] = seq[i]
  BY AppendProperties
<1>2. Range(seq) \cup {e} \subseteq Range(Append(seq, e))
  BY <1>1 DEF Range
<1>3. \A i \in 1 .. Len(seq) + 1 : Append(seq, e)[i] \in Range(seq) \cup {e}
  BY <1>1 DEF Range
<1>4. Range(Append(seq, e)) \subseteq Range(seq) \cup {e}
  BY <1>1, <1>3 DEF Range
<1>5. QED
  BY <1>2, <1>4

(* A turn that nothing disturbs, and its file, stay as they are.           *)
LEMMA UnaffectedKeeps ==
  ASSUME TypeOK, OwnerInv, OpenInv, SavingInv, [Next]_vars,
         NEW t \in Turn, Works(t)', Unaffected(t)
  PROVE  Conversation(t)' /\ Pending(t)' /\ OnDisk(t)'
<1>0. PICK s \in Session : s = turn[t].on
  BY DEF Unaffected, Works, OwnerInv
<1>1. Works(t) /\ s = turn[t].on /\ Conversation(t) /\ Pending(t) /\ OnDisk(t)
  BY <1>0 DEF Unaffected, SavingInv
<1>2. /\ turn'[t].on = s /\ turn'[t].messages = turn[t].messages
      /\ turn'[t].made = turn[t].made /\ history'[s] = history[s]
      /\ lock' = t <=> lock = t
      /\ lock = t => todo' = todo
  BY <1>1 DEF Unaffected
<1>3. Before(t)' = Before(t)
  BY <1>2 DEF Before
<1>4. Conversation(t)'
  BY <1>1, <1>2, <1>3 DEF Conversation
<1>5. Pending(t)'
  BY <1>1, <1>2 DEF Pending
<1>6. Written(t)' = Written(t)
  BY <1>1, <1>2, <1>3 DEF Written
<1>7. OnDisk(t)'
  <2>1. SUFFICES ASSUME Readable(s)'
                 PROVE  Readable(s) /\ Lines(s)' = Lines(s)
    BY <1>1, <1>2, <1>6 DEF OnDisk, Readable, Lines
  <2>2. ~ Gone(s)
    BY <1>2 DEF Gone, Works
  <2>3. ~ Grows(s)
    <3>1. SUFFICES ASSUME NEW u \in Turn, WriteJson(u), turn[u].on = s PROVE FALSE
      BY DEF Grows
    <3>2. u = t
      BY <1>1, <3>1, WorkerOwns DEF WriteJson
    <3>3. todo'.at # todo.at
      BY <3>1 DEF WriteJson, TypeOK, WorkTypes, Work
    <3>4. QED
      BY <1>2, <3>1, <3>2, <3>3 DEF WriteJson
  <2>4. QED
    BY <1>1, <2>1, <2>2, <2>3, ReadableAfter DEF Kept
<1>8. QED
  BY <1>4, <1>5, <1>7

(* A turn begins with a history that holds no message of its own.          *)
LEMMA BeginKeeps ==
  ASSUME TypeOK, OwnerInv, FreshInv, NEW t \in Turn, NEW s \in Session, Begin(t, s)
  PROVE  Conversation(t)' /\ Pending(t)' /\ OnDisk(t)'
<1> DEFINE h == Len(history[s])
           said == Append(history[s], <<t, 1>>)
<1>1. /\ history[s] \in Seq(Message) /\ <<t, 1>> \in Message
      /\ turn \in [Turn -> TurnRecord]
  BY DEF TypeOK, RecordTypes, TurnTypes, Message
<1>2. /\ turn'[t].on = s /\ turn'[t].messages = said /\ turn'[t].made = 1
      /\ history' = history /\ disk' = disk /\ lock' = Free
  BY <1>1 DEF Begin
<1>3. /\ h \in Nat /\ Len(said) = h + 1 /\ said[h + 1] = <<t, 1>>
      /\ \A i \in 1 .. h : said[i] = history[s][i]
  BY <1>1, AppendProperties
<1>4. Absent(t, Lines(s)) /\ Absent(t, history[s])
  BY DEF Begin, FreshInv
<1>5. \A i \in 1 .. h : history[s][i][1] # t
  <2>1. SUFFICES ASSUME NEW i \in 1 .. h, history[s][i][1] = t PROVE FALSE
    OBVIOUS
  <2>2. history[s][i] \in Message /\ history[s][i] \in Range(history[s])
    BY <1>1 DEF Range
  <2>3. \E k \in 1 .. MaxMessages : history[s][i] = <<t, k>>
    BY <2>1, <2>2 DEF Message
  <2>4. QED
    BY <1>4, <2>2, <2>3 DEF Absent
<1> HIDE DEF h, said
<1>6. Before(t)' = h
  BY <1>2, <1>3 DEF Before
<1>7. Conversation(t)'
  <2>1. \A i \in 1 .. h + 1 :
          IF i > h THEN said[i] = <<t, i - h>> ELSE said[i][1] # t
    <3>1. \A i \in 1 .. h : said[i][1] # t
      BY <1>3, <1>5
    <3>2. said[h + 1] = <<t, (h + 1) - h>>
      BY <1>3
    <3>3. QED
      BY <1>3, <3>1, <3>2
  <2>2. Len(history'[turn'[t].on]) = h
    BY <1>2 DEF h
  <2>3. QED
    BY <1>2, <1>3, <1>6, <2>1, <2>2 DEF Conversation
<1>8. lock' # t
  BY <1>2
<1>9. Written(t)' = 0
  BY <1>2, <1>3, <1>6, <1>8 DEF Written, h
<1>10. OnDisk(t)'
  BY <1>2, <1>4, <1>9 DEF OnDisk, Absent, Lines
<1>11. QED
  BY <1>7, <1>8, <1>10 DEF Pending

(* New messages of a turn follow those it made.                            *)
LEMMA ProduceKeeps ==
  ASSUME TypeOK, OwnerInv, SavingInv, NEW t \in Turn, Produce(t), Works(t)'
  PROVE  Conversation(t)' /\ Pending(t)' /\ OnDisk(t)'
<1> DEFINE m == turn[t].messages
           b == Before(t)
<1>1. /\ turn \in [Turn -> TurnRecord] /\ m \in Seq(Message)
      /\ turn[t].made \in 0 .. MaxMessages /\ Len(m) \in Nat
  BY DEF TypeOK, TurnTypes, TurnRecord
<1>2. PICK n \in 1 .. MaxMessages - turn[t].made :
        turn' = [turn EXCEPT ![t] =
         [turn[t] EXCEPT !.pc = "save", !.messages = @ \o NewMessages(t, n),
                         !.made = @ + n]]
  BY DEF Produce
<1>0. n \in Nat \ {0} /\ turn[t].made + n \in 1 .. MaxMessages
  BY <1>1
<1> DEFINE more == m \o NewMessages(t, n)
<1>3. /\ turn'[t].on = turn[t].on /\ turn'[t].messages = more
      /\ turn'[t].made = turn[t].made + n
      /\ history' = history /\ disk' = disk /\ lock' = lock /\ todo' = todo
      /\ active' = active /\ turn[t].pc = "running"
  <2>1. turn'[t] = [turn[t] EXCEPT !.pc = "save", !.messages = more, !.made = @ + n]
    BY <1>1, <1>2
  <2>2. turn[t] \in TurnRecord
    BY <1>1
  <2>3. /\ turn'[t].on = turn[t].on /\ turn'[t].messages = more
        /\ turn'[t].made = turn[t].made + n
    BY <2>1, <2>2 DEF TurnRecord
  <2>4. QED
    BY <2>3 DEF Produce, memory
<1>4. Works(t) /\ lock # t
  BY <1>3 DEF Works, OwnerInv
<1>5. Conversation(t) /\ OnDisk(t)
  BY <1>4 DEF SavingInv
<1>6. /\ NewMessages(t, n) \in Seq(Message) /\ Len(NewMessages(t, n)) = n
      /\ \A i \in 1 .. n : NewMessages(t, n)[i] = <<t, turn[t].made + i>>
  <2>1. \A i \in 1 .. n : <<t, turn[t].made + i>> \in Message
    BY <1>0, <1>1 DEF Message
  <2>2. NewMessages(t, n) \in [1 .. n -> Message]
    BY <2>1 DEF NewMessages
  <2>3. NewMessages(t, n) \in Seq(Message)
    BY <1>0, <2>2
  <2>4. Len(NewMessages(t, n)) = n
    BY <1>0, <2>2, <2>3
  <2>5. QED
    BY <2>3, <2>4 DEF NewMessages
<1>7. /\ Len(more) = Len(m) + n
      /\ \A i \in 1 .. Len(m) : more[i] = m[i]
      /\ \A i \in 1 .. n : more[Len(m) + i] = <<t, turn[t].made + i>>
  <2>1. /\ Len(more) = Len(m) + n
        /\ \A i \in 1 .. Len(m) + n :
             more[i] = IF i <= Len(m) THEN m[i] ELSE NewMessages(t, n)[i - Len(m)]
    BY <1>1, <1>6, ConcatProperties
  <2> HIDE DEF more
  <2>2. \A i \in 1 .. Len(m) : more[i] = m[i]
    BY <1>0, <1>1, <2>1
  <2>3. ASSUME NEW i \in 1 .. n PROVE more[Len(m) + i] = <<t, turn[t].made + i>>
    <3>1. Len(m) + i \in 1 .. Len(m) + n /\ (Len(m) + i) - Len(m) = i /\ ~ (Len(m) + i <= Len(m))
      BY <1>0, <1>1
    <3>2. QED
      BY <1>6, <2>1, <3>1
  <2>4. QED
    BY <2>1, <2>2, <2>3
<1> HIDE DEF more
<1>8. b = Len(m) - turn[t].made /\ Before(t)' = b /\ b \in Int
  <2>1. Before(t)' = Len(more) - (turn[t].made + n)
    BY <1>3 DEF Before
  <2>2. b = Len(m) - turn[t].made
    BY DEF Before
  <2>3. \A x, y, z \in Int : (x + y) - (z + y) = x - z
    OBVIOUS
  <2>4. Len(more) = Len(m) + n /\ Len(m) \in Int /\ turn[t].made \in Int /\ n \in Int
    BY <1>0, <1>1, <1>7
  <2>5. QED
    BY <2>1, <2>2, <2>3, <2>4
<1>9. Conversation(t)'
  <2>1. /\ 0 <= b /\ b <= Len(history[turn[t].on]) /\ Len(history[turn[t].on]) <= Len(m)
        /\ \A i \in 1 .. Len(m) : IF i > b THEN m[i] = <<t, i - b>> ELSE m[i][1] # t
    BY <1>5 DEF Conversation
  <2>2. \A i \in 1 .. Len(more) : IF i > b THEN more[i] = <<t, i - b>> ELSE more[i][1] # t
    <3> SUFFICES ASSUME NEW i \in 1 .. Len(m) + n
                 PROVE  IF i > b THEN more[i] = <<t, i - b>> ELSE more[i][1] # t
      BY <1>7
    <3>1. CASE i <= Len(m)
      <4>1. i \in 1 .. Len(m)
        BY <1>0, <1>1, <3>1
      <4>2. more[i] = m[i] /\ IF i > b THEN m[i] = <<t, i - b>> ELSE m[i][1] # t
        BY <1>7, <2>1, <4>1
      <4>3. QED
        BY <4>2
    <3>2. CASE i > Len(m)
      <4> DEFINE j == i - Len(m)
      <4>1. j \in 1 .. n /\ Len(m) + j = i /\ turn[t].made + j = i - b /\ i > b
        BY <1>1, <1>8, <3>2, SMTT(30)
      <4>2. QED
        BY <1>7, <4>1
    <3>3. QED
      BY <1>1, <3>1, <3>2
  <2>3. Len(history[turn[t].on]) \in Nat
    BY <1>4 DEF TypeOK, RecordTypes, OwnerInv, Works
  <2>4. Len(history[turn[t].on]) <= Len(more)
    BY <1>1, <1>7, <2>1, <2>3
  <2>5. QED
    BY <1>3, <1>8, <2>1, <2>2, <2>4 DEF Conversation
<1>10. Written(t)' = Written(t)
  BY <1>3, <1>4, <1>8 DEF Written
<1>11. OnDisk(t)'
  BY <1>3, <1>5, <1>10 DEF OnDisk, Readable, Lines
<1>12. QED
  BY <1>3, <1>4, <1>9, <1>11 DEF Pending

(* A save starts with the messages the record does not hold.               *)
LEMMA SaveMetaKeeps ==
  ASSUME TypeOK, OwnerInv, SavingInv, NEW t \in Turn, SaveMeta(t), Works(t)'
  PROVE  Conversation(t)' /\ Pending(t)' /\ OnDisk(t)'
<1> DEFINE m == turn[t].messages
           h == Len(history[turn[t].on])
           n == Len(m)
           rest == SubSeq(m, h + 1, n)
<1>1. /\ turn' = turn /\ history' = history /\ active' = active
      /\ lock = Free /\ lock' = t /\ todo' = [at |-> "json", lines |-> rest]
      /\ \E x : disk' = [disk EXCEPT ![turn[t].on].meta = x]
  BY DEF SaveMeta, Unsaved, memory
<1>2. Works(t) /\ turn[t].on \in Session /\ lock # t
  BY <1>1 DEF Works, OwnerInv
<1>3. /\ m \in Seq(Message) /\ history[turn[t].on] \in Seq(Message)
      /\ turn[t].made \in Nat /\ disk[turn[t].on] \in Image
  BY <1>2 DEF TypeOK, TurnTypes, TurnRecord, RecordTypes, DiskTypes
<1>4. Conversation(t) /\ OnDisk(t)
  BY <1>2 DEF SavingInv
<1>5. /\ Lines(turn[t].on)' = Lines(turn[t].on) /\ Before(t)' = Before(t)
  BY <1>1, <1>2, <1>3 DEF Lines, Before, TypeOK, DiskTypes, Image
<1>6. n \in Nat /\ h \in Nat /\ h <= n /\ Before(t) = n - turn[t].made /\ Before(t) <= h
  BY <1>3, <1>4 DEF Conversation, Before
<1>7. /\ Len(rest) = n - h
      /\ \A i \in 1 .. n - h : rest[i] = m[h + i]
  <2>1. \A i \in h + 1 .. n : m[i] \in Message
    BY <1>3, <1>6
  <2> HIDE DEF m, h, n
  <2>2. /\ Len(rest) = IF h + 1 <= n THEN n - (h + 1) + 1 ELSE 0
        /\ \A i \in 1 .. n - (h + 1) + 1 : rest[i] = m[(h + 1) + i - 1]
    <3>1. h + 1 \in Int /\ n \in Int
      BY <1>6
    <3>2. QED
      BY <2>1, <3>1, SubSeqProperties
  <2> HIDE DEF rest
  <2>3. ASSUME NEW i \in 1 .. n - h PROVE rest[i] = m[h + i]
    <3>1. i \in 1 .. n - (h + 1) + 1 /\ (h + 1) + i - 1 = h + i
      BY <1>6
    <3>2. QED
      BY <2>2, <3>1
  <2>4. Len(rest) = n - h
    BY <1>6, <2>2
  <2>5. QED
    BY <2>3, <2>4
<1>8. Conversation(t)'
  BY <1>1, <1>4, <1>5 DEF Conversation
<1>9. Pending(t)'
  <2>1. ASSUME NEW i \in 1 .. n - h
        PROVE  rest[i] = <<t, turn[t].made - (n - h) + i>>
    <3> HIDE DEF h, n
    <3>1. /\ h + i \in 1 .. n /\ h + i > Before(t)
          /\ (h + i) - Before(t) = turn[t].made - (n - h) + i
      BY <1>3, <1>6, SMTT(30)
    <3>2. m[h + i] = <<t, (h + i) - Before(t)>>
      BY <1>4, <3>1 DEF Conversation, n
    <3>3. QED
      BY <1>7, <3>1, <3>2
  <2>2. todo'.lines = rest
    BY <1>1
  <2>3. /\ Len(turn'[t].messages) = n /\ Len(history'[turn'[t].on]) = h
        /\ turn'[t].made = turn[t].made
    BY <1>1
  <2> HIDE DEF n, h, rest
  <2>4. Len(rest) <= n - h
    BY <1>6, <1>7
  <2>5. QED
    BY <1>7, <2>1, <2>2, <2>3, <2>4 DEF Pending
<1>10. Written(t)' = Written(t)
  <2>1. Written(t)' = turn[t].made - Len(rest) + 0
    BY <1>1 DEF Written
  <2>2. Written(t) = h - Before(t)
    BY <1>2 DEF Written
  <2> HIDE DEF n, h, rest
  <2>3. QED
    BY <1>3, <1>6, <1>7, <2>1, <2>2
<1>11. OnDisk(t)'
  BY <1>1, <1>4, <1>5, <1>10 DEF OnDisk, Readable, Lines
<1>12. QED
  BY <1>8, <1>9, <1>11

(* A message written is one more on disk.                                  *)
LEMMA WriteJsonKeeps ==
  ASSUME TypeOK, OwnerInv, OpenInv, SavingInv, NEW t \in Turn, WriteJson(t), Works(t)'
  PROVE  Conversation(t)' /\ Pending(t)' /\ OnDisk(t)'
<1>0. PICK s \in Session : s = turn[t].on
  BY DEF Works, OwnerInv, WriteJson
<1>1. /\ lock = t /\ Works(t) /\ Conversation(t) /\ Pending(t) /\ OnDisk(t)
      /\ Written(t) + 1 \in 1 .. MaxMessages
      /\ Head(todo.lines) = <<t, Written(t) + 1>>
      /\ Written(t)' = Written(t) + 1
      /\ Written(t) \in Nat
  BY NextMessage DEF SavingInv
<1>2. /\ turn' = turn /\ history' = history /\ lock' = lock
      /\ todo' = [todo EXCEPT !.at = "newline"]
  BY DEF WriteJson, memory
<1>3. todo'.lines = todo.lines
  BY <1>2 DEF TypeOK, WorkTypes, Work
<1>4. Conversation(t)'
  BY <1>1, <1>2 DEF Conversation, Before
<1>5. Pending(t)'
  BY <1>1, <1>2, <1>3 DEF Pending
<1>6. ASSUME Readable(s)', NEW k \in 1 .. MaxMessages
      PROVE  <<t, k>> \in Range(Lines(s)') <=> k <= Written(t)'
  <2>1. ~ Gone(s)
    BY <1>0, <1>1, <1>2 DEF Gone, Works, WriteJson, memory
  <2>2. ~ (Kept(s) /\ Readable(s))
    <3>1. SUFFICES ASSUME Lines(s)' = Lines(s) PROVE FALSE
      BY DEF Kept
    <3>2. disk[s] \in Image /\ disk'[s] = WithText(disk[s], Head(todo.lines))
      BY <1>0 DEF WriteJson, TypeOK, DiskTypes
    <3>3. Head(todo.lines) \in Line
      BY DEF WriteJson, TypeOK, WorkTypes, Work, Line
    <3>4. disk[s].lines \in Seq(Line) /\ Len(disk[s].lines) \in Nat
      BY <3>2 DEF Image
    <3>5. ~ disk[s].open
      BY <1>6, <3>2, <3>3, TextAppended DEF OpenInv, Lines, Readable
    <3>6. disk'[s].lines = Append(disk[s].lines, Head(todo.lines))
      BY <3>2, <3>3, <3>5, TextAppended
    <3>7. Len(disk'[s].lines) = Len(disk[s].lines) + 1
      BY <3>3, <3>4, <3>6, AppendProperties
    <3>8. QED
      BY <3>1, <3>4, <3>7 DEF Lines
  <2>3. [Next]_vars
    BY DEF Next, TurnStep
  <2>4. Grows(s) /\ Readable(s)
    BY <1>6, <2>1, <2>2, <2>3, ReadableAfter
  <2>5. Lines(s)' = Append(Lines(s), <<t, Written(t) + 1>>)
    BY <1>1, <2>4 DEF Grows
  <2>6. Lines(s) \in Seq(Line) /\ <<t, Written(t) + 1>> \in Line
    BY <1>1 DEF TypeOK, DiskTypes, Image, Lines, Line, Message
  <2>7. Range(Lines(s)') = Range(Lines(s)) \cup {<<t, Written(t) + 1>>}
    BY <2>5, <2>6, RangeAppended
  <2>8. <<t, k>> \in Range(Lines(s)) <=> k <= Written(t)
    BY <1>0, <1>1, <2>4 DEF OnDisk
  <2>9. QED
    BY <1>1, <2>7, <2>8
<1>7. OnDisk(t)'
  BY <1>0, <1>2, <1>6 DEF OnDisk
<1>8. QED
  BY <1>4, <1>5, <1>7

(* Its newline takes it off the list.                                      *)
LEMMA WriteNewlineKeeps ==
  ASSUME TypeOK, OwnerInv, SavingInv, NEW t \in Turn, WriteNewline(t), Works(t)'
  PROVE  Conversation(t)' /\ Pending(t)' /\ OnDisk(t)'
<1> DEFINE left == Len(todo.lines)
<1>1. /\ turn' = turn /\ history' = history /\ lock = t /\ lock' = t
      /\ todo.at = "newline" /\ todo' = [at |-> "json", lines |-> Tail(todo.lines)]
      /\ disk' = [disk EXCEPT ![turn[t].on].open = FALSE]
  BY DEF WriteNewline, memory
<1>2. Works(t) /\ turn[t].on \in Session /\ Conversation(t) /\ Pending(t) /\ OnDisk(t)
  BY <1>1, WorkerOwns DEF SavingInv, OwnerInv
<1>3. /\ todo.lines \in Seq(Message) /\ todo.lines # <<>>
      /\ left \in Nat \ {0} /\ turn[t].made \in Nat
  BY <1>1, EmptySeq DEF TypeOK, WorkTypes, Work, TurnTypes, TurnRecord
<1>4. /\ Len(Tail(todo.lines)) = left - 1
      /\ \A i \in 1 .. left - 1 : Tail(todo.lines)[i] = todo.lines[i + 1]
  BY <1>3, HeadTailProperties
<1>5. Lines(turn[t].on)' = Lines(turn[t].on)
  BY <1>1, <1>2 DEF Lines, TypeOK, DiskTypes, Image
<1>6. Conversation(t)'
  BY <1>1, <1>2 DEF Conversation, Before
<1>7. Pending(t)'
  <2>1. ASSUME NEW i \in 1 .. left - 1
        PROVE  Tail(todo.lines)[i] = <<t, turn[t].made - (left - 1) + i>>
    <3>1. i + 1 \in 1 .. left /\ turn[t].made - left + (i + 1) = turn[t].made - (left - 1) + i
      BY <1>3, SMTT(30)
    <3>2. todo.lines[i + 1] = <<t, turn[t].made - left + (i + 1)>>
      BY <1>1, <1>2, <3>1 DEF Pending
    <3>3. QED
      BY <1>4, <3>1, <3>2
  <2>2. left - 1 <= Len(turn[t].messages) - Len(history[turn[t].on])
    <3>1. left <= Len(turn[t].messages) - Len(history[turn[t].on])
      BY <1>1, <1>2 DEF Pending
    <3>2. Len(turn[t].messages) \in Int /\ Len(history[turn[t].on]) \in Int
      BY <1>2 DEF TypeOK, TurnTypes, TurnRecord, RecordTypes
    <3>3. \A a, b, c \in Int : a <= b - c => a - 1 <= b - c
      OBVIOUS
    <3>4. left \in Int
      BY <1>3
    <3> HIDE DEF left
    <3>5. QED
      BY <3>1, <3>2, <3>3, <3>4
  <2>3. todo'.lines = Tail(todo.lines)
    BY <1>1
  <2>4. QED
    BY <1>1, <1>4, <2>1, <2>2, <2>3 DEF Pending
<1>8. Written(t)' = Written(t)
  <2>1. Written(t) = turn[t].made - left + 1
    BY <1>1 DEF Written
  <2>2. Written(t)' = turn[t].made - (left - 1) + 0
    BY <1>1, <1>4 DEF Written
  <2>3. QED
    BY <1>3, <2>1, <2>2
<1>9. OnDisk(t)'
  BY <1>1, <1>2, <1>5, <1>8 DEF OnDisk, Readable, Lines
<1>10. QED
  BY <1>6, <1>7, <1>9

(* When a save succeeds, the file and the record hold all the turn made.   *)
LEMMA CommitKeeps ==
  ASSUME TypeOK, OwnerInv, SavingInv, NEW t \in Turn, SaveCommit(t)
  PROVE  /\ Works(t) /\ Conversation(t) /\ OnDisk(t) /\ Written(t) = turn[t].made
         /\ Conversation(t)' /\ Pending(t)' /\ OnDisk(t)'
<1>1. /\ lock = t /\ lock' = Free /\ todo.at = "json" /\ todo.lines = <<>>
      /\ turn' = [turn EXCEPT ![t].pc = "running"] /\ disk' = disk
      /\ history' = [history EXCEPT ![turn[t].on] = turn[t].messages]
  BY DEF SaveCommit
<1>2. Works(t) /\ turn[t].on \in Session /\ Conversation(t) /\ OnDisk(t)
  BY <1>1, WorkerOwns DEF SavingInv, OwnerInv
<1>3. /\ turn[t] \in TurnRecord /\ turn[t].messages \in Seq(Message)
      /\ turn[t].made \in Nat /\ t # Free
  BY DEF TypeOK, TurnTypes, TurnRecord
<1>4. /\ turn'[t].on = turn[t].on /\ turn'[t].messages = turn[t].messages
      /\ turn'[t].made = turn[t].made
      /\ history'[turn[t].on] = turn[t].messages
  BY <1>1, <1>2, <1>3 DEF TurnRecord, TypeOK, TurnTypes, RecordTypes
<1>5. Before(t)' = Before(t) /\ Before(t) = Len(turn[t].messages) - turn[t].made
  BY <1>4 DEF Before
<1>6. Len(turn[t].messages) \in Nat
  BY <1>3
<1>7. Conversation(t)'
  BY <1>2, <1>3, <1>4, <1>5, <1>6 DEF Conversation
<1>8. Written(t) = turn[t].made
  <2>1. Len(todo.lines) = 0
    BY <1>1, EmptySeq
  <2>2. QED
    BY <1>1, <1>3, <2>1 DEF Written
<1>9. Written(t)' = turn[t].made
  BY <1>1, <1>3, <1>4, <1>5, <1>6, SMTT(30) DEF Written
<1>10. OnDisk(t)'
  BY <1>1, <1>2, <1>4, <1>8, <1>9 DEF OnDisk, Readable, Lines
<1>11. QED
  BY <1>1, <1>2, <1>3, <1>7, <1>8, <1>10 DEF Pending

(* Every step keeps the count of what a turn has written.                  *)
LEMMA SavingStep ==
  ASSUME TypeOK, OwnerInv, OpenInv, FreshInv, SavingInv, [Next]_vars
  PROVE  SavingInv'
<1> SUFFICES ASSUME NEW t \in Turn, Works(t)'
             PROVE  Conversation(t)' /\ Pending(t)' /\ OnDisk(t)'
  BY DEF SavingInv
<1>1. QED
  BY WorkerStep, BeginKeeps, ProduceKeeps, SaveMetaKeeps, WriteJsonKeeps,
     WriteNewlineKeeps, CommitKeeps, UnaffectedKeeps

---------------------------------------------------------------------------
(* Where a conversation, a restore and a record take their messages from.  *)
LEMMA HistoryStep ==
  ASSUME TypeOK, OwnerInv, [Next]_vars, NEW s \in Session
  PROVE  \/ history'[s] \in {history[s], <<>>}
         \/ \E u \in Turn : history'[s] = turn[u].messages
         \/ \E l \in Loader : history'[s] = loader[l].lines
<1>1. history \in [Session -> Seq(Message)]
  BY DEF TypeOK, RecordTypes
<1>2. ASSUME NEW z \in Session, NEW new, history' = [history EXCEPT ![z] = new]
      PROVE  history'[s] \in {history[s], new}
  BY <1>1, <1>2
<1>3. ASSUME NEW z \in Session,
             Close(z) \/ Delete(z) \/ DeleteFails(z) \/ ClearRename(z)
      PROVE  history'[s] \in {history[s], <<>>}
  BY <1>2, <1>3 DEF Close, Delete, DeleteFails, RemoveRecord, ClearRename
<1>4. ASSUME NEW u \in Turn, SaveCommit(u)
      PROVE  history'[s] \in {history[s], turn[u].messages}
  BY <1>2, <1>4 DEF SaveCommit, OwnerInv
<1>5. ASSUME NEW l \in Loader, Publish(l)
      PROVE  history'[s] \in {history[s], loader[l].lines}
  BY <1>1, <1>5 DEF Publish
<1>6. CASE Crash
  BY <1>6 DEF Crash
<1>7. ASSUME NEW z \in Session,
             \/ \E kind \in {"no", "fresh"} : NewSession(z, kind)
             \/ Cancel(z) \/ ClearMeta(z) \/ ClearFails(z)
             \/ \E m \in Setting : UpdateSettings(z, m)
             \/ \E t \in Turn : Begin(t, z)
             \/ \E l \in Loader : ReadMeta(l, z)
      PROVE  history' = history
  BY <1>7 DEF NewSession, Cancel, ClearMeta, ClearFails, UpdateSettings, Begin, ReadMeta,
              memory
<1>8. ASSUME NEW u \in Turn,
             Produce(u) \/ EditorWait(u) \/ SaveSkip(u) \/ SaveMeta(u) \/ WriteJson(u)
               \/ WriteNewline(u) \/ SaveMetaFails(u) \/ SaveLineFails(u) \/ Finish(u)
      PROVE  history' = history
  BY <1>8 DEF Produce, EditorWait, AwaitEditor, EditorAnswers, SaveSkip,
     SaveMeta, WriteJson, WriteNewline, SaveMetaFails, SaveLineFails, Finish,
     memory
<1>9. ASSUME NEW l \in Loader, RestoreStep(l) PROVE history' = history
  BY <1>9, RestoreOnlyReads
<1>10. UNCHANGED vars => history' = history
  BY DEF vars
<1>11. QED
  BY <1>3, <1>4, <1>5, <1>6, <1>7, <1>8, <1>9, <1>10 DEF Next, TurnStep,
     EditorWait, RestoreStep

(* A restore holds the lines it held, none, or those of a file.            *)
LEMMA LoadedStep ==
  ASSUME TypeOK, OwnerInv, [Next]_vars, NEW l \in Loader
  PROVE  \/ loader'[l].lines \in {loader[l].lines, <<>>}
         \/ \E s \in Session : loader'[l].lines = Lines(s)
<1>1. loader \in [Loader -> LoaderRecord]
  BY DEF TypeOK, LoaderTypes
<1>2. ASSUME NEW k \in Loader, NEW s \in Session, ReadMeta(k, s)
      PROVE  loader'[l].lines \in {loader[l].lines, <<>>}
  BY <1>1, <1>2 DEF ReadMeta
<1>3. ASSUME NEW k \in Loader, ReadHistory(k)
      PROVE  loader'[l].lines \in {loader[l].lines, Lines(loader[k].on)}
  <2>1. loader' = [loader EXCEPT ![k] =
                     [@ EXCEPT !.pc = "ready", !.lines = Lines(loader[k].on),
                               !.left = Servers]]
    BY <1>1, <1>3 DEF ReadHistory, Lines
  <2>2. loader[k] \in LoaderRecord
    BY <1>1
  <2>3. [loader[k] EXCEPT !.pc = "ready", !.lines = Lines(loader[k].on),
                          !.left = Servers].lines = Lines(loader[k].on)
    BY <2>2 DEF LoaderRecord
  <2>4. QED
    BY <1>1, <2>1, <2>3
<1>4. ASSUME NEW k \in Loader, Connect(k)
      PROVE  loader'[l].lines = loader[l].lines
  BY <1>1, <1>4 DEF Connect, LoaderRecord
<1>5. ASSUME NEW k \in Loader,
             ConnectFails(k) \/ SetupTimeout(k) \/ Refuse(k) \/ Publish(k)
      PROVE  loader'[l].lines \in {loader[l].lines, <<>>}
  BY <1>1, <1>5 DEF ConnectFails, SetupTimeout, Refuse, Publish, Give, IdleLoader
<1>6. CASE Crash
  BY <1>6 DEF Crash, IdleLoader
<1>7. ASSUME NEW z \in Session,
             \/ \E kind \in {"no", "fresh"} : NewSession(z, kind)
             \/ Close(z) \/ Delete(z) \/ DeleteFails(z) \/ Cancel(z)
             \/ ClearMeta(z) \/ ClearRename(z) \/ ClearFails(z)
             \/ \E m \in Setting : UpdateSettings(z, m)
             \/ \E t \in Turn : Begin(t, z)
      PROVE  loader' = loader
  BY <1>7 DEF NewSession, Close, Delete, DeleteFails, Cancel, ClearMeta, ClearRename,
              ClearFails, UpdateSettings, Begin
<1>8. ASSUME NEW u \in Turn, TurnStep(u) PROVE loader' = loader
  BY <1>8 DEF TurnStep, Produce, AwaitEditor, EditorAnswers, SaveSkip, SaveMeta,
     WriteJson, WriteNewline, SaveCommit, SaveMetaFails, SaveLineFails, Finish
<1>9. UNCHANGED vars => loader' = loader
  BY DEF vars
<1>10. ASSUME NEW k \in Loader, ReadHistory(k) PROVE loader[k].on \in Session
  BY <1>1, <1>10 DEF ReadHistory, TypeOK, LoaderTypes, RecordTypes
<1>11. QED
  BY <1>2, <1>3, <1>4, <1>5, <1>6, <1>7, <1>8, <1>9, <1>10 DEF Next

(* A turn's messages stay, go, grow by its own, or begin with a history.   *)
LEMMA ConversationStep ==
  ASSUME TypeOK, OwnerInv, [Next]_vars, NEW u \in Turn
  PROVE  /\ turn'[u].pc = "new" => turn[u].pc = "new"
         /\ \/ turn'[u].messages \in {turn[u].messages, <<>>}
            \/ /\ turn'[u].pc # "new"
               /\ \E s \in Session : turn'[u].messages = Append(history[s], <<u, 1>>)
            \/ /\ turn'[u].pc # "new"
               /\ \E n \in 1 .. MaxMessages - turn[u].made :
                    turn'[u].messages = turn[u].messages \o NewMessages(u, n)
<1>1. turn \in [Turn -> TurnRecord] /\ active \in [Session -> Turn \cup {NoTurn}]
  BY DEF TypeOK, TurnTypes, RecordTypes
<1>2. ASSUME NEW r, turn' = [turn EXCEPT ![r].cancelled = TRUE]
      PROVE  turn'[u].pc = turn[u].pc /\ turn'[u].messages = turn[u].messages
  <2>1. turn'[u] \in {turn[u], [turn[u] EXCEPT !.cancelled = TRUE]}
    BY <1>1, <1>2
  <2>2. turn[u] \in TurnRecord
    BY <1>1
  <2>3. QED
    BY <2>1, <2>2 DEF TurnRecord
<1>3. ASSUME NEW s \in Session, Close(s) \/ Delete(s) \/ DeleteFails(s) \/ Cancel(s)
      PROVE  turn'[u].pc = turn[u].pc /\ turn'[u].messages = turn[u].messages
  BY <1>2, <1>3 DEF Close, Delete, DeleteFails, Cancel, RemoveRecord, Retire
<1>4. ASSUME NEW s \in Session, NEW t \in Turn, Begin(t, s)
      PROVE  IF t = u THEN /\ turn'[u].pc = "admit"
                           /\ turn'[u].messages = Append(history[s], <<u, 1>>)
                      ELSE turn'[u] = turn[u]
  BY <1>1, <1>4 DEF Begin
<1>5. ASSUME NEW t \in Turn, Produce(t)
      PROVE  IF t = u THEN /\ turn'[u].pc = "save"
                           /\ \E n \in 1 .. MaxMessages - turn[u].made :
                                turn'[u].messages = turn[u].messages \o NewMessages(u, n)
                      ELSE turn'[u] = turn[u]
  <2>1. PICK n \in 1 .. MaxMessages - turn[t].made :
          turn' = [turn EXCEPT ![t] =
            [turn[t] EXCEPT !.pc = "save", !.messages = @ \o NewMessages(t, n),
                            !.made = @ + n]]
    BY <1>5 DEF Produce
  <2>2. CASE t # u
    BY <1>1, <2>1, <2>2
  <2>3. CASE t = u
    <3>1. turn[u] \in TurnRecord
      BY <1>1
    <3>2. turn'[u] = [turn[u] EXCEPT !.pc = "save", !.messages = @ \o NewMessages(u, n),
                                     !.made = @ + n]
      BY <1>1, <2>1, <2>3
    <3>3. turn'[u].pc = "save" /\ turn'[u].messages = turn[u].messages \o NewMessages(u, n)
      BY <3>1, <3>2 DEF TurnRecord
    <3>4. QED
      BY <2>1, <2>3, <3>3
  <2>4. QED
    BY <2>2, <2>3
<1>6. ASSUME NEW t \in Turn,
             EditorWait(t) \/ SaveSkip(t) \/ SaveCommit(t) \/ SaveMetaFails(t)
               \/ SaveLineFails(t)
      PROVE  /\ turn'[u].pc = "new" => turn[u].pc = "new"
             /\ turn'[u].messages = turn[u].messages
  <2>1. \E pc \in {"running", "writing", "failed"} : turn' = [turn EXCEPT ![t].pc = pc]
    BY <1>6 DEF EditorWait, AwaitEditor, EditorAnswers, SaveSkip, SaveCommit,
       SaveMetaFails, SaveLineFails
  <2>2. \E pc \in {"running", "writing", "failed"} :
          turn'[u] \in {turn[u], [turn[u] EXCEPT !.pc = pc]}
    BY <1>1, <2>1
  <2>3. turn[u] \in TurnRecord
    BY <1>1
  <2>4. QED
    BY <2>2, <2>3 DEF TurnRecord
<1>7. ASSUME NEW t \in Turn, Finish(t)
      PROVE  turn'[u] \in {turn[u], AtRest("done")}
  BY <1>1, <1>7 DEF Finish
<1>8. CASE Crash
  BY <1>8 DEF Crash, AtRest
<1>9. ASSUME NEW z \in Session,
             \/ \E kind \in {"no", "fresh"} : NewSession(z, kind)
             \/ ClearMeta(z) \/ ClearRename(z) \/ ClearFails(z)
             \/ \E m \in Setting : UpdateSettings(z, m)
             \/ \E l \in Loader : ReadMeta(l, z)
      PROVE  turn' = turn
  BY <1>9 DEF NewSession, ClearMeta, ClearRename, ClearFails, UpdateSettings, ReadMeta
<1>10. ASSUME NEW t \in Turn, SaveMeta(t) \/ WriteJson(t) \/ WriteNewline(t)
       PROVE  turn' = turn
  BY <1>10 DEF SaveMeta, WriteJson, WriteNewline
<1>11. ASSUME NEW l \in Loader, RestoreStep(l) \/ Publish(l) PROVE turn' = turn
  BY <1>11, RestoreOnlyReads DEF Publish
<1>12. UNCHANGED vars => turn' = turn
  BY DEF vars
<1>13. AtRest("done").pc = "done" /\ AtRest("done").messages = <<>>
  BY DEF AtRest
<1>14. QED
  BY <1>3, <1>4, <1>5, <1>6, <1>7, <1>8, <1>9, <1>10, <1>11, <1>12, <1>13
     DEF Next, TurnStep, EditorWait, RestoreStep

(* Messages of other turns do not put one of this turn into a sequence.    *)
LEMMA AbsentAppended ==
  ASSUME NEW t \in Turn, NEW lines \in Seq(Line), Absent(t, lines)
  PROVE  /\ Absent(t, <<>>)
         /\ \A u \in Turn \ {t}, k \in 1 .. MaxMessages :
              Absent(t, Append(lines, <<u, k>>))
<1>1. Absent(t, <<>>)
  BY EmptySeq DEF Absent, Range
<1>2. ASSUME NEW u \in Turn \ {t}, NEW k \in 1 .. MaxMessages
      PROVE  Absent(t, Append(lines, <<u, k>>))
  <2>1. <<u, k>> \in Line
    BY DEF Line, Message
  <2>2. Range(Append(lines, <<u, k>>)) = Range(lines) \cup {<<u, k>>}
    BY <2>1, RangeAppended
  <2>3. QED
    BY <2>2 DEF Absent
<1>3. QED
  BY <1>1, <1>2

(* What one turn produces is no message of another's.                      *)
LEMMA AbsentProduced ==
  ASSUME TypeOK, NEW t \in Turn, NEW u \in Turn \ {t}, Absent(t, turn[u].messages),
         NEW n \in 1 .. MaxMessages - turn[u].made
  PROVE  Absent(t, turn[u].messages \o NewMessages(u, n))
<1> DEFINE m == turn[u].messages
           new == NewMessages(u, n)
           more == m \o new
<1>1. m \in Seq(Message) /\ Len(m) \in Nat /\ turn[u].made \in 0 .. MaxMessages
  BY DEF TypeOK, TurnTypes, TurnRecord
<1>2. n \in Nat
  BY <1>1
<1>3. \A i \in 1 .. n : <<u, turn[u].made + i>> \in Message
  BY <1>1, <1>2 DEF Message
<1>4. new \in [1 .. n -> Message]
  BY <1>3 DEF NewMessages
<1>5. new \in Seq(Message)
  BY <1>2, <1>4
<1>6. Len(new) = n /\ \A i \in 1 .. n : new[i][1] = u
  BY <1>2, <1>4, <1>5 DEF NewMessages
<1>7. /\ Len(more) = Len(m) + n /\ DOMAIN more = 1 .. Len(more)
      /\ \A i \in 1 .. Len(m) + n : more[i] = IF i <= Len(m) THEN m[i] ELSE new[i - Len(m)]
  <2>1. /\ more \in Seq(Message) /\ Len(more) = Len(m) + Len(new)
        /\ \A i \in 1 .. Len(m) + Len(new) :
             more[i] = IF i <= Len(m) THEN m[i] ELSE new[i - Len(m)]
    BY <1>1, <1>5, ConcatProperties
  <2>2. DOMAIN more = 1 .. Len(more)
    BY <2>1, LenProperties
  <2>3. QED
    BY <1>6, <2>1, <2>2
<1>8. ASSUME NEW i \in 1 .. Len(m) + n, NEW k \in 1 .. MaxMessages, more[i] = <<t, k>>
      PROVE  FALSE
  <2> HIDE DEF more, new
  <2>1. CASE i <= Len(m)
    <3>1. i \in DOMAIN m /\ m[i] = <<t, k>>
      BY <1>1, <1>2, <1>7, <1>8, <2>1
    <3>2. QED
      BY <3>1 DEF Absent, Range
  <2>2. CASE ~ (i <= Len(m))
    <3>1. i - Len(m) \in 1 .. n /\ more[i] = new[i - Len(m)]
      BY <1>1, <1>2, <1>7, <2>2
    <3>2. more[i][1] = u
      BY <1>6, <3>1
    <3>3. QED
      BY <1>8, <3>2
  <2>3. QED
    BY <2>1, <2>2
<1>9. QED
  BY <1>7, <1>8 DEF Absent, Range

(* A turn that has not begun leaves no message (begin_turn).               *)
LEMMA FreshStep ==
  ASSUME TypeOK, OwnerInv, OpenInv, SavingInv, FreshInv, [Next]_vars
  PROVE  FreshInv'
<1> SUFFICES ASSUME NEW t \in Turn, turn'[t].pc = "new"
             PROVE  /\ \A s \in Session : Absent(t, Lines(s)') /\ Absent(t, history'[s])
                    /\ \A l \in Loader : Absent(t, loader'[l].lines)
                    /\ \A u \in Turn : Absent(t, turn'[u].messages)
  BY DEF FreshInv, Lines, Absent
<1>1. /\ turn[t].pc = "new"
      /\ \A s \in Session : Absent(t, Lines(s)) /\ Absent(t, history[s])
      /\ \A l \in Loader : Absent(t, loader[l].lines)
      /\ \A u \in Turn : Absent(t, turn[u].messages)
  BY ConversationStep DEF FreshInv
<1>2. Absent(t, <<>>)
  BY EmptySeq DEF Absent, Range
<1>3. \A s \in Session : Absent(t, history'[s])
  BY <1>1, <1>2, HistoryStep
<1>4. \A l \in Loader : Absent(t, loader'[l].lines)
  BY <1>1, <1>2, LoadedStep
<1>5. ASSUME NEW u \in Turn PROVE Absent(t, turn'[u].messages)
  <2>1. CASE turn'[u].messages \in {turn[u].messages, <<>>}
    BY <1>1, <1>2, <2>1
  <2>2. CASE turn'[u].pc # "new"
    <3>1. u # t
      BY <2>2
    <3>2. ASSUME NEW s \in Session, turn'[u].messages = Append(history[s], <<u, 1>>)
          PROVE  Absent(t, turn'[u].messages)
      <4>1. history[s] \in Seq(Message)
        BY DEF TypeOK, RecordTypes
      <4>2. history[s] \in Seq(Line)
        BY <4>1 DEF Line
      <4>3. 1 \in 1 .. MaxMessages
        OBVIOUS
      <4>4. QED
        BY <1>1, <3>1, <3>2, <4>2, <4>3, AbsentAppended
    <3>3. ASSUME NEW n \in 1 .. MaxMessages - turn[u].made,
                 turn'[u].messages = turn[u].messages \o NewMessages(u, n)
          PROVE  Absent(t, turn'[u].messages)
      BY <1>1, <3>1, <3>3, AbsentProduced
    <3>4. QED
      BY <2>1, <3>2, <3>3, ConversationStep
  <2>3. QED
    BY <2>1, <2>2, ConversationStep
<1>6. ASSUME NEW s \in Session PROVE Absent(t, Lines(s)')
  <2>1. CASE Kept(s) \/ Gone(s)
    BY <1>1, <1>2, <2>1 DEF Kept, Gone
  <2>2. CASE Grows(s)
    <3>1. PICK u \in Turn : /\ WriteJson(u)
                            /\ Lines(s)' = Append(Lines(s), Head(todo.lines))
      BY <2>2 DEF Grows
    <3>2. /\ Works(u) /\ Written(u) + 1 \in 1 .. MaxMessages
          /\ Head(todo.lines) = <<u, Written(u) + 1>>
      BY <3>1, NextMessage
    <3>3. u # t
      BY <1>1, <3>2 DEF Works
    <3>4. Lines(s) \in Seq(Line)
      BY DEF TypeOK, DiskTypes, Image, Lines
    <3>5. QED
      BY <1>1, <3>1, <3>2, <3>3, <3>4, AbsentAppended
  <2>3. CASE Spoils(s)
    BY <1>1, <2>3 DEF Spoils, Absent
  <2>4. QED
    BY <2>1, <2>2, <2>3, FileStep
<1>7. QED
  BY <1>3, <1>4, <1>5, <1>6

---------------------------------------------------------------------------
(* What no step gives back: a helper its file.                             *)
LEMMA HelperStep ==
  ASSUME TypeOK, OwnerInv, HelperInv, [Next]_vars
  PROVE  HelperInv'
<1> USE DEF HelperInv
<1>1. /\ disk \in [Session -> Image] /\ helper \in [Session -> {"no", "fresh", "used"}]
      /\ live \subseteq born /\ born \subseteq Session
      /\ Free \notin Turn \cup Session /\ lock \in {Free} \cup Turn \cup Session
      /\ turn \in [Turn -> TurnRecord]
  BY DEF TypeOK, DiskTypes, RecordTypes, WorkTypes, TurnTypes
<1>2. lock \in Turn => turn[lock].on \in live
  BY WorkerOwns DEF Works
<1>3. ASSUME NEW s \in Session, NEW kind \in {"no", "fresh"}, NewSession(s, kind)
      PROVE  HelperInv'
  BY <1>1, <1>3 DEF NewSession
<1>4. ASSUME NEW s \in Session, Close(s) \/ Delete(s) \/ DeleteFails(s)
      PROVE  HelperInv'
  <2>1. /\ helper' = [helper EXCEPT ![s] = "no"] /\ lock' = Free /\ born' = born
        /\ \/ disk' = disk
           \/ \E d : disk' = [disk EXCEPT ![s] = d] /\ (s \notin born => d = EmptyDisk)
    <3>1. CASE Close(s)
      BY <3>1 DEF Close, RemoveRecord
    <3>2. CASE Delete(s)
      BY <3>2 DEF Delete, RemoveRecord
    <3>3. CASE DeleteFails(s)
      <4>1. s \in born
        BY <3>3 DEF DeleteFails
      <4>2. QED
        BY <3>3, <4>1 DEF DeleteFails, RemoveRecord
    <3>4. QED
      BY <1>4, <3>1, <3>2, <3>3
  <2>2. QED
    BY <1>1, <2>1
<1>5. ASSUME NEW s \in Session, NEW m \in Setting, UpdateSettings(s, m)
      PROVE  HelperInv'
  BY <1>1, <1>5 DEF UpdateSettings, Persists
<1>6. ASSUME NEW s \in Session, ClearMeta(s) PROVE HelperInv'
  BY <1>1, <1>6 DEF ClearMeta, Persists, memory
<1>7. ASSUME NEW s \in Session, ClearRename(s) PROVE HelperInv'
  <2>1. helper[s] = "no" /\ s \in born
    BY <1>1, <1>7 DEF ClearRename, OwnerInv
  <2>2. QED
    BY <1>1, <1>7, <2>1 DEF ClearRename
<1>8. ASSUME NEW s \in Session, NEW t \in Turn, Begin(t, s) PROVE HelperInv'
  BY <1>1, <1>8 DEF Begin
<1>9. ASSUME NEW t \in Turn, SaveMeta(t) PROVE HelperInv'
  <2>1. turn[t].on \in live /\ helper[turn[t].on] = "no"
    <3>1. turn[t].on \in Session /\ retired[turn[t].on] = NoTurn
      BY <1>9 DEF SaveMeta, Discarded, OwnerInv
    <3>2. active[turn[t].on] = t /\ t # NoTurn
      BY <1>9, <3>1 DEF SaveMeta, OwnerInv
    <3>3. QED
      BY <1>9, <3>1, <3>2 DEF SaveMeta, Discarded, Persists, TypeOK, RecordTypes
  <2>2. QED
    BY <1>1, <1>9, <2>1 DEF SaveMeta, memory
<1>10. ASSUME NEW t \in Turn, WriteJson(t) \/ WriteNewline(t) PROVE HelperInv'
  <2>1. turn[t].on \in live /\ helper[turn[t].on] = "no" /\ lock = t
    BY <1>2, <1>10 DEF WriteJson, WriteNewline
  <2>2. \A z \in Session : z # turn[t].on => disk'[z] = disk[z]
    BY <1>1, <1>10 DEF WriteJson, WriteNewline
  <2>3. UNCHANGED <<helper, born, lock, turn>>
    BY <1>10 DEF WriteJson, WriteNewline, memory
  <2>4. QED
    BY <1>1, <2>1, <2>2, <2>3
<1>11. ASSUME NEW t \in Turn,
              SaveLineFails(t) \/ SaveCommit(t) \/ SaveMetaFails(t) \/ SaveSkip(t) \/ Finish(t)
       PROVE  HelperInv'
  <2>1. lock' = Free /\ UNCHANGED <<helper, born>>
    BY <1>11 DEF SaveLineFails, SaveCommit, SaveMetaFails, SaveSkip, Finish, memory
  <2>2. disk' = disk \/ (lock = t /\ disk' \in Interrupted(t))
    BY <1>11 DEF SaveLineFails, SaveCommit, SaveMetaFails, SaveSkip, Finish
  <2>3. ASSUME lock = t, disk' \in Interrupted(t), NEW z \in Session,
               helper[z] # "no" \/ z \notin born
        PROVE  disk'[z] = disk[z]
    BY <1>1, <1>2, <2>3 DEF Interrupted
  <2>4. QED
    BY <1>1, <2>1, <2>2, <2>3
<1>12. ASSUME NEW t \in Turn, Produce(t) \/ EditorWait(t) PROVE HelperInv'
  <2>1. \A u \in Turn : turn'[u].on = turn[u].on
    <3>1. CASE Produce(t)
      BY <1>1, <3>1 DEF Produce, TurnRecord
    <3>2. CASE AwaitEditor(t)
      BY <1>1, <3>2 DEF AwaitEditor, TurnRecord
    <3>3. CASE EditorAnswers(t)
      BY <1>1, <3>3 DEF EditorAnswers, TurnRecord
    <3>4. QED
      BY <1>12, <3>1, <3>2, <3>3 DEF EditorWait
  <2>2. QED
    BY <1>12, <2>1 DEF Produce, EditorWait, AwaitEditor, EditorAnswers, memory
<1>13. ASSUME NEW s \in Session, Cancel(s) \/ ClearFails(s) PROVE HelperInv'
  BY <1>1, <1>13 DEF Cancel, ClearFails, memory
<1>14. ASSUME NEW l \in Loader, NEW s \in Session, ReadMeta(l, s) PROVE HelperInv'
  BY <1>14 DEF ReadMeta, memory
<1>15. ASSUME NEW l \in Loader, RestoreStep(l) PROVE HelperInv'
  BY <1>15, RestoreOnlyReads
<1>16. ASSUME NEW l \in Loader, Publish(l) PROVE HelperInv'
  <2>1. loader[l].on \in born
    BY <1>16 DEF Publish, TypeOK, LoaderTypes
  <2>2. QED
    BY <1>1, <1>16, <2>1 DEF Publish
<1>17. CASE Crash
  <2>1. lock' = Free /\ born' = born /\ \A z \in Session : helper'[z] = "no"
    BY <1>17 DEF Crash
  <2>2. ASSUME NEW z \in Session, z \notin born PROVE disk'[z] = disk[z]
    BY <1>1, <1>2, <1>17, <2>2 DEF Crash, Interrupted
  <2>3. QED
    BY <1>1, <2>1, <2>2
<1>18. CASE UNCHANGED vars
  BY <1>18 DEF vars
<1>19. QED
  BY <1>3, <1>4, <1>5, <1>6, <1>7, <1>8, <1>9, <1>10, <1>11, <1>12, <1>13, <1>14,
     <1>15, <1>16, <1>17, <1>18 DEF Next, TurnStep, EditorWait, RestoreStep

---------------------------------------------------------------------------
(* A sequence of messages in which each turn's are numbered without gaps   *)
(* takes the next message of any turn.                                     *)
InOrder(lines) ==
  \A j \in DOMAIN lines :
    /\ \A i \in 1 .. j - 1 : lines[i][1] = lines[j][1] => lines[i][2] < lines[j][2]
    /\ lines[j][2] > 1 =>
         \E i \in 1 .. j - 1 : lines[i] = <<lines[j][1], lines[j][2] - 1>>

(* The next message of a turn keeps the order of a file.                   *)
LEMMA OrderAppended ==
  ASSUME NEW lines \in Seq(Message), InOrder(lines), NEW t \in Turn, NEW w \in Nat,
         w + 1 \in 1 .. MaxMessages,
         \A k \in 1 .. MaxMessages : <<t, k>> \in Range(lines) <=> k <= w
  PROVE  InOrder(Append(lines, <<t, w + 1>>))
<1> DEFINE n == Len(lines)
           more == Append(lines, <<t, w + 1>>)
<1>1. <<t, w + 1>> \in Message
  BY DEF Message
<1>2. /\ n \in Nat /\ DOMAIN lines = 1 .. n /\ DOMAIN more = 1 .. n + 1
      /\ more[n + 1] = <<t, w + 1>>
      /\ \A i \in 1 .. n : more[i] = lines[i] /\ lines[i] \in Message
  BY <1>1, AppendProperties, LenProperties
<1> HIDE DEF n, more
<1> SUFFICES ASSUME NEW j \in 1 .. n + 1
             PROVE  /\ \A i \in 1 .. j - 1 : more[i][1] = more[j][1] => more[i][2] < more[j][2]
                    /\ more[j][2] > 1 =>
                         \E i \in 1 .. j - 1 : more[i] = <<more[j][1], more[j][2] - 1>>
  BY <1>2 DEF InOrder, more
<1>3. CASE j \in 1 .. n
  <2>1. more[j] = lines[j] /\ \A i \in 1 .. j - 1 : i \in 1 .. n /\ more[i] = lines[i]
    BY <1>2, <1>3
  <2>2. /\ \A i \in 1 .. j - 1 : lines[i][1] = lines[j][1] => lines[i][2] < lines[j][2]
        /\ lines[j][2] > 1 =>
             \E i \in 1 .. j - 1 : lines[i] = <<lines[j][1], lines[j][2] - 1>>
    BY <1>2, <1>3 DEF InOrder
  <2>3. QED
    BY <2>1, <2>2
<1>4. CASE j = n + 1
  <2>1. more[j] = <<t, w + 1>> /\ j - 1 = n
    BY <1>2, <1>4
  <2>2. ASSUME NEW i \in 1 .. n, more[i][1] = t PROVE more[i][2] < w + 1
    <3>1. PICK k \in 1 .. MaxMessages : lines[i] = <<t, k>>
      BY <1>2, <2>2 DEF Message
    <3>2. <<t, k>> \in Range(lines)
      BY <1>2, <3>1 DEF Range
    <3>3. QED
      BY <1>2, <3>1, <3>2
  <2>3. w + 1 > 1 => \E i \in 1 .. n : more[i] = <<t, w>>
    <3>1. SUFFICES ASSUME w >= 1 PROVE \E i \in 1 .. n : more[i] = <<t, w>>
      OBVIOUS
    <3>2. <<t, w>> \in Range(lines)
      BY <3>1
    <3>3. QED
      BY <1>2, <3>2 DEF Range
  <2>4. more[j][1] = t /\ more[j][2] = w + 1 /\ more[j][2] - 1 = w
    BY <2>1
  <2>5. QED
    BY <2>1, <2>2, <2>3, <2>4
<1>5. QED
  BY <1>2, <1>3, <1>4

(* The lines of a file that can be read are messages.                      *)
LEMMA ReadableLines ==
  ASSUME TypeOK, NEW s \in Session, Readable(s)
  PROVE  Lines(s) \in Seq(Message)
<1>1. Lines(s) \in Seq(Line) /\ Len(Lines(s)) \in Nat
  BY DEF TypeOK, DiskTypes, Image, Lines
<1>2. DOMAIN Lines(s) = 1 .. Len(Lines(s)) /\ Lines(s) \in [1 .. Len(Lines(s)) -> Line]
  BY <1>1, LenProperties
<1>3. \A i \in 1 .. Len(Lines(s)) : Lines(s)[i] \in Message
  BY <1>2 DEF Readable, Lines, Range, Line
<1>4. Lines(s) \in [1 .. Len(Lines(s)) -> Message]
  BY <1>2, <1>3
<1>5. QED
  BY <1>1, <1>4

(* What a file gains in a step is the next message of the turn that saves. *)
LEMMA Gained ==
  ASSUME TypeOK, OwnerInv, SavingInv, NEW s \in Session, Grows(s), Readable(s)
  PROVE  \E t \in Turn, w \in Nat :
           /\ w + 1 \in 1 .. MaxMessages
           /\ Lines(s)' = Append(Lines(s), <<t, w + 1>>)
           /\ \A k \in 1 .. MaxMessages : <<t, k>> \in Range(Lines(s)) <=> k <= w
<1>1. PICK t \in Turn : /\ WriteJson(t) /\ turn[t].on = s
                        /\ Lines(s)' = Append(Lines(s), Head(todo.lines))
  BY DEF Grows
<1>2. /\ Works(t) /\ Written(t) \in Nat /\ Written(t) + 1 \in 1 .. MaxMessages
      /\ Head(todo.lines) = <<t, Written(t) + 1>>
  BY <1>1, NextMessage
<1>3. \A k \in 1 .. MaxMessages : <<t, k>> \in Range(Lines(s)) <=> k <= Written(t)
  BY <1>1, <1>2 DEF SavingInv, OnDisk
<1>4. QED
  BY <1>1, <1>2, <1>3

OrderInv == \A s \in Session : Readable(s) => InOrder(Lines(s))

(* Every step keeps the order of each readable file.                       *)
LEMMA OrderStep ==
  ASSUME TypeOK, OwnerInv, OpenInv, SavingInv, OrderInv, [Next]_vars
  PROVE  OrderInv'
<1> SUFFICES ASSUME NEW s \in Session, Readable(s)'
             PROVE  InOrder(Lines(s)')
  BY DEF OrderInv, InOrder
<1>1. CASE Kept(s) /\ Readable(s)
  BY <1>1 DEF Kept, OrderInv
<1>2. CASE Gone(s)
  BY <1>2 DEF Gone, InOrder
<1>3. CASE Grows(s) /\ Readable(s)
  <2>1. PICK t \in Turn, w \in Nat :
          /\ w + 1 \in 1 .. MaxMessages
          /\ Lines(s)' = Append(Lines(s), <<t, w + 1>>)
          /\ \A k \in 1 .. MaxMessages : <<t, k>> \in Range(Lines(s)) <=> k <= w
    BY <1>3, Gained
  <2>2. Lines(s) \in Seq(Message) /\ InOrder(Lines(s))
    BY <1>3, ReadableLines DEF OrderInv
  <2>3. InOrder(Append(Lines(s), <<t, w + 1>>))
    BY <2>1, <2>2, OrderAppended
  <2>4. QED
    BY <2>1, <2>3
<1>4. QED
  BY <1>1, <1>2, <1>3, ReadableAfter

(* Every step keeps what was acknowledged in the file.                     *)
LEMMA AckedStep ==
  ASSUME TypeOK, OwnerInv, OpenInv, SavingInv, AckedIsDurable, [Next]_vars
  PROVE  AckedIsDurable'
<1> SUFFICES ASSUME NEW s \in Session, Readable(s)'
             PROVE  acked'[s] \subseteq Range(Lines(s)')
  BY DEF AckedIsDurable, Lines
<1>1. CASE Kept(s) /\ Readable(s)
  <2>1. acked[s] \subseteq Range(Lines(s)) /\ Lines(s)' = Lines(s)
    BY <1>1 DEF AckedIsDurable, Kept, Lines
  <2>2. ASSUME NEW t \in Turn, SaveCommit(t), turn[t].on = s
        PROVE  acked'[s] \subseteq Range(Lines(s))
    <3>1. acked'[s] = acked[s] \cup {m \in Range(turn[t].messages) : m[1] = t}
      BY <2>2 DEF SaveCommit, TypeOK, DiskTypes
    <3>2. ASSUME NEW m \in Range(turn[t].messages), m[1] = t
          PROVE  m \in Range(Lines(s))
      <4>1. /\ turn[t].messages \in Seq(Message) /\ Len(turn[t].messages) \in Nat
            /\ turn[t].made \in 0 .. MaxMessages
        BY DEF TypeOK, TurnTypes, TurnRecord
      <4>2. PICK i \in 1 .. Len(turn[t].messages) : m = turn[t].messages[i]
        BY <4>1, LenProperties DEF Range
      <4>3. Conversation(t) /\ OnDisk(t) /\ Written(t) = turn[t].made
        BY <2>2, CommitKeeps
      <4>4. i > Before(t) /\ m = <<t, i - Before(t)>>
        BY <3>2, <4>2, <4>3 DEF Conversation
      <4>5. i - Before(t) \in 1 .. turn[t].made
        BY <4>1, <4>2, <4>4 DEF Before
      <4>6. QED
        BY <1>1, <2>2, <4>1, <4>3, <4>4, <4>5 DEF OnDisk
    <3>3. QED
      BY <2>1, <3>1, <3>2
  <2>3. QED
    BY <1>1, <2>1, <2>2 DEF Kept
<1>2. CASE Gone(s)
  BY <1>2 DEF Gone
<1>3. CASE Grows(s) /\ Readable(s)
  <2>1. PICK t \in Turn, w \in Nat : /\ w + 1 \in 1 .. MaxMessages
                                    /\ Lines(s)' = Append(Lines(s), <<t, w + 1>>)
    BY <1>3, Gained
  <2>2. Lines(s) \in Seq(Message) /\ <<t, w + 1>> \in Message
    BY <1>3, <2>1, ReadableLines DEF Message
  <2>3. Range(Lines(s)) \subseteq Range(Lines(s)')
    BY <2>1, <2>2, RangeAppended
  <2>4. acked'[s] = acked[s]
    BY <1>3 DEF Grows
  <2>5. QED
    BY <1>3, <2>3, <2>4 DEF AckedIsDurable, Lines
<1>4. QED
  BY <1>1, <1>2, <1>3, ReadableAfter

---------------------------------------------------------------------------
DiskInv ==
  /\ OpenInv
  /\ FreshInv
  /\ SavingInv
  /\ HelperInv
  /\ OrderInv
  /\ AckedIsDurable

(* The invariant at first.                                                 *)
LEMMA DiskInit == Init => DiskInv
<1> SUFFICES ASSUME Init PROVE DiskInv
  OBVIOUS
<1>1. /\ \A s \in Session : disk[s] = EmptyDisk /\ history[s] = <<>> /\ helper[s] = "no"
                            /\ acked[s] = {}
      /\ \A l \in Loader : loader[l].lines = <<>>
      /\ \A t \in Turn : turn[t].pc = "new" /\ turn[t].messages = <<>>
      /\ lock = Free
  BY DEF Init, IdleLoader, AtRest
<1>2. \A s \in Session : Lines(s) = <<>> /\ ~ disk[s].open
  BY <1>1 DEF Lines, EmptyDisk
<1>3. DOMAIN <<>> = {}
  OBVIOUS
<1>4. \A t \in Turn : Absent(t, <<>>)
  BY EmptySeq DEF Absent, Range
<1>5. OpenInv /\ FreshInv
  BY <1>1, <1>2, <1>4 DEF OpenInv, FreshInv
<1>6. SavingInv
  BY <1>1 DEF SavingInv, Works
<1>7. HelperInv
  BY <1>1 DEF HelperInv
<1>8. OrderInv /\ AckedIsDurable
  BY <1>1, <1>2, <1>3 DEF OrderInv, InOrder, AckedIsDurable
<1>9. QED
  BY <1>5, <1>6, <1>7, <1>8 DEF DiskInv

(* The invariant of every behaviour.                                       *)
LEMMA DiskHolds == Spec => []DiskInv
<1>1. TypeOK /\ OwnerInv /\ DiskInv /\ [Next]_vars => DiskInv'
  BY OpenStep, FreshStep, SavingStep, HelperStep, OrderStep, AckedStep DEF DiskInv
<1>2. QED
  BY <1>1, DiskInit, StoreInvariant, PTL DEF Spec

(* A selected-content helper leaves nothing on disk (save_history,         *)
(* update_settings, clear_history).                                        *)
THEOREM HelpersLeaveNothing == Spec => []HelperIsEphemeral
<1>1. DiskInv => HelperIsEphemeral
  BY DEF DiskInv, HelperInv, HelperIsEphemeral
<1>2. QED
  BY <1>1, DiskHolds, PTL

(* The file holds each message of a turn once, in order and without gaps,  *)
(* whatever saves failed and whatever a restore replaced (save_history).   *)
THEOREM WrittenInOrder == Spec => []LinesInOrder
<1>1. DiskInv => LinesInOrder
  BY DEF DiskInv, OrderInv, InOrder, LinesInOrder, Lines
<1>2. QED
  BY <1>1, DiskHolds, PTL

(* What a save acknowledged is in the file (save_history, persist_turn).   *)
THEOREM AcknowledgedIsWritten == Spec => []AckedIsDurable
<1>1. DiskInv => AckedIsDurable
  BY DEF DiskInv
<1>2. QED
  BY <1>1, DiskHolds, PTL

(* The metadata of a session that is not in the table is kept or removed.  *)
LEMMA MetaStep ==
  ASSUME TypeOK, OwnerInv, [Next]_vars, NEW s \in Session, s \notin live
  PROVE  disk'[s].meta \in {disk[s].meta, NoMeta}
<1> DEFINE Fine == disk'[s].meta \in {disk[s].meta, NoMeta}
<1>1. disk \in [Session -> Image] /\ disk[s] \in Image
  BY DEF TypeOK, DiskTypes
<1>2. ASSUME disk' = disk PROVE Fine
  BY <1>2
<1>3. ASSUME NEW z, NEW d, disk' = [disk EXCEPT ![z] = d],
             z = s => d.meta \in {disk[s].meta, NoMeta}
      PROVE  Fine
  BY <1>1, <1>3
<1>4. \A line : WithText(disk[s], line).meta = disk[s].meta
  BY <1>1 DEF WithText, Image
<1>5. ASSUME NEW z \in Session, Delete(z) PROVE Fine
  BY <1>3, <1>5 DEF Delete, EmptyDisk
<1>6. ASSUME NEW z \in Session, DeleteFails(z) PROVE Fine
  <2>1. PICK d \in {disk[z], [disk[z] EXCEPT !.meta = NoMeta],
                    [disk[z] EXCEPT !.lines = <<>>, !.open = FALSE]} :
          disk' = [disk EXCEPT ![z] = d]
    BY <1>6 DEF DeleteFails
  <2>2. z = s => d.meta \in {disk[s].meta, NoMeta}
    BY <1>1, <2>1 DEF Image
  <2>3. QED
    BY <1>3, <2>1, <2>2
<1>7. ASSUME NEW z \in Session,
             ClearMeta(z) \/ \E m \in Setting : UpdateSettings(z, m)
      PROVE  Fine
  <2>1. z \in live /\ (disk' = disk \/ \E m : disk' = [disk EXCEPT ![z].meta = m])
    BY <1>7 DEF ClearMeta, UpdateSettings
  <2>2. QED
    BY <1>2, <1>3, <2>1
<1>8. ASSUME NEW z \in Session, ClearRename(z) PROVE Fine
  <2>1. disk' = [disk EXCEPT ![z] = [disk[z] EXCEPT !.lines = <<>>, !.open = FALSE]]
    BY <1>8 DEF ClearRename
  <2>2. z = s => [disk[z] EXCEPT !.lines = <<>>, !.open = FALSE].meta = disk[s].meta
    BY <1>1 DEF Image
  <2>3. QED
    BY <1>3, <2>1, <2>2
<1>9. ASSUME NEW t \in Turn, SaveMeta(t) PROVE Fine
  <2>1. turn[t].on \in live
    BY <1>9, WorkerOwns DEF SaveMeta, Saving, Discarded, OwnerInv, Works
  <2>2. \E m : disk' = [disk EXCEPT ![turn[t].on].meta = m]
    BY <1>9 DEF SaveMeta
  <2>3. QED
    BY <1>3, <2>1, <2>2
<1>10. ASSUME NEW t \in Turn, WriteJson(t) PROVE Fine
  <2>1. \E line : disk' = [disk EXCEPT ![turn[t].on] = WithText(disk[turn[t].on], line)]
    BY <1>10 DEF WriteJson
  <2>2. QED
    BY <1>3, <1>4, <2>1
<1>11. ASSUME NEW t \in Turn, WriteNewline(t) PROVE Fine
  <2>1. disk' = [disk EXCEPT ![turn[t].on] = [disk[turn[t].on] EXCEPT !.open = FALSE]]
    BY <1>11 DEF WriteNewline
  <2>2. [disk[s] EXCEPT !.open = FALSE].meta = disk[s].meta
    BY <1>1 DEF Image
  <2>3. QED
    BY <1>3, <2>1, <2>2
<1>12. ASSUME NEW t, disk' \in Interrupted(t) PROVE Fine
  <2>1. \/ disk' = disk
        \/ disk' = [disk EXCEPT ![turn[t].on] = WithText(disk[turn[t].on], Torn)]
    BY <1>12 DEF Interrupted
  <2>2. QED
    BY <1>2, <1>3, <1>4, <2>1
<1>13. ASSUME NEW t \in Turn, SaveLineFails(t) PROVE Fine
  BY <1>12, <1>13 DEF SaveLineFails
<1>14. CASE Crash
  BY <1>2, <1>12, <1>14 DEF Crash
<1>15. ASSUME NEW z \in Session,
             \/ \E kind \in {"no", "fresh"} : NewSession(z, kind)
             \/ Close(z) \/ Cancel(z) \/ ClearFails(z)
             \/ \E t \in Turn : Begin(t, z)
             \/ \E l \in Loader : ReadMeta(l, z)
       PROVE Fine
  BY <1>2, <1>15 DEF NewSession, Close, Cancel, ClearFails, Begin, ReadMeta
<1>16. ASSUME NEW t \in Turn,
              Produce(t) \/ EditorWait(t) \/ SaveSkip(t) \/ SaveCommit(t)
                \/ SaveMetaFails(t) \/ Finish(t)
       PROVE Fine
  BY <1>2, <1>16 DEF Produce, EditorWait, AwaitEditor, EditorAnswers, SaveSkip,
     SaveCommit, SaveMetaFails, Finish
<1>17. ASSUME NEW l \in Loader, RestoreStep(l) \/ Publish(l) PROVE Fine
  BY <1>2, <1>17, RestoreOnlyReads DEF Publish
<1>18. UNCHANGED vars => Fine
  BY <1>2 DEF vars
<1>19. QED
  BY <1>5, <1>6, <1>7, <1>8, <1>9, <1>10, <1>11, <1>13, <1>14, <1>15, <1>16,
     <1>17, <1>18 DEF Next, TurnStep, EditorWait, RestoreStep

(* A removed session's file does not grow and its metadata does not come   *)
(* back: whoever writes owns a live session (delete_session, save_history).*)
THEOREM RemovedStaysQuiet == Spec => RemovedIsNotWritten
<1>1. ASSUME TypeOK, OwnerInv, DiskInv, [Next]_vars, NEW s \in Session, s \notin live
      PROVE  /\ Len(disk'[s].lines) <= Len(disk[s].lines)
             /\ disk'[s].meta \in {disk[s].meta, NoMeta}
  <2>0. disk'[s].meta \in {disk[s].meta, NoMeta}
    BY <1>1, MetaStep DEF DiskInv
  <2>1. disk[s].lines \in Seq(Line)
    BY <1>1 DEF TypeOK, DiskTypes, Image
  <2>2. CASE Kept(s) \/ Gone(s)
    BY <2>0, <2>1, <2>2, EmptySeq DEF Kept, Gone, Lines
  <2>3. CASE Grows(s) \/ Spoils(s)
    <3>1. lock \in Turn /\ turn[lock].on = s
      BY <2>3 DEF Grows, Spoils, WriteJson
    <3>2. QED
      BY <1>1, <3>1, WorkerOwns
  <2>4. QED
    BY <1>1, <2>0, <2>2, <2>3, FileStep DEF DiskInv
<1>2. TypeOK /\ OwnerInv /\ DiskInv /\ [Next]_vars =>
        [\A s \in Session : s \notin live =>
           /\ Len(disk'[s].lines) <= Len(disk[s].lines)
           /\ disk'[s].meta \in {disk[s].meta, NoMeta}]_vars
  BY <1>1
<1>3. QED
  BY <1>2, StoreInvariant, DiskHolds, PTL DEF Spec, RemovedIsNotWritten
=============================================================================
