--------------------------- MODULE FileEditProofs ---------------------------
(***************************************************************************)
(* Proofs about FileEdit for every set of texts and any number of changes  *)
(* by others: type correctness, and that neither a conflict nor a          *)
(* cancellation is overwritten.                                            *)
(*                                                                         *)
(* ConflictStopsWrite and CancelStopsWrite speak of what was written; what *)
(* makes them true is known before the write, so EditInv says what holds   *)
(* of a call that is about to write.                                       *)
(***************************************************************************)
EXTENDS FileEdit, TLAPS

(* A call about to write has not looked away: the document is the one      *)
(* shown, and no cancellation came before the write.                       *)
ReadyInv ==
  /\ pc = "reading" => diff = NoDiff
  /\ pc \in {"checked", "writing"} /\ Source = Target =>
       diff # NoDiff /\ diff.old = base
  /\ pc = "writing" => stoppedAt \in {"none", "writing"}
  /\ cancelled <=> stoppedAt # "none"
  /\ written # Missing => pc = "done"

(* The inductive invariant of a call.                                      *)
EditInv == TypeOK /\ ReadyInv /\ ConflictStopsWrite /\ CancelStopsWrite

USE EditAssumption

---------------------------------------------------------------------------
(* What a call reads and shows is a document and a change of it (Change).  *)
LEMMA ChangeIsDiff ==
  ASSUME NEW old \in Document, Changeable(old), tool \in {"write_file", "edit_file"}
  PROVE  Change(old) \in Diff /\ Change(old) # NoDiff /\ Change(old).old = old
<1>1. Change(old).new \in Text
  BY DEF Change, Changeable
<1>2. Change(old) \in [old : Text \cup {Missing}, new : Text]
  BY <1>1 DEF Change, Document
<1>3. QED
  BY <1>2 DEF Diff, Document, Change

(* What a place holds is a document.                                       *)
LEMMA ContentIsDocument ==
  ASSUME TypeOK, NEW place
  PROVE  Content(place) \in Document
BY DEF TypeOK, Content, Document

(* A step of the environment or of the call keeps every variable typed.    *)
LEMMA TypesKept ==
  ASSUME TypeOK, pc = "reading" => diff = NoDiff, [Next]_vars
  PROVE  TypeOK'
<1> USE DEF TypeOK, Document, Stage
<1>1. CASE Read
  <2>1. CASE diff' = diff /\ (pc' = "done" \/ (pc' = "asking" /\ Source = "unknown"))
    <3>1. UNCHANGED <<Source, tool, caps, disk, buffer, cancelled, written>>
      BY <1>1 DEF Read, Go, setup, document, Source
    <3>2. UNCHANGED <<base, stoppedAt, changes>>
      BY <1>1 DEF Read, history
    <3>3. pc' = "asking" => diff' = NoDiff
      BY <1>1, <2>1 DEF Read
    <3>4. QED
      BY <2>1, <3>1, <3>2, <3>3
  <2>2. CASE diff' = Change(Content(Source)) /\ Changeable(Content(Source))
                /\ Source # "unknown" /\ pc' = "asking"
    <3>1. diff' \in Diff /\ diff' # NoDiff
      BY <2>2, ChangeIsDiff, ContentIsDocument
    <3>2. UNCHANGED Source
      BY <1>1 DEF Read, Go, setup, Source
    <3>3. QED
      BY <1>1, <2>2, <3>1, <3>2 DEF Read, Go, setup, document, history
  <2>3. \/ diff' = diff /\ (pc' = "done" \/ (pc' = "asking" /\ Source = "unknown"))
        \/ /\ diff' = Change(Content(Source)) /\ Changeable(Content(Source))
           /\ Source # "unknown" /\ pc' = "asking"
    BY <1>1 DEF Read, Go
  <2>4. QED
    BY <2>1, <2>2, <2>3
<1>2. CASE Decide
  BY <1>2 DEF Decide, Go, setup, document, history, Source
<1>3. CASE Reread
  BY <1>3, ContentIsDocument DEF Reread, Go, setup, document, history, Source
<1>4. CASE StartWrite
  BY <1>4 DEF StartWrite, Look, Go, setup, document, history, Source
<1>5. CASE Write
  <2>1. (IF diff = NoDiff THEN NewText ELSE diff.new) \in Text
    BY DEF Diff
  <2>2. disk' \in Document /\ written' \in Document /\ buffer' \in Text \cup {Clean}
    BY <1>5, <2>1 DEF Write
  <2>3. QED
    BY <1>5, <2>2 DEF Write, Go, setup, history
<1>6. CASE Abandon
  BY <1>6 DEF Abandon, Go, setup, document, history, Source
<1>7. ASSUME NEW t \in Text, Type(t)
      PROVE  TypeOK'
  BY <1>7 DEF Type, Others, setup, Source
<1>8. CASE SaveBuffer
  BY <1>8 DEF SaveBuffer, Others, setup, Source
<1>9. ASSUME NEW d \in Document, ChangeFile(d)
      PROVE  TypeOK'
  BY <1>9 DEF ChangeFile, Others, setup, Source
<1>10. CASE Cancel
  BY <1>10 DEF Cancel, setup, document, Source
<1>11. CASE UNCHANGED vars
  BY <1>11 DEF vars, Source
<1>12. QED
  BY <1>1, <1>2, <1>3, <1>4, <1>5, <1>6, <1>7, <1>8, <1>9, <1>10, <1>11 DEF Next

(* No step brings a call to a write it may not make.                       *)
LEMMA ReadyKept ==
  ASSUME EditInv, [Next]_vars
  PROVE  ReadyInv' /\ ConflictStopsWrite' /\ CancelStopsWrite'
<1> USE DEF EditInv, TypeOK, ReadyInv, ConflictStopsWrite, CancelStopsWrite, Stage
<1>1. CASE Read
  BY <1>1 DEF Read, Go, setup, document, history, Source, Target
<1>2. CASE Decide
  BY <1>2 DEF Decide, Go, setup, document, history, Source, Target
<1>3. CASE Reread
  <2>1. Source # Target \/ Source # "unknown"
    BY DEF Source, Target
  <2>2. pc' = "checked" /\ Source = Target => diff # NoDiff /\ diff.old = base'
    BY <1>3, <2>1 DEF Reread, UnchangedSince, Go
  <2>3. UNCHANGED <<Source, Target>>
    BY <1>3 DEF Reread, Go, setup, Source, Target
  <2>4. QED
    BY <1>3, <2>2, <2>3 DEF Reread, Go, setup
<1>4. CASE StartWrite
  BY <1>4 DEF StartWrite, Look, Go, setup, document, history, Source, Target
<1>5. CASE Write
  <2>1. UNCHANGED <<Source, Target, diff, base, stoppedAt, cancelled>> /\ pc' = "done"
    BY <1>5 DEF Write, Go, setup, history, Source, Target
  <2>2. written' # Missing =>
          written' = (IF diff = NoDiff THEN NewText ELSE diff.new)
    BY <1>5 DEF Write
  <2>3. diff # NoDiff => diff = [old |-> diff.old, new |-> diff.new]
    BY DEF Diff
  <2>4. written' # Missing /\ Source = Target => diff = [old |-> base, new |-> written']
    BY <1>5, <2>2, <2>3 DEF Write
  <2>5. QED
    BY <1>5, <2>1, <2>4 DEF Write
<1>6. CASE Abandon
  BY <1>6 DEF Abandon, Go, setup, document, history, Source, Target
<1>7. ASSUME NEW d, NEW b, Others(d, b)
      PROVE  ReadyInv' /\ ConflictStopsWrite' /\ CancelStopsWrite'
  BY <1>7 DEF Others, setup, Source, Target
<1>8. CASE Cancel
  BY <1>8 DEF Cancel, setup, document, Source, Target
<1>9. CASE UNCHANGED vars
  BY <1>9 DEF vars, Source, Target
<1>10. QED
  BY <1>1, <1>2, <1>3, <1>4, <1>5, <1>6, <1>7, <1>8, <1>9
  DEF Next, Type, SaveBuffer, ChangeFile

(* EditInv is an inductive invariant of the call.                          *)
THEOREM EditInvariant == Spec => []EditInv
<1>1. Init => EditInv
  <2> SUFFICES ASSUME Init PROVE EditInv
    OBVIOUS
  <2>1. caps \subseteq {"read", "write"} /\ changes \in 0 .. MaxChanges
    BY DEF Init
  <2>2. /\ disk \in Document /\ written \in Document /\ base \in Document
        /\ diff \in Diff
    BY DEF Init, Document, Diff
  <2>3. TypeOK
    BY <2>1, <2>2 DEF Init, TypeOK, Stage
  <2>4. ReadyInv /\ ConflictStopsWrite /\ CancelStopsWrite
    BY DEF Init, ReadyInv, ConflictStopsWrite, CancelStopsWrite
  <2>5. QED
    BY <2>3, <2>4 DEF EditInv
<1>2. EditInv /\ [Next]_vars => EditInv'
  BY TypesKept, ReadyKept DEF EditInv, ReadyInv
<1>3. QED
  BY <1>1, <1>2, PTL DEF Spec

(* Every variable of a call stays within its type.                         *)
THEOREM EditTypes == Spec => []TypeOK
BY EditInvariant, PTL DEF EditInv

(* A document changed while its approval was pending is not overwritten    *)
(* (unchanged_since).                                                      *)
THEOREM EditConflictStopsWrite == Spec => []ConflictStopsWrite
BY EditInvariant, PTL DEF EditInv

(* A call of a cancelled turn does not start its write                     *)
(* (write_file_to_local, write_file_to_client).                            *)
THEOREM EditCancelStopsWrite == Spec => []CancelStopsWrite
BY EditInvariant, PTL DEF EditInv
=============================================================================
