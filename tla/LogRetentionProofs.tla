------------------------- MODULE LogRetentionProofs -------------------------
(***************************************************************************)
(* Proofs about LogRetention, for every set of writers, logs and settings  *)
(* and any number of crashes: type correctness, that a sweep removes only  *)
(* logs that some writer has bounded, that a writer's own sweep leaves it  *)
(* no handle to an unlinked file, and that the record of a log covers its  *)
(* writers.                                                                *)
(***************************************************************************)
EXTENDS LogRetention, TLAPS

(* The logs, with an axis on which some writer that logged there is bound. *)
Bounded ==
  {x \in Log \X Axis : \E v \in asked[x[1]] : Usable(x[2], Setting[v][x[2]])}

(* A bound comes from a writer wherever it is: in a record on disk, in one *)
(* about to be stored, or in what a sweep has selected.                    *)
BoundsHaveAnAsker ==
  /\ \A f \in Log, a \in Axis :
       sidecar[f] \in Bounds /\ sidecar[f][a] # Unlimited => <<f, a>> \in Bounded
  /\ \A w \in Writer, a \in Axis :
       pc[w] \in {"truncate", "fill"} /\ record[w][a] # Unlimited
         => <<at[w], a>> \in Bounded
  /\ \A w \in Writer : \A s \in sweep[w].saw : <<s.log, sweep[w].axis>> \in Bounded

RetentionInv == TypeOK /\ BoundsHaveAnAsker /\ OwnSweepLosesNothing

USE RetentionAssumption

---------------------------------------------------------------------------
(* What the settings make of a writer's bounds.                            *)
LEMMA PolicyType ==
  /\ Policy \in [Writer -> Bounds]
  /\ \A w \in Writer, a \in Axis :
       Policy[w][a] # Unlimited => Policy[w][a] \in Nat /\ Usable(a, Setting[w][a])
BY DEF Policy, Bounds, Usable, Axis

(* The wider of two bounds is one of them, and unlimited if either is.     *)
LEMMA MergeType ==
  ASSUME NEW r \in Bounds, NEW s \in Bounds
  PROVE  /\ Merge(r, s) \in Bounds
         /\ \A a \in Axis : Merge(r, s)[a] # Unlimited
              => r[a] # Unlimited /\ s[a] # Unlimited
BY DEF Merge, Wider, Bounds, Axis

(* A record is neither absent nor torn.                                    *)
LEMMA RecordsAreWhole == None \notin Bounds /\ Torn \notin Bounds /\ None # Torn
BY DEF Bounds

(* The stages and the states of a handle.                                  *)
LEMMA Names ==
  /\ \A x \in {"down", "idle", "truncate", "fill", "lost", "open", "append", "list",
               "remove", "unrecord"} : x \in Stage
  /\ "closed" \in Handle /\ "open" \in Handle /\ Writer \subseteq Handle
  /\ "size" \in Axis /\ "age" \in Axis
BY DEF Stage, Handle, Axis

(* A pass is a sweep that has selected nothing yet.                        *)
LEMMA NewSweep ==
  ASSUME TypeOK, NEW w \in Writer
  PROVE  /\ NoSweep \in Sweep /\ NoSweep.saw = {}
         /\ \A a \in Axis : Policy[w]["age"] # Unlimited \/ a = "size"
              => Pass(w, a) \in Sweep /\ Pass(w, a).saw = {}
<1>1. NoSweep \in Sweep /\ NoSweep.saw = {}
  BY DEF NoSweep, Sweep, Axis
<1>2. ASSUME NEW a \in Axis, Policy[w]["age"] # Unlimited \/ a = "size"
      PROVE  Pass(w, a) \in Sweep /\ Pass(w, a).saw = {}
  <2>1. Policy[w]["age"] # Unlimited => Policy[w]["age"] \in Nat
    BY Names, PolicyType
  <2>2. now \in Nat /\ present \in SUBSET Log
    BY DEF TypeOK
  <2>3. a # "size" => a = "age"
    BY DEF Axis
  <2>4. (IF a = "age" THEN now - Policy[w]["age"] ELSE 0) \in Int
    BY <1>2, <2>1, <2>2, <2>3
  <2>. QED  BY <2>2, <2>4 DEF Pass, Sweep
<1>. QED  BY <1>1, <1>2

(* How the end of a write or the change of pass leaves pc and the sweeps.  *)
LEMMA PruneType ==
  ASSUME TypeOK, NEW w \in Writer, Prune(w) \/ BeginSize(w) \/ Rest(w)
  PROVE  /\ pc' \in [Writer -> Stage]
         /\ pc'[w] \in {"idle", "list"}
         /\ \A v \in Writer \ {w} : pc'[v] = pc[v] /\ sweep'[v] = sweep[v]
         /\ sweep' \in [Writer -> Sweep]
         /\ sweep'[w].saw = {}
<1>1. PICK x \in {"idle", "list"}, p \in Sweep :
        /\ p.saw = {}
        /\ pc' = [pc EXCEPT ![w] = x]
        /\ sweep' = [sweep EXCEPT ![w] = p]
  <2>1. CASE Rest(w)
    BY <2>1, NewSweep DEF Rest
  <2>2. CASE BeginSize(w)
    BY <2>1, <2>2, NewSweep, Names DEF BeginSize
  <2>3. CASE Prune(w)
    BY <2>2, <2>3, NewSweep, Names DEF Prune
  <2>. QED  BY <2>1, <2>2, <2>3
<1>2. x \in Stage
  BY <1>1, Names
<1>. QED  BY <1>1, <1>2 DEF TypeOK

(* Asking only ever adds an asker.                                         *)
LEMMA AskersStay ==
  ASSUME TypeOK, [Next]_vars
  PROVE  Bounded \subseteq Bounded'
<1>1. \/ asked' = asked
      \/ \E w \in Writer, f \in Log : asked' = [asked EXCEPT ![f] = @ \cup {w}]
  <2>1. ASSUME NEW w \in Writer, NEW f \in Log, ReadRecord(w, f)
        PROVE  asked' = [asked EXCEPT ![f] = @ \cup {w}]
    BY <2>1 DEF ReadRecord
  <2>2. ASSUME NEW w \in Writer, NEW f \in Log, Write(w, f) \/ Examine(w, f)
        PROVE  asked' = asked
    BY <2>2 DEF Write, Examine, history
  <2>3. ASSUME NEW w \in Writer, NEW s \in sweep[w].saw, Evict(w, s)
        PROVE  asked' = asked
    BY <2>3 DEF Evict
  <2>4. ASSUME NEW w \in Writer,
               \/ Start(w) \/ Truncate(w) \/ Fill(w) \/ OpenLog(w) \/ Append(w)
               \/ EndListing(w) \/ Unrecord(w) \/ EndPass(w) \/ Fail(w) \/ Crash(w)
        PROVE  asked' = asked
    BY <2>4 DEF Start, Truncate, Fill, OpenLog, Append, EndListing, Unrecord, EndPass,
       Fail, Crash, history
  <2>5. Tick \/ UNCHANGED vars => asked' = asked
    BY DEF Tick, vars, history
  <2>. QED  BY <2>1, <2>2, <2>3, <2>4, <2>5 DEF Next
<1>2. \A f \in Log : asked[f] \subseteq asked'[f]
  BY <1>1 DEF TypeOK
<1>. QED  BY <1>2 DEF Bounded

---------------------------------------------------------------------------
(* The type invariant and the selections are kept by a step that leaves    *)
(* the records alone and changes at most one sweep, which selects nothing. *)
LEMMA BoundsKept ==
  ASSUME RetentionInv, [Next]_vars, sidecar' = sidecar, NEW w \in Writer,
         \A v \in Writer \ {w} : /\ pc'[v] = pc[v] /\ at'[v] = at[v]
                                 /\ record'[v] = record[v]
                                 /\ sweep'[v] = sweep[v],
         pc'[w] \in {"truncate", "fill"} =>
           /\ at'[w] \in Log
           /\ \A a \in Axis : record'[w][a] # Unlimited => <<at'[w], a>> \in Bounded',
         \/ /\ sweep'[w].axis = sweep[w].axis
            /\ sweep'[w].saw \subseteq sweep[w].saw
         \/ sweep'[w].saw = {}
  PROVE  BoundsHaveAnAsker'
<1>1. Bounded \subseteq Bounded'
  BY AskersStay DEF RetentionInv
<1>2. \A v \in Writer : pc[v] \in {"truncate", "fill"} => at[v] \in Log
  BY DEF RetentionInv, TypeOK
<1>3. \A v \in Writer : sweep[v].axis \in Axis /\ \A s \in sweep[v].saw : s.log \in Log
  BY DEF RetentionInv, TypeOK, Sweep, Seen
<1>4. \A f \in Log, a \in Axis :
        sidecar'[f] \in Bounds /\ sidecar'[f][a] # Unlimited => <<f, a>> \in Bounded'
  BY <1>1 DEF RetentionInv, BoundsHaveAnAsker
<1>5. ASSUME NEW v \in Writer, NEW a \in Axis,
             pc'[v] \in {"truncate", "fill"}, record'[v][a] # Unlimited
      PROVE  <<at'[v], a>> \in Bounded'
  <2>1. CASE v = w
    BY <1>5, <2>1
  <2>2. CASE v # w
    <3>1. <<at[v], a>> \in Bounded /\ at[v] \in Log /\ at'[v] = at[v]
      BY <1>2, <1>5, <2>2 DEF RetentionInv, BoundsHaveAnAsker
    <3>. QED  BY <1>1, <3>1
  <2>. QED  BY <2>1, <2>2
<1>6. ASSUME NEW v \in Writer, NEW s \in sweep'[v].saw
      PROVE  <<s.log, sweep'[v].axis>> \in Bounded'
  <2>1. s \in sweep[v].saw /\ sweep'[v].axis = sweep[v].axis
    BY <1>6
  <2>2. <<s.log, sweep[v].axis>> \in Bounded
    BY <2>1 DEF RetentionInv, BoundsHaveAnAsker
  <2>. QED  BY <1>1, <1>3, <2>1, <2>2
<1>. QED  BY <1>4, <1>5, <1>6 DEF BoundsHaveAnAsker

(* Every step keeps the invariant.                                         *)
LEMMA InvKept ==
  ASSUME RetentionInv, [Next]_vars
  PROVE  RetentionInv'
<1> USE DEF RetentionInv
<1>0. TypeOK /\ Bounded \subseteq Bounded'
  BY AskersStay
<1>1. ASSUME NEW w \in Writer, Start(w)
      PROVE  RetentionInv'
  <2>1. UNCHANGED <<files, handle, at, record, now, faults, history>> /\ Prune(w)
    BY <1>1 DEF Start
  <2>2. TypeOK'
    BY <2>1, PruneType DEF TypeOK, files, history
  <2>3. BoundsHaveAnAsker'
    BY <2>1, PruneType, BoundsKept DEF files
  <2>. QED  BY <2>1, <2>2, <2>3 DEF OwnSweepLosesNothing
<1>2. ASSUME NEW w \in Writer, NEW f \in Log, Write(w, f)
      PROVE  RetentionInv'
  <2>1. /\ pc' = [pc EXCEPT ![w] = "append"]
        /\ at' = [at EXCEPT ![w] = f]
        /\ UNCHANGED <<files, handle, record, sweep, now, faults, history>>
    BY <1>2 DEF Write
  <2>2. TypeOK'
    BY <2>1, Names, RecordsAreWhole DEF TypeOK, files, history
  <2>3. BoundsHaveAnAsker'
    BY <2>1, BoundsKept DEF TypeOK, files
  <2>. QED  BY <2>1, <2>2, <2>3 DEF OwnSweepLosesNothing
<1>3. ASSUME NEW w \in Writer, NEW f \in Log, ReadRecord(w, f)
      PROVE  RetentionInv'
  <2>1. /\ asked' = [asked EXCEPT ![f] = @ \cup {w}] /\ disturbed' \subseteq Log
        /\ UNCHANGED <<files, handle, sweep, now, faults, authors>>
    BY <1>3 DEF ReadRecord, Disturb, TypeOK
  <2>2. asked' \in [Log -> SUBSET Writer] /\ w \in asked'[f]
    BY <2>1 DEF TypeOK
  <2>3. \A a \in Axis : Policy[w][a] # Unlimited => <<f, a>> \in Bounded'
    BY <2>2, PolicyType DEF Bounded
  <2>4. \/ UNCHANGED <<pc, at, record>>
        \/ \E x \in {"truncate", "open"}, r \in Bounds :
             /\ pc' = [pc EXCEPT ![w] = x]
             /\ at' = [at EXCEPT ![w] = f]
             /\ record' = [record EXCEPT ![w] = r]
             /\ \A a \in Axis : r[a] # Unlimited => Policy[w][a] # Unlimited
    <3>1. CASE sidecar[f] = None
      BY <1>3, <3>1, PolicyType, RecordsAreWhole DEF ReadRecord
    <3>2. CASE sidecar[f] \in Bounds
      <4>1. /\ Merge(sidecar[f], Policy[w]) \in Bounds
            /\ \A a \in Axis : Merge(sidecar[f], Policy[w])[a] # Unlimited
                 => Policy[w][a] # Unlimited
        BY <3>2, PolicyType, MergeType
      <4>. QED  BY <1>3, <3>2, <4>1, RecordsAreWhole DEF ReadRecord
    <3>. QED  BY <1>3, <3>1, <3>2 DEF ReadRecord
  <2>5. TypeOK'
    <3>1. pc' \in [Writer -> Stage] /\ record' \in [Writer -> Bounds]
      <4>1. pc \in [Writer -> Stage] /\ record \in [Writer -> Bounds]
        BY DEF TypeOK
      <4>2. "truncate" \in Stage /\ "open" \in Stage
        BY Names
      <4>. QED  BY <2>4, <4>1, <4>2
    <3>2. /\ at' \in [Writer -> Log \cup {None}]
          /\ \A v \in Writer : at'[v] = None => pc'[v] \in {"down", "idle", "list", "remove"}
      <4>1. /\ pc \in [Writer -> Stage] /\ at \in [Writer -> Log \cup {None}]
            /\ \A v \in Writer : at[v] = None => pc[v] \in {"down", "idle", "list", "remove"}
        BY DEF TypeOK
      <4>. QED  BY <2>4, <4>1, RecordsAreWhole
    <3>. QED  BY <2>1, <2>2, <3>1, <3>2 DEF TypeOK, files
  <2>6. BoundsHaveAnAsker'
    <3>1. pc'[w] \in {"truncate", "fill"} =>
            at'[w] \in Log /\ \A a \in Axis : record'[w][a] # Unlimited => <<at'[w], a>> \in Bounded'
      <4>1. pc[w] = "idle"
        BY <1>3 DEF ReadRecord
      <4>. QED  BY <2>3, <2>4, <4>1 DEF TypeOK
    <3>2. \A v \in Writer \ {w} : pc'[v] = pc[v] /\ at'[v] = at[v] /\ record'[v] = record[v]
      BY <2>4 DEF TypeOK
    <3>. QED  BY <2>1, <3>1, <3>2, BoundsKept DEF files
  <2>. QED  BY <2>1, <2>5, <2>6 DEF OwnSweepLosesNothing
<1>4. ASSUME NEW w \in Writer, Truncate(w)
      PROVE  RetentionInv'
  <2>1. /\ pc[w] = "truncate" /\ pc' = [pc EXCEPT ![w] = "fill"]
        /\ sidecar' = [sidecar EXCEPT ![at[w]] = Torn]
        /\ UNCHANGED <<present, size, modified, handle, at, record, sweep, now, faults,
                       history>>
    BY <1>4 DEF Truncate
  <2>2. TypeOK'
    BY <2>1, Names DEF TypeOK, history
  <2>3. BoundsHaveAnAsker'
    BY <1>0, <2>1, RecordsAreWhole DEF BoundsHaveAnAsker, TypeOK
  <2>. QED  BY <2>1, <2>2, <2>3 DEF OwnSweepLosesNothing
<1>5. ASSUME NEW w \in Writer, Fill(w)
      PROVE  RetentionInv'
  <2>1. at[w] \in Log
    BY <1>5 DEF Fill, TypeOK
  <2>2. \/ UNCHANGED sidecar
        \/ pc[w] = "fill" /\ sidecar' = [sidecar EXCEPT ![at[w]] = record[w]]
        \/ sidecar' = [sidecar EXCEPT ![at[w]] = Torn]
    BY <1>5 DEF Fill
  <2>3. /\ pc' = [pc EXCEPT ![w] = "open"]
        /\ UNCHANGED <<present, size, modified, handle, at, record, sweep, now, faults,
                       history>>
    BY <1>5 DEF Fill
  <2>4. TypeOK'
    BY <2>1, <2>2, <2>3, Names DEF TypeOK, history
  <2>5. BoundsHaveAnAsker'
    BY <1>0, <2>1, <2>2, <2>3, RecordsAreWhole DEF BoundsHaveAnAsker, TypeOK
  <2>. QED  BY <2>3, <2>4, <2>5 DEF OwnSweepLosesNothing
<1>6. ASSUME NEW w \in Writer, OpenLog(w)
      PROVE  RetentionInv'
  <2>1. at[w] \in Log
    BY <1>6 DEF OpenLog, TypeOK
  <2>2. /\ present' = present \cup {at[w]}
        /\ modified' = [modified EXCEPT ![at[w]] = IF at[w] \in present THEN @ ELSE now]
        /\ handle' = [handle EXCEPT ![w][at[w]] = "open"]
        /\ pc' = [pc EXCEPT ![w] = "append"]
        /\ record' = [record EXCEPT ![w] = Policy[w]]
        /\ UNCHANGED <<size, sidecar, at, sweep, now, faults, history>>
    BY <1>6 DEF OpenLog
  <2>3. TypeOK'
    BY <2>1, <2>2, Names, PolicyType DEF TypeOK, history
  <2>4. BoundsHaveAnAsker'
    BY <2>2, BoundsKept DEF TypeOK
  <2>5. OwnSweepLosesNothing'
    BY <2>1, <2>2 DEF OwnSweepLosesNothing, TypeOK
  <2>. QED  BY <2>3, <2>4, <2>5
<1>7. ASSUME NEW w \in Writer, Append(w)
      PROVE  RetentionInv'
  <2>1. at[w] \in Log
    BY <1>7 DEF Append, TypeOK
  <2>2. /\ size' \in [Log -> Nat] /\ modified' \in [Log -> Nat]
        /\ authors' \in [Log -> SUBSET Writer]
    <3>1. \/ UNCHANGED <<size, modified, authors>>
          \/ /\ size' = [size EXCEPT ![at[w]] = @ + 1]
             /\ modified' = [modified EXCEPT ![at[w]] = now]
             /\ authors' = [authors EXCEPT ![at[w]] = @ \cup {w}]
      BY <1>7 DEF Append
    <3>. QED  BY <2>1, <3>1 DEF TypeOK
  <2>3. /\ at' = [at EXCEPT ![w] = None]
        /\ Prune(w)
        /\ UNCHANGED <<present, sidecar, handle, record, now, faults, asked, disturbed>>
    BY <1>7 DEF Append
  <2>4. TypeOK'
    BY <2>2, <2>3, PruneType DEF TypeOK
  <2>5. BoundsHaveAnAsker'
    <3>1. /\ sidecar' = sidecar
          /\ \A v \in Writer \ {w} : at'[v] = at[v] /\ record'[v] = record[v]
      BY <2>3 DEF TypeOK
    <3>. QED  BY <2>3, <3>1, PruneType, BoundsKept
  <2>. QED  BY <2>3, <2>4, <2>5 DEF OwnSweepLosesNothing
<1>8. ASSUME NEW w \in Writer, NEW f \in Log, Examine(w, f)
      PROVE  RetentionInv'
  <2>1. UNCHANGED <<files, handle, at, record, now, faults, history>>
    BY <1>8 DEF Examine
  <2>2. CASE Rest(w)
    <3>1. TypeOK'
      BY <2>1, <2>2, PruneType DEF TypeOK, files, history
    <3>2. BoundsHaveAnAsker'
      BY <2>1, <2>2, PruneType, BoundsKept DEF files
    <3>. QED  BY <2>1, <3>1, <3>2 DEF OwnSweepLosesNothing
  <2>3. CASE f \in present /\ sidecar[f] # Torn
    <3>1. PICK seen :
            /\ seen = [log |-> f, size |-> size[f], modified |-> modified[f]]
            /\ sweep' = [sweep EXCEPT
                 ![w].todo = @ \ {f},
                 ![w].saw = IF Counts(w, f) THEN @ \cup {seen} ELSE @]
            /\ UNCHANGED pc
      BY <1>8, <2>3 DEF Examine
    <3>2. seen \in Seen /\ seen.log = f
      BY <3>1 DEF Seen, TypeOK
    <3>3. Counts(w, f) => <<f, sweep[w].axis>> \in Bounded
      BY <2>3 DEF Counts, Sweep, TypeOK, BoundsHaveAnAsker
    <3>4. /\ sweep' \in [Writer -> Sweep]
          /\ \A v \in Writer : sweep'[v].axis = sweep[v].axis
          /\ \A v \in Writer \ {w} : sweep'[v] = sweep[v]
          /\ sweep'[w].saw = IF Counts(w, f) THEN sweep[w].saw \cup {seen} ELSE sweep[w].saw
      <4>1. /\ sweep' = [sweep EXCEPT ![w] = sweep'[w]]
            /\ sweep'[w] = [sweep[w] EXCEPT
                 !.todo = @ \ {f}, !.saw = IF Counts(w, f) THEN @ \cup {seen} ELSE @]
        BY <3>1 DEF TypeOK
      <4>2. sweep[w] \in Sweep
        BY DEF TypeOK
      <4>3. /\ sweep'[w] \in Sweep /\ sweep'[w].axis = sweep[w].axis
            /\ sweep'[w].saw = IF Counts(w, f) THEN sweep[w].saw \cup {seen} ELSE sweep[w].saw
          <5>1. sweep[w].todo \ {f} \in SUBSET Log
            BY <4>2 DEF Sweep
          <5>2. (IF Counts(w, f) THEN sweep[w].saw \cup {seen} ELSE sweep[w].saw) \in SUBSET Seen
            BY <3>2, <4>2 DEF Sweep
          <5>. QED  BY <4>1, <4>2, <5>1, <5>2 DEF Sweep
      <4>. QED  BY <4>1, <4>3 DEF TypeOK
    <3>5. TypeOK'
      BY <2>1, <3>1, <3>4 DEF TypeOK, files, history
    <3>6. BoundsHaveAnAsker'
      <4>1. \A v \in Writer : \A s \in sweep'[v].saw :
              <<s.log, sweep'[v].axis>> \in Bounded'
        BY <1>0, <3>2, <3>3, <3>4 DEF BoundsHaveAnAsker
      <4>. QED  BY <1>0, <2>1, <3>1, <4>1 DEF BoundsHaveAnAsker, files
    <3>. QED  BY <2>1, <3>5, <3>6 DEF OwnSweepLosesNothing
  <2>. QED  BY <1>8, <2>2, <2>3 DEF Examine
<1>9. ASSUME NEW w \in Writer, EndListing(w)
      PROVE  RetentionInv'
  <2>1. /\ pc' = [pc EXCEPT ![w] = "remove"]
        /\ UNCHANGED <<files, handle, at, record, sweep, now, faults, history>>
    BY <1>9 DEF EndListing
  <2>2. TypeOK'
    BY <2>1, Names DEF TypeOK, files, history
  <2>3. BoundsHaveAnAsker'
    BY <2>1, BoundsKept DEF TypeOK, files
  <2>. QED  BY <2>1, <2>2, <2>3 DEF OwnSweepLosesNothing
<1>10. ASSUME NEW w \in Writer, NEW s \in sweep[w].saw, Evict(w, s)
       PROVE  RetentionInv'
  <2>1. s.log \in Log
    BY DEF Sweep, Seen, TypeOK
  <2>2. handle' \in [Writer -> [Log -> Handle]] /\ OwnSweepLosesNothing'
    <3>1. \A v \in Writer : /\ handle'[v] \in [Log -> Handle]
                            /\ \A f \in Log : handle'[v][f] # v
      <4>1. ASSUME NEW v \in Writer \ {w}
            PROVE  handle'[v] = IF handle[v][s.log] = "open"
                                THEN [handle[v] EXCEPT ![s.log] = w] ELSE handle[v]
        BY <1>10 DEF Evict
      <4>2. handle'[w] = [handle[w] EXCEPT ![s.log] = "closed"]
        BY <1>10, <2>1 DEF Evict, Forget, TypeOK
      <4>3. \A v \in Writer : /\ handle[v] \in [Log -> Handle] /\ v # "closed"
                              /\ \A f \in Log : handle[v][f] # v
        BY DEF TypeOK, OwnSweepLosesNothing
      <4>4. w \in Handle /\ "closed" \in Handle
        BY Names
      <4>5. ASSUME NEW v \in Writer \ {w}
            PROVE  handle'[v] \in [Log -> Handle] /\ \A f \in Log : handle'[v][f] # v
        <5>1. /\ handle[v] \in [Log -> Handle] /\ w # v
              /\ \A f \in Log : handle[v][f] # v
          BY <4>3
        <5>2. CASE handle[v][s.log] = "open"
          BY <2>1, <4>1, <4>4, <5>1, <5>2, ZenonT(60)
        <5>3. CASE handle[v][s.log] # "open"
          BY <4>1, <5>1, <5>3
        <5>. QED  BY <5>2, <5>3
      <4>6. handle'[w] \in [Log -> Handle] /\ \A f \in Log : handle'[w][f] # w
        BY <2>1, <4>2, <4>3, <4>4
      <4>. QED  BY <4>5, <4>6
    <3>2. handle' = [v \in Writer |-> handle'[v]]
      BY <1>10 DEF Evict
    <3>. QED  BY <3>1, <3>2 DEF OwnSweepLosesNothing
  <2>3. /\ pc' = [pc EXCEPT ![w] = "unrecord"]
        /\ at' = [at EXCEPT ![w] = s.log]
        /\ sweep' = [sweep EXCEPT ![w].saw = @ \ {s}]
        /\ UNCHANGED <<sidecar, record, now, faults, asked>>
    BY <1>10 DEF Evict
  <2>4. /\ present' \subseteq Log /\ size' \in [Log -> Nat]
        /\ modified' \in [Log -> Nat] /\ authors' \in [Log -> SUBSET Writer]
        /\ disturbed' \subseteq Log
    BY <1>10, <2>1 DEF Evict, Disturb, TypeOK
  <2>5. /\ sweep' \in [Writer -> Sweep]
        /\ sweep'[w].axis = sweep[w].axis /\ sweep'[w].saw \subseteq sweep[w].saw
        /\ \A v \in Writer \ {w} : sweep'[v] = sweep[v]
    <3>1. /\ sweep' = [sweep EXCEPT ![w] = sweep'[w]]
          /\ sweep'[w] = [sweep[w] EXCEPT !.saw = @ \ {s}]
      BY <2>3 DEF TypeOK
    <3>2. sweep[w] \in Sweep
      BY DEF TypeOK
    <3>3. /\ sweep'[w] \in Sweep /\ sweep'[w].axis = sweep[w].axis
          /\ sweep'[w].saw \subseteq sweep[w].saw
      BY <3>1, <3>2 DEF Sweep
    <3>4. sweep \in [Writer -> Sweep]
      BY DEF TypeOK
    <3>5. sweep' \in [Writer -> Sweep] /\ \A v \in Writer \ {w} : sweep'[v] = sweep[v]
      BY <3>1, <3>3, <3>4
    <3>. QED  BY <3>3, <3>5
  <2>6. TypeOK'
    BY <2>1, <2>2, <2>3, <2>4, <2>5, Names, RecordsAreWhole DEF TypeOK
  <2>7. BoundsHaveAnAsker'
    BY <2>3, <2>5, BoundsKept DEF TypeOK
  <2>. QED  BY <2>2, <2>6, <2>7
<1>11. ASSUME NEW w \in Writer, Unrecord(w)
       PROVE  RetentionInv'
  <2>1. at[w] \in Log
    BY <1>11 DEF Unrecord, TypeOK
  <2>2. /\ sidecar' = [sidecar EXCEPT ![at[w]] = None]
        /\ at' = [at EXCEPT ![w] = None]
        /\ pc'[w] = "remove"
        /\ \A v \in Writer \ {w} : pc'[v] = pc[v] \/ (pc[v] = "fill" /\ pc'[v] = "lost")
        /\ UNCHANGED <<present, size, modified, handle, record, sweep, now, faults,
                       history>>
    BY <1>11 DEF Unrecord
  <2>3. pc' \in [Writer -> Stage]
    <3>1. pc' = [v \in Writer |-> pc'[v]]
      BY <1>11 DEF Unrecord
    <3>. QED  BY <2>2, <3>1, Names, ZenonT(60) DEF TypeOK
  <2>4. TypeOK'
    BY <2>1, <2>2, <2>3 DEF history, TypeOK
  <2>5. BoundsHaveAnAsker'
    BY <1>0, <2>1, <2>2, RecordsAreWhole DEF BoundsHaveAnAsker, TypeOK
  <2>. QED  BY <2>2, <2>4, <2>5 DEF OwnSweepLosesNothing
<1>12. ASSUME NEW w \in Writer, EndPass(w)
       PROVE  RetentionInv'
  <2>1. /\ UNCHANGED <<files, handle, at, record, now, faults, history>>
        /\ BeginSize(w) \/ Rest(w)
    BY <1>12 DEF EndPass
  <2>2. TypeOK'
    BY <2>1, PruneType DEF TypeOK, files, history
  <2>3. BoundsHaveAnAsker'
    BY <2>1, PruneType, BoundsKept DEF files
  <2>. QED  BY <2>1, <2>2, <2>3 DEF OwnSweepLosesNothing
<1>13. ASSUME NEW w \in Writer, Fail(w)
       PROVE  RetentionInv'
  <2>1. /\ UNCHANGED <<files, now, history>>
        /\ faults' = faults + 1
        /\ Rest(w)
        /\ at' = [at EXCEPT ![w] = None]
        /\ record' = [record EXCEPT ![w] = Policy[w]]
    BY <1>13 DEF Fail, Settle
  <2>2. handle' \in [Writer -> [Log -> Handle]] /\ OwnSweepLosesNothing'
    <3>1. \/ UNCHANGED handle
          \/ \E f : handle' = [handle EXCEPT ![w] = [handle[w] EXCEPT ![f] = "closed"]]
      BY <1>13 DEF Fail, Forget
    <3>2. w # "closed" /\ "closed" \in Handle
      BY Names
    <3>3. /\ handle \in [Writer -> [Log -> Handle]]
          /\ \A v \in Writer, f \in Log : handle[v][f] # v
      BY DEF TypeOK, OwnSweepLosesNothing
    <3>4. \A f : [handle[w] EXCEPT ![f] = "closed"] \in [Log -> Handle]
      BY <3>2, <3>3
    <3>. QED  BY <3>1, <3>2, <3>3, <3>4 DEF OwnSweepLosesNothing
  <2>3. TypeOK'
    <3>1. /\ at' \in [Writer -> Log \cup {None}] /\ record' \in [Writer -> Bounds]
          /\ \A v \in Writer \ {w} : at'[v] = at[v] /\ record'[v] = record[v]
          /\ faults' \in Nat
      <4>1. /\ at \in [Writer -> Log \cup {None}] /\ record \in [Writer -> Bounds]
            /\ faults \in Nat
        BY DEF TypeOK
      <4>2. Policy[w] \in Bounds
        BY PolicyType
      <4>. QED  BY <2>1, <4>1, <4>2
    <3>2. \A v \in Writer : at'[v] = None => pc'[v] \in {"down", "idle", "list", "remove"}
      BY <2>1, <3>1, PruneType DEF TypeOK
    <3>. QED  BY <2>1, <2>2, <3>1, <3>2, PruneType DEF TypeOK, files, history
  <2>4. BoundsHaveAnAsker'
    <3>1. \A v \in Writer \ {w} : at'[v] = at[v] /\ record'[v] = record[v]
      BY <2>1 DEF TypeOK
    <3>. QED  BY <2>1, <3>1, PruneType, BoundsKept DEF files
  <2>. QED  BY <2>2, <2>3, <2>4
<1>14. ASSUME NEW w \in Writer, Crash(w)
       PROVE  RetentionInv'
  <2>1. /\ UNCHANGED <<files, now, history>>
        /\ faults' = faults + 1
        /\ pc' = [pc EXCEPT ![w] = "down"]
        /\ handle' = [handle EXCEPT ![w] = [f \in Log |-> "closed"]]
        /\ sweep' = [sweep EXCEPT ![w] = NoSweep]
        /\ at' = [at EXCEPT ![w] = None]
        /\ record' = [record EXCEPT ![w] = Policy[w]]
    BY <1>14 DEF Crash, Settle
  <2>2. TypeOK'
    <3>1. /\ at' \in [Writer -> Log \cup {None}] /\ record' \in [Writer -> Bounds]
          /\ pc' \in [Writer -> Stage] /\ faults' \in Nat
          /\ handle' \in [Writer -> [Log -> Handle]]
      <4>1. /\ at \in [Writer -> Log \cup {None}] /\ record \in [Writer -> Bounds]
            /\ pc \in [Writer -> Stage] /\ faults \in Nat
            /\ handle \in [Writer -> [Log -> Handle]]
        BY DEF TypeOK
      <4>2. Policy[w] \in Bounds /\ "down" \in Stage /\ "closed" \in Handle
        BY Names, PolicyType
      <4>. QED  BY <2>1, <4>1, <4>2
    <3>2. sweep' \in [Writer -> Sweep]
      BY <2>1, NewSweep DEF TypeOK
    <3>3. \A v \in Writer : at'[v] = None => pc'[v] \in {"down", "idle", "list", "remove"}
      BY <2>1 DEF TypeOK
    <3>. QED  BY <2>1, <3>1, <3>2, <3>3 DEF TypeOK, files, history
  <2>3. BoundsHaveAnAsker'
    BY <2>1, NewSweep, BoundsKept DEF TypeOK, files
  <2>4. OwnSweepLosesNothing'
    BY <2>1 DEF TypeOK, OwnSweepLosesNothing
  <2>. QED  BY <2>2, <2>3, <2>4
<1>15. CASE Tick \/ UNCHANGED vars
  <2>1. /\ UNCHANGED <<files, handle, pc, at, record, sweep, faults, history>>
        /\ now' \in Nat
    BY <1>15 DEF Tick, vars, TypeOK
  <2>2. TypeOK'
    BY <2>1 DEF TypeOK, files, history
  <2>3. BoundsHaveAnAsker'
    BY <1>0, <2>1 DEF BoundsHaveAnAsker, files
  <2>. QED  BY <2>1, <2>2, <2>3 DEF OwnSweepLosesNothing
<1>. QED
  BY <1>1, <1>2, <1>3, <1>4, <1>5, <1>6, <1>7, <1>8, <1>9, <1>10, <1>11, <1>12,
     <1>13, <1>14, <1>15 DEF Next

(* The invariant holds of every behaviour.                                 *)
LEMMA InvHolds == Spec => []RetentionInv
<1>1. ASSUME Init
      PROVE  RetentionInv
  <2>1. NoSweep \in Sweep /\ NoSweep.saw = {}
    BY DEF NoSweep, Sweep, Axis
  <2>2. /\ present \subseteq Log /\ size \in [Log -> Nat] /\ modified \in [Log -> Nat]
        /\ sidecar \in [Log -> Bounds \cup {None, Torn}]
        /\ handle \in [Writer -> [Log -> Handle]]
        /\ asked \in [Log -> SUBSET Writer] /\ authors \in [Log -> SUBSET Writer]
        /\ now \in Nat /\ faults \in Nat /\ disturbed \subseteq Log
    BY <1>1, Names DEF Init
  <2>3. /\ pc = [w \in Writer |-> "down"] /\ at \in [Writer -> Log \cup {None}]
        /\ sweep \in [Writer -> Sweep] /\ \A w \in Writer : sweep[w].saw = {}
    BY <1>1, <2>1 DEF Init
  <2>4. record \in [Writer -> Bounds]
    BY <1>1, PolicyType DEF Init
  <2>5. TypeOK
    BY <2>2, <2>3, <2>4, Names DEF TypeOK
  <2>6. BoundsHaveAnAsker
    BY <1>1, <2>3, RecordsAreWhole DEF Init, BoundsHaveAnAsker
  <2>7. OwnSweepLosesNothing
    BY <1>1 DEF Init, OwnSweepLosesNothing
  <2>. QED  BY <2>5, <2>6, <2>7 DEF RetentionInv
<1>. QED  BY <1>1, InvKept, PTL DEF Spec

---------------------------------------------------------------------------
(* What the variables hold.                                                *)
THEOREM TypeCorrect == Spec => []TypeOK
<1>1. RetentionInv => TypeOK
  BY DEF RetentionInv
<1>. QED  BY <1>1, InvHolds, PTL

(* However many writers share the directory, and wherever they crash, none *)
(* is left writing to a file its own sweep unlinked.                       *)
THEOREM OwnSweepsAreSafe == Spec => []OwnSweepLosesNothing
<1>1. RetentionInv => OwnSweepLosesNothing
  BY DEF RetentionInv
<1>. QED  BY <1>1, InvHolds, PTL

(* A log that no bounded writer ever used is never removed.                *)
THEOREM SweepsRemoveBounded == Spec => OnlyBoundedLogsGo
<1> DEFINE Removes(w, f) ==
       /\ f \in present /\ f \notin present'
       /\ pc[w] = "remove" /\ pc'[w] = "unrecord"
<1>1. ASSUME RetentionInv, Next, NEW w \in Writer, NEW f \in Log, Removes(w, f)
      PROVE  <<f, sweep[w].axis>> \in Bounded
  <2>1. PICK v \in Writer : \E s \in sweep[v].saw : Evict(v, s)
    <3>1. present' # present
      BY <1>1
    <3>2. ASSUME NEW v \in Writer,
                 \/ Start(v) \/ Truncate(v) \/ Fill(v) \/ Append(v) \/ EndListing(v)
                 \/ Unrecord(v) \/ EndPass(v) \/ Fail(v) \/ Crash(v)
                 \/ \E g \in Log : Write(v, g) \/ ReadRecord(v, g) \/ Examine(v, g)
          PROVE  present' = present
      BY <3>2 DEF Start, Truncate, Fill, Append, EndListing, Unrecord, EndPass, Fail,
         Crash, Write, ReadRecord, Examine, files
    <3>3. ASSUME NEW v \in Writer, OpenLog(v)
          PROVE  f \in present'
      BY <1>1, <3>3 DEF OpenLog
    <3>4. Tick => present' = present
      BY DEF Tick, files
    <3>. QED  BY <1>1, <3>1, <3>2, <3>3, <3>4 DEF Next
  <2>2. PICK s \in sweep[v].saw : Evict(v, s)
    BY <2>1
  <2>3. v = w /\ s.log = f
    BY <1>1, <2>2 DEF Evict, RetentionInv, TypeOK
  <2>. QED  BY <1>1, <2>2, <2>3 DEF RetentionInv, BoundsHaveAnAsker
<1>2. RetentionInv /\ [Next]_vars =>
        [\A w \in Writer, f \in Log :
           (f \in present /\ f \notin present' /\ pc[w] = "remove" /\ pc'[w] = "unrecord")
             => \E v \in asked[f] : Usable(sweep[w].axis, Setting[v][sweep[w].axis])]_vars
  BY <1>1 DEF Bounded
<1>. QED  BY <1>2, InvHolds, PTL DEF Spec, OnlyBoundedLogsGo

---------------------------------------------------------------------------
(* Who has written to a log, or is about to: its authors, and the writers  *)
(* that have it open.  A record admits a writer when it covers its bounds, *)
(* and while it is torn, when no sweep can use it.                         *)
Users(f) == authors[f] \cup {u \in Writer : handle[u][f] = "open"}
Admits(f, u) ==
  \/ sidecar[f] = Torn
  \/ sidecar[f] \in Bounds /\ Covers(sidecar[f], Policy[u])

(* A log without a disturbance is recorded or removed by one writer at a   *)
(* time: its record admits its users before and after, and what is to be   *)
(* recorded covers them and the writer.                                    *)
InWindow(w, f) ==
  /\ ~ Overlaps(w, f)
  /\ pc[w] # "lost"
  /\ pc[w] \in {"truncate", "fill"} =>
       \A u \in Users(f) \cup {w} : Covers(record[w], Policy[u])
  /\ pc[w] = "open" => Admits(f, w)
  /\ pc[w] = "unrecord" => Users(f) = {}
Covered(f) ==
  /\ \A u \in Users(f) : Admits(f, u)
  /\ \A w \in Writer : Window(w, f) => InWindow(w, f)
CoverInv == \A f \in Log \ disturbed : Covered(f)

(* A merged record covers what its parts did.                              *)
LEMMA MergeCovers ==
  ASSUME NEW r \in Bounds, NEW s \in Bounds
  PROVE  /\ Covers(s, s)
         /\ Covers(Merge(r, s), s)
         /\ \A t \in Bounds : Covers(r, t) => Covers(Merge(r, s), t)
<1>1. \A t \in Bounds, a \in Axis : t[a] \in Nat \cup {Unlimited}
  BY DEF Bounds
<1>2. \A a \in Axis : Merge(r, s)[a] = Wider(r[a], s[a])
  BY DEF Merge
<1>3. ASSUME NEW a \in Axis
      PROVE  Wider(s[a], s[a]) = s[a] /\ Wider(Merge(r, s)[a], s[a]) = Merge(r, s)[a]
  <2>1. r[a] \in Nat \cup {Unlimited} /\ s[a] \in Nat \cup {Unlimited}
    BY <1>1
  <2>2. Merge(r, s)[a] = Wider(r[a], s[a])
    BY <1>2
  <2>. QED  BY <2>1, <2>2 DEF Wider
<1>4. ASSUME NEW t \in Bounds, Covers(r, t), NEW a \in Axis
      PROVE  Wider(Merge(r, s)[a], t[a]) = Merge(r, s)[a]
  <2>1. /\ r[a] \in Nat \cup {Unlimited} /\ s[a] \in Nat \cup {Unlimited}
        /\ t[a] \in Nat \cup {Unlimited}
    BY <1>1
  <2>2. Merge(r, s)[a] = Wider(r[a], s[a]) /\ Wider(r[a], t[a]) = r[a]
    BY <1>2, <1>4 DEF Covers
  <2>. QED  BY <2>1, <2>2 DEF Wider
<1>. QED  BY <1>3, <1>4 DEF Covers

(* A step that leaves the record alone, adds no user and lets nobody into  *)
(* the window keeps the log covered.                                       *)
LEMMA CoverKept ==
  ASSUME NEW f \in Log, Covered(f), sidecar'[f] = sidecar[f], Users(f)' \subseteq Users(f),
         \A v \in Writer : Window(v, f)' =>
           Window(v, f) /\ pc'[v] = pc[v] /\ record'[v] = record[v]
  PROVE  Covered(f)'
<1>1. \A u : Admits(f, u)' = Admits(f, u)
  BY DEF Admits
<1>2. ASSUME NEW w \in Writer, Window(w, f)'
      PROVE  InWindow(w, f)'
  <2>1. InWindow(w, f) /\ pc'[w] = pc[w] /\ record'[w] = record[w]
    BY <1>2 DEF Covered
  <2>2. ~ Overlaps(w, f)'
    BY <2>1 DEF InWindow, Overlaps
  <2>. QED  BY <1>1, <2>1, <2>2 DEF InWindow
<1>. QED  BY <1>1, <1>2 DEF Covered

(* Every step keeps the undisturbed logs covered.                          *)
LEMMA CoverStep ==
  ASSUME TypeOK, CoverInv, [Next]_vars
  PROVE  CoverInv'
<1> SUFFICES ASSUME NEW f \in Log, f \notin disturbed'
             PROVE  Covered(f)'
  BY DEF CoverInv
<1>1. disturbed \subseteq disturbed'
  <2>1. ASSUME NEW w \in Writer,
               \/ Start(w) \/ Truncate(w) \/ Fill(w) \/ OpenLog(w) \/ Append(w)
               \/ EndListing(w) \/ Unrecord(w) \/ EndPass(w) \/ Fail(w) \/ Crash(w)
               \/ \E g \in Log : Write(w, g) \/ Examine(w, g)
        PROVE  disturbed' = disturbed
    BY <2>1 DEF Start, Truncate, Fill, OpenLog, Append, EndListing, Unrecord, EndPass,
       Fail, Crash, Write, Examine, history
  <2>2. ASSUME NEW w \in Writer, NEW g \in Log, ReadRecord(w, g)
        PROVE  disturbed \subseteq disturbed'
    BY <2>2 DEF ReadRecord, Disturb
  <2>3. ASSUME NEW w \in Writer, NEW s \in sweep[w].saw, Evict(w, s)
        PROVE  disturbed \subseteq disturbed'
    BY <2>3 DEF Evict, Disturb
  <2>4. Tick \/ UNCHANGED vars => disturbed' = disturbed
    BY DEF Tick, vars, history
  <2>. QED  BY <2>1, <2>2, <2>3, <2>4 DEF Next
<1>2. Covered(f)
  BY <1>1 DEF CoverInv
<1>3. \A w \in Writer : handle[w] \in [Log -> Handle] /\ w # "open"
  BY DEF TypeOK
<1>4. ASSUME NEW w \in Writer, UNCHANGED <<sidecar, authors, handle, record>>,
             \A v \in Writer \ {w} : pc'[v] = pc[v] /\ at'[v] = at[v],
             ~ Window(w, f)'
      PROVE  Covered(f)'
  BY <1>2, <1>4, CoverKept DEF Users, Window
<1>5. ASSUME NEW w \in Writer, Start(w) \/ EndPass(w) \/ EndListing(w)
      PROVE  Covered(f)'
  <2>1. UNCHANGED <<sidecar, authors, handle, record, at>>
    BY <1>5 DEF Start, EndPass, EndListing, files, history
  <2>2. pc'[w] \in {"idle", "list", "remove"} /\ \A v \in Writer \ {w} : pc'[v] = pc[v]
    <3>1. CASE EndListing(w)
      BY <3>1 DEF EndListing, TypeOK
    <3>2. CASE Prune(w) \/ BeginSize(w) \/ Rest(w)
      BY <3>2, PruneType
    <3>. QED  BY <1>5, <3>1, <3>2 DEF Start, EndPass
  <2>. QED  BY <1>4, <2>1, <2>2 DEF Window
<1>6. ASSUME NEW w \in Writer, NEW g \in Log, Write(w, g) \/ Examine(w, g)
      PROVE  Covered(f)'
  <2>1. UNCHANGED <<sidecar, authors, handle, record>>
        /\ \A v \in Writer \ {w} : pc'[v] = pc[v] /\ at'[v] = at[v]
    BY <1>6 DEF Write, Examine, Rest, files, history, TypeOK
  <2>2. pc'[w] \in {"append", "idle", "list"}
    BY <1>6 DEF Write, Examine, Rest, TypeOK
  <2>. QED  BY <1>4, <2>1, <2>2 DEF Window
<1>7. ASSUME NEW w \in Writer, NEW g \in Log, ReadRecord(w, g)
      PROVE  Covered(f)'
  <2>1. /\ UNCHANGED <<sidecar, authors, handle>>
        /\ pc[w] = "idle"
        /\ \A v \in Writer \ {w} : pc'[v] = pc[v] /\ at'[v] = at[v] /\ record'[v] = record[v]
    BY <1>7 DEF ReadRecord, files, TypeOK
  <2>2. CASE g # f \/ UNCHANGED <<pc, at, record>>
    <3>1. ~ Window(w, f)' \/ UNCHANGED <<pc, at, record>>
      BY <1>7, <2>2 DEF ReadRecord, Window, TypeOK
    <3>. QED  BY <1>2, <2>1, <3>1, CoverKept DEF Users, Window
  <2>3. CASE g = f /\ ~ UNCHANGED <<pc, at, record>>
    <3>1. ~ Overlaps(w, f)
      BY <1>7, <2>3 DEF ReadRecord, Disturb
    <3>2. at'[w] = f /\ \A u : Admits(f, u)' = Admits(f, u)
      BY <1>7, <2>1, <2>3 DEF ReadRecord, TypeOK, Admits
    <3>3. Users(f)' = Users(f) /\ Users(f) \subseteq Writer
      BY <2>1 DEF Users, TypeOK
    <3>4. Policy[w] \in Bounds /\ \A u \in Users(f) : Policy[u] \in Bounds
      BY <3>3, PolicyType
    <3>5. CASE sidecar[f] = None
      <4>1. record'[w] = Policy[w] /\ pc'[w] = "truncate"
        BY <1>7, <2>3, <3>5, RecordsAreWhole DEF ReadRecord, TypeOK
      <4>2. Users(f) = {}
        BY <1>2, <3>5, RecordsAreWhole DEF Covered, Admits
      <4>3. InWindow(w, f)'
        BY <2>1, <3>1, <3>3, <3>4, <4>1, <4>2, MergeCovers DEF InWindow, Overlaps, Window
      <4>. QED  BY <2>1, <3>1, <3>3, <4>2, <4>3 DEF Covered, Window, Overlaps
    <3>6. CASE sidecar[f] \in Bounds
      <4> DEFINE merged == Merge(sidecar[f], Policy[w])
      <4>1. /\ record'[w] = merged
            /\ pc'[w] = IF merged = sidecar[f] THEN "open" ELSE "truncate"
        BY <1>7, <2>3, <3>6, RecordsAreWhole DEF ReadRecord, TypeOK
      <4>2. /\ Covers(merged, Policy[w])
            /\ \A u \in Users(f) : Covers(merged, Policy[u])
        BY <1>2, <3>4, <3>6, MergeCovers, RecordsAreWhole DEF Covered, Admits
      <4>3. pc'[w] = "open" => Admits(f, w)
        BY <3>6, <4>1, <4>2 DEF Admits
      <4> HIDE DEF merged
      <4>4. InWindow(w, f)'
        BY <2>1, <3>1, <3>2, <3>3, <4>1, <4>2, <4>3 DEF InWindow, Overlaps, Window
      <4>. QED  BY <1>2, <2>1, <3>1, <3>2, <3>3, <4>4 DEF Covered, Window, Overlaps
    <3>. QED  BY <1>7, <2>3, <3>5, <3>6 DEF ReadRecord
  <2>. QED  BY <2>2, <2>3
<1>8. ASSUME NEW w \in Writer, at[w] # f, Truncate(w) \/ Fill(w) \/ OpenLog(w) \/ Unrecord(w)
      PROVE  Covered(f)'
  <2>1. sidecar'[f] = sidecar[f] /\ authors' = authors
    BY <1>8 DEF Truncate, Fill, OpenLog, Unrecord, history, TypeOK
  <2>2. \A v \in Writer : handle'[v][f] = handle[v][f]
    <3>1. CASE Truncate(w) \/ Fill(w) \/ Unrecord(w)
      BY <3>1 DEF Truncate, Fill, Unrecord
    <3>2. CASE OpenLog(w)
      <4>1. handle' = [handle EXCEPT ![w][at[w]] = "open"]
        BY <3>2 DEF OpenLog
      <4>. QED  BY <1>8, <4>1 DEF TypeOK
    <3>. QED  BY <1>8, <3>1, <3>2
  <2>3. ~ Window(w, f)'
    BY <1>8, RecordsAreWhole DEF Truncate, Fill, OpenLog, Unrecord, TypeOK, Window
  <2>4. \A v \in Writer \ {w} : Window(v, f)' =>
          Window(v, f) /\ pc'[v] = pc[v] /\ record'[v] = record[v]
    BY <1>8 DEF Truncate, Fill, OpenLog, Unrecord, TypeOK, Window
  <2>. QED  BY <1>2, <2>1, <2>2, <2>3, <2>4, CoverKept DEF Users
<1>9. ASSUME NEW w \in Writer, at[w] = f, Truncate(w)
      PROVE  Covered(f)'
  <2>1. Window(w, f) /\ InWindow(w, f) /\ pc[w] = "truncate"
    BY <1>2, <1>9 DEF Truncate, Window, Covered
  <2>2. sidecar'[f] = Torn /\ Users(f)' = Users(f) /\ record' = record /\ pc'[w] = "fill"
        /\ at' = at /\ \A v \in Writer \ {w} : pc'[v] = pc[v] /\ ~ Window(v, f)
    BY <1>9, <2>1 DEF Truncate, TypeOK, Users, history, InWindow, Overlaps
  <2>. QED  BY <2>1, <2>2 DEF Covered, InWindow, Window, Overlaps, Admits
<1>10. ASSUME NEW w \in Writer, at[w] = f, Fill(w)
       PROVE  Covered(f)'
  <2>1. Window(w, f) /\ InWindow(w, f) /\ pc[w] = "fill"
    BY <1>2, <1>10 DEF Fill, Window, Covered, InWindow
  <2>2. /\ Users(f)' = Users(f) /\ record' = record /\ pc'[w] = "open" /\ at' = at
        /\ \A v \in Writer \ {w} : pc'[v] = pc[v] /\ ~ Window(v, f)
    BY <1>10, <2>1 DEF Fill, TypeOK, Users, history, InWindow, Overlaps
  <2>3. sidecar'[f] = Torn \/ (sidecar'[f] = record[w] /\ record[w] \in Bounds)
    BY <1>10, <2>1 DEF Fill, TypeOK
  <2>4. \A u \in Users(f) \cup {w} : Covers(record[w], Policy[u])
    BY <2>1 DEF InWindow
  <2>. QED  BY <2>1, <2>2, <2>3, <2>4 DEF Covered, InWindow, Window, Overlaps, Admits
<1>11. ASSUME NEW w \in Writer, at[w] = f, OpenLog(w)
       PROVE  Covered(f)'
  <2>1. Window(w, f) /\ InWindow(w, f) /\ Admits(f, w)
    BY <1>2, <1>11 DEF OpenLog, Window, Covered, InWindow
  <2>2. /\ sidecar' = sidecar /\ pc'[w] = "append" /\ at' = at
        /\ \A v \in Writer \ {w} : pc'[v] = pc[v] /\ ~ Window(v, f)
    BY <1>11, <2>1 DEF OpenLog, TypeOK, InWindow, Overlaps
  <2>3. Users(f)' \subseteq Users(f) \cup {w}
    BY <1>11 DEF OpenLog, TypeOK, Users, history
  <2>. QED  BY <1>2, <2>1, <2>2, <2>3 DEF Covered, Window, Admits
<1>12. ASSUME NEW w \in Writer, Append(w)
       PROVE  Covered(f)'
  <2>1. /\ UNCHANGED <<sidecar, handle, record>>
        /\ pc'[w] \in {"idle", "list"}
        /\ \A v \in Writer \ {w} : pc'[v] = pc[v] /\ at'[v] = at[v]
    BY <1>12, PruneType DEF Append, TypeOK
  <2>2. Users(f)' = Users(f)
    <3>1. at[w] \in Log
      BY <1>12 DEF Append, TypeOK
    <3>2. \/ authors' = authors
          \/ handle[w][at[w]] = "open" /\ authors' = [authors EXCEPT ![at[w]] = @ \cup {w}]
      BY <1>12 DEF Append
    <3>. QED  BY <2>1, <3>1, <3>2 DEF Users, TypeOK
  <2>. QED  BY <1>2, <2>1, <2>2, CoverKept DEF Window
<1>13. ASSUME NEW w \in Writer, NEW s \in sweep[w].saw, Evict(w, s)
       PROVE  Covered(f)'
  <2>1. s.log \in Log
    BY DEF Sweep, Seen, TypeOK
  <2>2. /\ UNCHANGED <<sidecar, record>>
        /\ pc[w] = "remove" /\ pc'[w] = "unrecord" /\ at'[w] = s.log
        /\ \A v \in Writer \ {w} : pc'[v] = pc[v] /\ at'[v] = at[v]
        /\ authors' = [authors EXCEPT ![s.log] = {}]
    BY <1>13 DEF Evict, TypeOK
  <2>3. \A v \in Writer :
          /\ handle'[v][s.log] # "open"
          /\ \A g \in Log \ {s.log} : handle'[v][g] = handle[v][g]
    <3>1. ASSUME NEW v \in Writer \ {w}
          PROVE  handle'[v] = IF handle[v][s.log] = "open"
                              THEN [handle[v] EXCEPT ![s.log] = w] ELSE handle[v]
      BY <1>13 DEF Evict
    <3>2. handle'[w] = [handle[w] EXCEPT ![s.log] = "closed"]
      BY <1>13, <2>1 DEF Evict, Forget, TypeOK
    <3>3. ASSUME NEW v \in Writer \ {w}
          PROVE  /\ handle'[v][s.log] # "open"
                 /\ \A g \in Log \ {s.log} : handle'[v][g] = handle[v][g]
      <4>1. handle[v] \in [Log -> Handle] /\ w # "open"
        BY <1>3
      <4>. QED  BY <2>1, <3>1, <4>1
    <3>4. handle'[w][s.log] # "open" /\ \A g \in Log \ {s.log} : handle'[w][g] = handle[w][g]
      BY <1>3, <2>1, <3>2
    <3>. QED  BY <3>3, <3>4
  <2>4. CASE f = s.log
    <3>1. ~ Overlaps(w, f) /\ Users(f)' = {}
      BY <1>13, <2>1, <2>2, <2>3, <2>4 DEF Evict, Disturb, Users, TypeOK
    <3>. QED  BY <2>2, <2>4, <3>1 DEF Covered, InWindow, Window, Overlaps
  <2>5. CASE f # s.log
    <3>1. Users(f)' = Users(f)
      BY <2>1, <2>2, <2>3, <2>5 DEF Users, TypeOK
    <3>. QED  BY <1>2, <2>2, <2>5, <3>1, CoverKept DEF Window
  <2>. QED  BY <2>4, <2>5
<1>14. ASSUME NEW w \in Writer, at[w] = f, Unrecord(w)
       PROVE  Covered(f)'
  <2>1. Window(w, f) /\ InWindow(w, f) /\ Users(f) = {}
    BY <1>2, <1>14 DEF Unrecord, Window, Covered, InWindow
  <2>2. /\ Users(f)' = {} /\ ~ Window(w, f)'
    BY <1>14, <2>1, RecordsAreWhole DEF Unrecord, TypeOK, Users, history, Window
  <2>3. \A v \in Writer \ {w} : ~ Window(v, f)'
    BY <1>14, <2>1 DEF Unrecord, TypeOK, InWindow, Overlaps, Window
  <2>. QED  BY <2>2, <2>3 DEF Covered
<1>15. ASSUME NEW w \in Writer, Fail(w) \/ Crash(w)
       PROVE  Covered(f)'
  <2>1. /\ UNCHANGED <<sidecar, authors>> /\ pc'[w] \in {"idle", "down"}
        /\ \A v \in Writer \ {w} : pc'[v] = pc[v] /\ at'[v] = at[v] /\ record'[v] = record[v]
    BY <1>15 DEF Fail, Crash, Rest, Settle, files, history, TypeOK
  <2>2. \A v \in Writer : handle'[v][f] = "open" => handle[v][f] = "open"
    <3>1. CASE Fail(w)
      <4>1. UNCHANGED handle \/ \E g : handle' = [handle EXCEPT ![w] = Forget(w, g)]
        BY <3>1 DEF Fail
      <4>. QED  BY <1>3, <4>1 DEF Forget, TypeOK
    <3>2. CASE Crash(w)
      BY <3>2 DEF Crash, TypeOK
    <3>. QED  BY <1>15, <3>1, <3>2
  <2>3. Users(f)' \subseteq Users(f)
    BY <2>1, <2>2 DEF Users
  <2>. QED  BY <1>2, <2>1, <2>3, CoverKept DEF Window
<1>16. CASE Tick \/ UNCHANGED vars
  BY <1>2, <1>16, CoverKept DEF Tick, vars, files, history, Users, Window
<1>. QED
  BY <1>5, <1>6, <1>7, <1>8, <1>9, <1>10, <1>11, <1>12, <1>13, <1>14, <1>15, <1>16 DEF Next

(* The record of a log covers the bounds of every writer whose lines it    *)
(* holds, while it is whole and was never recorded or removed by two       *)
(* writers at a time: a sweep that reads it spares the lines of the        *)
(* unbounded (record_retention, RetentionPolicy::merge).                   *)
THEOREM RecordsCover == Spec => []RecordCoversItsWriters
<1>1. Init => CoverInv
  BY RecordsAreWhole DEF Init, CoverInv, Covered, Users, Window
<1>2. CoverInv => RecordCoversItsWriters
  BY RecordsAreWhole DEF CoverInv, Covered, Users, Admits, RecordCoversItsWriters
<1>. QED  BY <1>1, <1>2, CoverStep, TypeCorrect, PTL DEF Spec
=============================================================================
