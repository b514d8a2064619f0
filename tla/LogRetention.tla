---------------------------- MODULE LogRetention ----------------------------
(***************************************************************************)
(* The log files of one state directory, shared by the log writers of      *)
(* several processes (logsink.rs).  A writer records its retention bounds  *)
(* in a sidecar file beside a log before its first line there, and sweeps  *)
(* the whole directory after every line and when it starts: first the      *)
(* bounded logs that are too old, then the oldest bounded ones until the   *)
(* rest fits.  Nothing locks the directory, so every file operation is a   *)
(* step of its own.                                                        *)
(*                                                                         *)
(* A sidecar is created empty and then filled; a reader between the two,   *)
(* or after a crash between them, finds it Torn, which is an error.  A     *)
(* removed file lives on behind the handles that have it open.             *)
(***************************************************************************)
EXTENDS Integers, FiniteSets, FiniteSetsExt

CONSTANTS
  Writer,     \* the processes that log into the directory
  Log,        \* the log files they share
  Setting,    \* ACP_LOG_MAX_BYTES and ACP_LOG_MAX_AGE_DAYS of each writer
  MaxDays,    \* the largest day count whose seconds fit a u64
  Unlimited,  \* no bound on an axis
  None,       \* no sidecar
  Torn,       \* a sidecar that is not a whole record
  MaxSize,    \* bound: lines of a log before writers leave it alone
  MaxNow,     \* bound: the clock
  MaxFaults   \* bound: crashes and failed file operations

Axis == {"size", "age"}

ASSUME RetentionAssumption ==
  /\ IsFiniteSet(Log)
  /\ Unlimited \notin Int
  /\ None \notin [Axis -> Nat \cup {Unlimited}]
  /\ Torn \notin [Axis -> Nat \cup {Unlimited}]
  /\ None # Torn
  /\ None \notin Log
  /\ Writer \cap {"closed", "open"} = {}
  /\ MaxDays \in Nat

VARIABLES
  present,    \* the logs that exist
  size,       \* lines of each, in units of the byte bound
  modified,   \* when each was last written
  sidecar,    \* <log>.retention
  handle,     \* LogWriter.files: "open", or the writer that unlinked the file
  pc, at,     \* what each writer is doing, and to which log
  record,     \* the merged record a writer is about to store
  sweep,      \* the pass of LogWriter::prune a writer is in
  now,
  faults,
  \* History, read by the properties only.
  asked,      \* who ever set out to record its bounds for a log
  authors,    \* whose lines the present file holds
  disturbed   \* a recording of the log overlapped another, or its removal

files   == <<present, size, modified, sidecar>>
history == <<asked, authors, disturbed>>
vars    == <<files, handle, pc, at, record, sweep, now, faults, history>>

---------------------------------------------------------------------------
(* An override that is missing, zero, malformed or too large in seconds    *)
(* leaves its axis unlimited.                                              *)
AsWritten(axis, raw) == axis = "age" => raw <= MaxDays
Usable(axis, raw) == raw \in Nat \ {0} /\ (axis = "age" => raw <= MaxDays)
Policy == [w \in Writer |-> [a \in Axis |->
            IF Usable(a, Setting[w][a]) THEN Setting[w][a] ELSE Unlimited]]

(* The more permissive of two records, axis by axis.                       *)
Wider(x, y) ==
  IF Unlimited \in {x, y} THEN Unlimited ELSE IF x > y THEN x ELSE y
Narrower(x, y) ==
  IF x = Unlimited THEN y ELSE IF y = Unlimited \/ x < y THEN x ELSE y
Tighten(r, s) == [a \in Axis |-> Narrower(r[a], s[a])]
Merge(r, s) == [a \in Axis |-> Wider(r[a], s[a])]

Bounds == [Axis -> Nat \cup {Unlimited}]
Handle == {"closed", "open"} \cup Writer
Stage == {"down", "idle", "truncate", "fill", "lost", "open", "append", "list",
          "remove", "unrecord"}
Seen == [log : Log, size : Nat, modified : Nat]
Sweep == [axis : Axis, since : Int, todo : SUBSET Log, saw : SUBSET Seen]
NoSweep == [axis |-> "age", since |-> 0, todo |-> {}, saw |-> {}]

(* Between reading a log's record and opening the log, and between         *)
(* removing a log and removing its record.                                 *)
Window(w, f) ==
  /\ at[w] = f
  /\ pc[w] \in {"truncate", "fill", "lost", "open", "unrecord"}
Overlaps(w, f) == \E v \in Writer \ {w} : Window(v, f)
Disturb(w, f) ==
  disturbed' = IF Overlaps(w, f) THEN disturbed \cup {f} ELSE disturbed

(* A write or a sweep is over; an error that ends one is only counted.     *)
Settle(w) ==
  /\ at' = [at EXCEPT ![w] = None]
  /\ record' = [record EXCEPT ![w] = Policy[w]]
Rest(w) ==
  /\ pc' = [pc EXCEPT ![w] = "idle"]
  /\ sweep' = [sweep EXCEPT ![w] = NoSweep]

(* The pass a writer is in next: a pass is skipped when its axis is        *)
(* unlimited.  The clock is read and the directory listed when it begins.  *)
Pass(w, axis) ==
  [axis |-> axis, todo |-> present, saw |-> {},
   since |-> IF axis = "age" THEN now - Policy[w]["age"] ELSE 0]
BeginSize(w) ==
  IF Policy[w]["size"] = Unlimited
  THEN Rest(w)
  ELSE /\ pc' = [pc EXCEPT ![w] = "list"]
       /\ sweep' = [sweep EXCEPT ![w] = Pass(w, "size")]
Prune(w) ==
  IF Policy[w]["age"] = Unlimited
  THEN BeginSize(w)
  ELSE /\ pc' = [pc EXCEPT ![w] = "list"]
       /\ sweep' = [sweep EXCEPT ![w] = Pass(w, "age")]

Init ==
  /\ present \in SUBSET Log   \* logs of before sidecars were written
  /\ size = [f \in Log |-> IF f \in present THEN 1 ELSE 0]
  /\ modified = [f \in Log |-> 0]
  /\ sidecar = [f \in Log |-> None]
  /\ handle = [w \in Writer |-> [f \in Log |-> "closed"]]
  /\ pc = [w \in Writer |-> "down"]
  /\ at = [w \in Writer |-> None]
  /\ record = [w \in Writer |-> Policy[w]]
  /\ sweep = [w \in Writer |-> NoSweep]
  /\ now = 0
  /\ faults = 0
  /\ asked = [f \in Log |-> {}]
  /\ authors = [f \in Log |-> {}]
  /\ disturbed = {}

(* LogWriter::run sweeps before it takes its first command.                *)
Start(w) ==
  /\ pc[w] = "down"
  /\ Prune(w)
  /\ UNCHANGED <<files, handle, at, record, now, faults, history>>

---------------------------------------------------------------------------
(* try_write.  With the log open the line is appended at once; otherwise   *)
(* record_retention reads the sidecar, and leaves it alone when it is      *)
(* already as permissive.                                                  *)
Write(w, f) ==
  /\ pc[w] = "idle"
  /\ handle[w][f] # "closed"
  /\ size[f] < MaxSize
  /\ pc' = [pc EXCEPT ![w] = "append"]
  /\ at' = [at EXCEPT ![w] = f]
  /\ UNCHANGED <<files, handle, record, sweep, now, faults, history>>

ReadRecord(w, f) ==
  /\ pc[w] = "idle"
  /\ handle[w][f] = "closed"
  /\ size[f] < MaxSize
  /\ asked' = [asked EXCEPT ![f] = @ \cup {w}]
  /\ Disturb(w, f)
  /\ \/ /\ sidecar[f] = Torn
        /\ UNCHANGED <<pc, at, record>>
     \/ /\ sidecar[f] = None
        /\ at' = [at EXCEPT ![w] = f]
        /\ record' = [record EXCEPT ![w] = Policy[w]]
        /\ pc' = [pc EXCEPT ![w] = "truncate"]
     \/ /\ sidecar[f] \in Bounds
        /\ at' = [at EXCEPT ![w] = f]
        /\ LET merged == Merge(sidecar[f], Policy[w])
           IN /\ record' = [record EXCEPT ![w] = merged]
              /\ pc' = [pc EXCEPT ![w] =
                   IF merged = sidecar[f] THEN "open" ELSE "truncate"]
  /\ UNCHANGED <<files, handle, sweep, now, faults, authors>>

(* fs::write truncates or creates the sidecar and then fills it.  A second *)
(* writer between the two starts over at the front: a shorter text leaves  *)
(* the end of a longer one behind.  A sidecar removed meanwhile takes the  *)
(* text with it.                                                           *)
Truncate(w) ==
  /\ pc[w] = "truncate"
  /\ sidecar' = [sidecar EXCEPT ![at[w]] = Torn]
  /\ pc' = [pc EXCEPT ![w] = "fill"]
  /\ UNCHANGED <<present, size, modified, handle, at, record, sweep, now, faults,
                 history>>

Fill(w) ==
  LET f == at[w]
  IN /\ \/ /\ pc[w] = "fill"
           /\ \/ sidecar' = [sidecar EXCEPT ![f] = record[w]]
              \/ /\ sidecar[f] \notin {Torn, record[w]}
                 /\ sidecar' = [sidecar EXCEPT ![f] = Torn]
        \/ /\ pc[w] = "lost"
           /\ UNCHANGED sidecar
     /\ pc' = [pc EXCEPT ![w] = "open"]
     /\ UNCHANGED <<present, size, modified, handle, at, record, sweep, now, faults,
                    history>>

OpenLog(w) ==
  LET f == at[w]
  IN /\ pc[w] = "open"
     /\ present' = present \cup {f}
     /\ modified' = [modified EXCEPT ![f] = IF f \in present THEN @ ELSE now]
     /\ handle' = [handle EXCEPT ![w][f] = "open"]
     /\ pc' = [pc EXCEPT ![w] = "append"]
     /\ record' = [record EXCEPT ![w] = Policy[w]]
     /\ UNCHANGED <<size, sidecar, at, sweep, now, faults, history>>

(* The line is written, to nobody when the file was unlinked, and the      *)
(* sweep follows.                                                          *)
Append(w) ==
  LET f == at[w]
  IN /\ pc[w] = "append"
     /\ IF handle[w][f] = "open"
        THEN /\ size' = [size EXCEPT ![f] = @ + 1]
             /\ modified' = [modified EXCEPT ![f] = now]
             /\ authors' = [authors EXCEPT ![f] = @ \cup {w}]
        ELSE UNCHANGED <<size, modified, authors>>
     /\ at' = [at EXCEPT ![w] = None]
     /\ Prune(w)
     /\ UNCHANGED <<present, sidecar, handle, record, now, faults, asked,
                    disturbed>>

---------------------------------------------------------------------------
(* prune.  collect_log_files looks at each log and reads its record; a log *)
(* gone since the listing, or a torn record, is an error that aborts the   *)
(* sweep.  A log counts when its record bounds the axis, and for the age   *)
(* pass when it is older than the cutoff.  The look and the read are one   *)
(* step: what comes between could also come before or after both, but for  *)
(* a size or a time that is older than the record it is judged by.         *)
CountsAny(w, f) ==
  sweep[w].axis = "age" => modified[f] < sweep[w].since
Counts(w, f) ==
  /\ sidecar[f] # None
  /\ sidecar[f][sweep[w].axis] # Unlimited
  /\ sweep[w].axis = "age" => modified[f] < sweep[w].since

Examine(w, f) ==
  /\ pc[w] = "list"
  /\ f \in sweep[w].todo
  /\ IF f \notin present \/ sidecar[f] = Torn
     THEN Rest(w)
     ELSE LET seen == [log |-> f, size |-> size[f], modified |-> modified[f]]
          IN /\ sweep' = [sweep EXCEPT
                  ![w].todo = @ \ {f},
                  ![w].saw = IF Counts(w, f) THEN @ \cup {seen} ELSE @]
             /\ UNCHANGED pc
  /\ UNCHANGED <<files, handle, at, record, now, faults, history>>

EndListing(w) ==
  /\ pc[w] = "list"
  /\ sweep[w].todo = {}
  /\ pc' = [pc EXCEPT ![w] = "remove"]
  /\ UNCHANGED <<files, handle, at, record, sweep, now, faults, history>>

Total(saw) == MapThenSumSet(LAMBDA s : s.size, saw)
Victims(w) ==
  LET saw == sweep[w].saw
  IN {s \in saw :
        sweep[w].axis = "size" => /\ Total(saw) > Policy[w]["size"]
                                  /\ \A t \in saw : s.modified <= t.modified}

(* remove_log_file: the writer lets go of its own handle, then unlinks the *)
(* log, then its record.  A file that is already gone is no error.         *)
Keep(w, f) == handle[w]
Forget(w, f) == [handle[w] EXCEPT ![f] = "closed"]
Evict(w, s) ==
  LET f == s.log
      unlinked(v) ==
        IF handle[v][f] = "open" THEN [handle[v] EXCEPT ![f] = w] ELSE handle[v]
      own == Forget(w, f)
  IN /\ pc[w] = "remove"
     /\ s \in Victims(w)
     /\ Disturb(w, f)
     /\ present' = present \ {f}
     /\ size' = [size EXCEPT ![f] = 0]
     /\ modified' = [modified EXCEPT ![f] = 0]
     /\ authors' = [authors EXCEPT ![f] = {}]
     /\ handle' = [v \in Writer |->
          IF v # w THEN unlinked(v)
          ELSE IF own[f] = "open" THEN [own EXCEPT ![f] = w] ELSE own]
     /\ sweep' = [sweep EXCEPT ![w].saw = @ \ {s}]
     /\ at' = [at EXCEPT ![w] = f]
     /\ pc' = [pc EXCEPT ![w] = "unrecord"]
     /\ UNCHANGED <<sidecar, record, now, faults, asked>>

Unrecord(w) ==
  LET f == at[w]
  IN /\ pc[w] = "unrecord"
     /\ sidecar' = [sidecar EXCEPT ![f] = None]
     /\ at' = [at EXCEPT ![w] = None]
     /\ pc' = [v \in Writer |->
          IF v = w THEN "remove"
          ELSE IF at[v] = f /\ pc[v] = "fill" THEN "lost" ELSE pc[v]]
     /\ UNCHANGED <<present, size, modified, handle, record, sweep, now, faults,
                    history>>

EndPass(w) ==
  /\ pc[w] = "remove"
  /\ Victims(w) = {}
  /\ IF sweep[w].axis = "age" THEN BeginSize(w) ELSE Rest(w)
  /\ UNCHANGED <<files, handle, at, record, now, faults, history>>

---------------------------------------------------------------------------
(* A file operation fails; a failed unlink has already closed the handle.  *)
Fail(w) ==
  /\ pc[w] \notin {"down", "idle"}
  /\ faults < MaxFaults
  /\ faults' = faults + 1
  /\ \/ UNCHANGED handle
     \/ \E s \in Victims(w) : /\ pc[w] = "remove"
                              /\ handle' = [handle EXCEPT ![w] = Forget(w, s.log)]
  /\ Rest(w)
  /\ Settle(w)
  /\ UNCHANGED <<files, now, history>>

Crash(w) ==
  /\ pc[w] # "down"
  /\ faults < MaxFaults
  /\ faults' = faults + 1
  /\ pc' = [pc EXCEPT ![w] = "down"]
  /\ handle' = [handle EXCEPT ![w] = [f \in Log |-> "closed"]]
  /\ sweep' = [sweep EXCEPT ![w] = NoSweep]
  /\ Settle(w)
  /\ UNCHANGED <<files, now, history>>

Tick ==
  /\ now < MaxNow
  /\ now' = now + 1
  /\ UNCHANGED <<files, handle, pc, at, record, sweep, faults, history>>

Next ==
  \/ \E w \in Writer :
       \/ Start(w)
       \/ \E f \in Log : Write(w, f) \/ ReadRecord(w, f) \/ Examine(w, f)
       \/ Truncate(w)
       \/ Fill(w)
       \/ OpenLog(w)
       \/ Append(w)
       \/ EndListing(w)
       \/ \E s \in sweep[w].saw : Evict(w, s)
       \/ Unrecord(w)
       \/ EndPass(w)
       \/ Fail(w)
       \/ Crash(w)
  \/ Tick

Spec == Init /\ [][Next]_vars

---------------------------------------------------------------------------
(* What the variables hold.                                                *)
TypeOK ==
  /\ present \subseteq Log
  /\ size \in [Log -> Nat]
  /\ modified \in [Log -> Nat]
  /\ sidecar \in [Log -> Bounds \cup {None, Torn}]
  /\ handle \in [Writer -> [Log -> Handle]]
  /\ pc \in [Writer -> Stage]
  /\ at \in [Writer -> Log \cup {None}]
  /\ \A w \in Writer : at[w] = None => pc[w] \in {"down", "idle", "list", "remove"}
  /\ record \in [Writer -> Bounds]
  /\ sweep \in [Writer -> Sweep]
  /\ now \in Nat
  /\ faults \in Nat
  /\ asked \in [Log -> SUBSET Writer]
  /\ authors \in [Log -> SUBSET Writer]
  /\ disturbed \subseteq Log

(* A sweep removes a log only if some writer that has logged there set a   *)
(* usable bound on the axis of the pass: a log that only unbounded writers *)
(* ever used, and a log older than the records, stay for good, whatever    *)
(* the other writers, crashes and half-written records do.                 *)
OnlyBoundedLogsGo ==
  [][\A w \in Writer, f \in Log :
       (f \in present /\ f \notin present' /\ pc[w] = "remove" /\ pc'[w] = "unrecord")
         => \E v \in asked[f] : Usable(sweep[w].axis, Setting[v][sweep[w].axis])]_vars

(* A writer never goes on writing to a file that its own sweep unlinked:   *)
(* with a bound, a lone writer loses no line it writes after the sweep.    *)
OwnSweepLosesNothing == \A w \in Writer, f \in Log : handle[w][f] # w

(* As long as nobody records or removes a log while another opens it, its  *)
(* record is at least as permissive as every writer whose lines it holds,  *)
(* so a sweep that reads the record later spares the lines of the          *)
(* unbounded.                                                              *)
Covers(r, s) == \A a \in Axis : Wider(r[a], s[a]) = r[a]
RecordCoversItsWriters ==
  \A f \in Log \ disturbed :
    sidecar[f] \in Bounds => \A w \in authors[f] : Covers(sidecar[f], Policy[w])

(* docs/logging.md: an agent configured with a bound can never delete the  *)
(* logs of an agent that runs unbounded, even when both share a log root.  *)
UnboundedIsKept ==
  [][\A w \in Writer, f \in Log :
       (f \in present /\ f \notin present' /\ pc[w] = "remove" /\ pc'[w] = "unrecord")
         => \A v \in authors[f] : Policy[v][sweep[w].axis] # Unlimited]_vars
=============================================================================
