------------------------------ MODULE LogSink ------------------------------
(***************************************************************************)
(* The diagnostic log of one connection.  A frame is attributed to a       *)
(* session (logsink/routing.rs), and its record goes through a bounded     *)
(* queue to a writer thread (logsink.rs); a full queue costs the record,   *)
(* never time.  The files are LogRetention; redaction is left out.         *)
(*                                                                         *)
(* A frame is what the attribution looks at: who sent it, the kind of its  *)
(* method, its request id and the session id it names, if any.  A record   *)
(* names the line it is about, the n-th of a source.                       *)
(***************************************************************************)
EXTENDS Naturals, Sequences

CONSTANTS
  Session,   \* session ids on the wire
  Safe,      \* those that are a path component, as validate_id demands
  Id,        \* JSON-RPC request ids; each peer numbers its own
  Capacity,  \* queue_capacity
  None       \* no id, no session, the connection's own file

Peer == {"client", "agent"}

ASSUME SinkAssumption ==
  /\ Safe \subseteq Session
  /\ Capacity \in Nat \ {0}
  /\ None \notin Session
  /\ None \notin Id
  /\ "created" \notin Session \cup {None}

VARIABLES
  requests,  \* SessionSniffer: the owner of each request in flight
  bound,     \* ConnectionLog.session_id
  queue,     \* commands for the writer
  writing,   \* the command the writer has taken
  flushed    \* the writer has acknowledged the flush

routing == <<requests, bound>>
writer  == <<queue, writing, flushed>>

(* A file a record can be written to: a session's or the connection's.     *)
Destination == Safe \cup {None}
Owner == Session \cup {None, "created"}
Sniffed == [session : Session \cup {None}, established : Session \cup {None}]
Flush == [to |-> None, line |-> <<"flush", 0>>]
Idle == [to |-> None, line |-> <<"idle", 0>>]
FileOf(session) == IF session \in Safe THEN session ELSE None
Record(line, session) == [to |-> FileOf(session), line |-> line]

SinkInit ==
  /\ requests = [p \in Peer |-> [i \in Id |-> None]]
  /\ bound = None
  /\ queue = <<Record(<<"launch", 0>>, None)>>
  /\ writing = Idle
  /\ flushed = FALSE

---------------------------------------------------------------------------
(* SessionSniffer::observe: a request is kept under its sender with the    *)
(* session it names, session/new under a session still to be created; an   *)
(* answer belongs to the request it takes out.                             *)
OneTable(f) == "client"
Asker(f) ==
  IF f.kind = "reply" THEN CHOOSE p \in Peer : p # f.from ELSE f.from
OwnerOf(f) == IF f.id = None THEN None ELSE requests[Asker(f)][f.id]

Sniff(f) ==
  LET created == OwnerOf(f) = "created" IN
  IF f.kind = "reply"
  THEN [session |-> IF created THEN f.session ELSE OwnerOf(f),
        established |-> IF created THEN f.session ELSE None]
  ELSE [session |-> f.session,
        established |-> IF f.kind = "load" /\ f.from = "client"
                        THEN f.session ELSE None]

Remember(f) ==
  requests' =
    IF f.id = None THEN requests
    ELSE [requests EXCEPT ![Asker(f)][f.id] =
            CASE f.kind = "reply" -> None
              [] f.kind = "new" /\ f.from = "client" -> "created"
              [] OTHER -> f.session]

(* try_send: a full queue drops the record.                                *)
Enqueue(record) ==
  /\ queue' = IF Len(queue) < Capacity THEN Append(queue, record) ELSE queue
  /\ UNCHANGED <<writing, flushed>>

(* bind_session: the mapping is recorded, then followed; an unusable id    *)
(* is neither.                                                             *)
Bind(session) ==
  IF session \in Safe
  THEN Enqueue(Record(<<"bound", 0>>, None)) /\ bound' = session
  ELSE UNCHANGED <<writer, bound>>

(* The flush waits for room, then for the writer.                          *)
RequestFlush ==
  /\ Len(queue) < Capacity
  /\ queue' = Append(queue, Flush)
  /\ UNCHANGED <<writing, flushed>>

---------------------------------------------------------------------------
(* The writer thread handles one command after the other: a record is      *)
(* written or counted as failed, a flush acknowledged.                     *)
WriterTakes ==
  /\ writing = Idle
  /\ queue # <<>>
  /\ writing' = Head(queue)
  /\ queue' = Tail(queue)
  /\ UNCHANGED flushed

WriterHandles ==
  /\ writing # Idle
  /\ writing' = Idle
  /\ flushed' = (flushed \/ writing = Flush)
  /\ UNCHANGED queue

Writer ==
  /\ WriterTakes \/ WriterHandles
  /\ UNCHANGED routing
===========================================================================
