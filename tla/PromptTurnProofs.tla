------------------------- MODULE PromptTurnProofs -------------------------
(***************************************************************************)
(* Proofs about PromptTurn for every set of tools and every bound: the     *)
(* types, what authorizes a call, what the client sees, what of the        *)
(* conversation is on disk, that a later load shows what the turn showed,  *)
(* and that no command outlives its call.                                  *)
(*                                                                         *)
(* Fourteen actions work on the call at the head of the batch; CallMoves   *)
(* says once what they do to the conversation, and the proofs about the    *)
(* conversation go by the few kinds of step that are left.                 *)
(***************************************************************************)
EXTENDS PromptTurn, SequenceTheorems, WellFoundedInduction, TLAPS

USE TurnAssumption

---------------------------------------------------------------------------
(* The stages of a call that has no result yet.                            *)
Active == Stage \cup {"policy", "asking", "decide", "approved", "effect",
                      "reading", "writing", "running", "cancelling", "exit"}

(* The actions that work on the call at the head of the batch.             *)
CallAction ==
  \/ LookAtToken
  \/ LookAtMode
  \/ Approved
  \/ Policy
  \/ Decide
  \/ NoticeTimeout
  \/ Abandon
  \/ Effect
  \/ ExitPlan
  \/ \E r \in Reply : Answer(r)
  \/ CommandEnds
  \/ ReadEnds
  \/ NoticeSent
  \/ WriteAnswered

(* What such an action does to the conversation: the call gets its result, *)
(* goes on to a stage, is reported in progress, or its token was looked at.*)
Looked == looked' = TRUE /\ UNCHANGED <<pc, messages, queue, told>>
CallMove ==
  \/ \E ok \in BOOLEAN : Result(ok)
  \/ \E stage \in Active : Enter(stage)
  \/ Started
  \/ Looked

(* The other actions of the turn and of those who act on it.               *)
TurnAction ==
  \/ RefusePrompt
  \/ BeginTurn
  \/ SavePrompt
  \/ Admit
  \/ RequestOrStop
  \/ StreamCancelled
  \/ SaveFinal
  \/ NextCall
  \/ Transition
  \/ SaveCycle
  \/ \E tools \in Batch, asked \in BOOLEAN : StreamEnds(tools, asked)
  \/ Fail
  \/ Shutdown
  \/ Cancel
  \/ \E m \in Mode : SetMode(m)

(* Every step is one of the two kinds.                                     *)
LEMMA Kinds == Next <=> CallAction \/ TurnAction
BY DEF Next, Own, CallAction, TurnAction

(* A call that is worked on has a record, and so have the calls after it.  *)
LEMMA CallTypes ==
  ASSUME TypeOK, pc \in Active \/ queue # <<>>
  PROVE  /\ queue # <<>>
         /\ call \in Call /\ call.id \in Id /\ call.tool \in Tool
         /\ Tail(queue) \in Seq(Call) /\ Len(Tail(queue)) = Len(queue) - 1
<1>1. queue \in Seq(Call) /\ queue # <<>>
  BY DEF TypeOK, Active, Stage, Idle
<1>2. Head(queue) \in Call /\ Tail(queue) \in Seq(Call)
      /\ Len(Tail(queue)) = Len(queue) - 1
  BY <1>1, HeadTailProperties
<1>3. QED
  BY <1>1, <1>2 DEF call, Call

(* A move keeps the stages apart from the rest of the turn.                *)
LEMMA CallMoves ==
  ASSUME TypeOK, CallAction
  PROVE  /\ pc \in Active
         /\ CallMove
         /\ UNCHANGED course
         /\ stop = "none"
<1> USE DEF Enter, Completed, Failed, CallMove
<1>1. CASE LookAtToken
  BY <1>1 DEF LookAtToken, IsCancelled, Looked, Active, Stage, TypeOK
<1>2. CASE LookAtMode
  <2>1. Pass => CallMove
    BY DEF Pass, Run, ListDir, UpdatePlan, StartRead, StartWalk, InPlan,
       NeedsPermission, Active, Stage
  <2>2. QED
    BY <1>2, <2>1 DEF LookAtMode, Looks, Active, Stage, TypeOK
<1>3. Grant => CallMove
  BY DEF Grant, Active, Stage
<1>4. CASE Approved
  BY <1>4 DEF Approved, Active, TypeOK
<1>5. CASE Policy
  BY <1>3, <1>5 DEF Policy, Active, TypeOK
<1>6. CASE Decide
  BY <1>3, <1>6 DEF Decide, Active, TypeOK
<1>7. CASE NoticeTimeout \/ NoticeSent
  BY <1>7 DEF NoticeTimeout, NoticeSent, Active, TypeOK
<1>8. CASE Abandon
  BY <1>8 DEF Abandon, Active, TypeOK
<1>9. CASE Effect
  BY <1>9 DEF Effect, WriteFile, CallServer, RunCommand, Active, TypeOK
<1>10. CASE ExitPlan
  BY <1>10 DEF ExitPlan, Active, TypeOK
<1>11. CASE \E r \in Reply : Answer(r)
  BY <1>11 DEF Answer, Active, Stage, TypeOK
<1>12. CASE CommandEnds \/ WriteAnswered
  BY <1>12 DEF CommandEnds, WriteAnswered, Active, TypeOK
<1>13. CASE ReadEnds
  BY <1>13 DEF ReadEnds, ReadFile, Walk, Active, TypeOK
<1>14. QED
  BY <1>1, <1>2, <1>4, <1>5, <1>6, <1>7, <1>8, <1>9, <1>10, <1>11, <1>12,
     <1>13 DEF CallAction

(* What a call's result does to the conversation.                          *)
LEMMA ResultTypes ==
  ASSUME TypeOK, pc \in Active, NEW ok \in BOOLEAN, Result(ok)
  PROVE  /\ messages' \in Seq(Message) /\ Len(messages') = Len(messages) + 1
         /\ queue' \in Seq(Call) /\ Len(queue') = Len(queue) - 1
<1>1. call.id \in Id /\ queue' \in Seq(Call) /\ Len(queue') = Len(queue) - 1
  BY CallTypes DEF Result
<1> DEFINE m == [role |-> "tool", calls |-> <<call.id>>, asked |-> FALSE,
                 success |-> ok]
<1>2. <<call.id>> \in Seq(Id)
  BY <1>1
<1>3. m \in Message
  BY <1>2 DEF Message
<1>4. messages \in Seq(Message) /\ messages' = Append(messages, m)
  BY DEF Result, TypeOK
<1>5. messages' \in Seq(Message) /\ Len(messages') = Len(messages) + 1
  BY <1>3, <1>4, AppendProperties
<1>6. QED
  BY <1>1, <1>5

(* What a client may be told of a call.                                    *)
Known == {"unknown", "pending", "in_progress", "completed", "failed"}

(* A move of a call keeps the conversation and the batch within their      *)
(* types, and the batch is left only when it is empty.                     *)
LEMMA MoveTypes ==
  ASSUME TypeOK, pc \in Active, CallMove
  PROVE  /\ messages' \in Seq(Message) /\ Len(messages) <= Len(messages')
         /\ queue' \in Seq(Call)
         /\ told' \in [Id -> Known]
         /\ looked' \in BOOLEAN
         /\ pc' \in Active \cup {"batch"}
         /\ queue' = <<>> => pc' = "batch"
<1>1. /\ messages \in Seq(Message) /\ Len(messages) \in Nat
      /\ queue \in Seq(Call) /\ queue # <<>>
      /\ told \in [Id -> Known] /\ looked \in BOOLEAN
      /\ call.id \in Id
  BY CallTypes DEF TypeOK, Known
<1>2. \A status \in Known : Tell(status) => told' \in [Id -> Known]
  BY <1>1 DEF Tell
<1>3. /\ messages' \in Seq(Message) /\ Len(messages) <= Len(messages')
      /\ queue' \in Seq(Call)
  <2>1. CASE \E ok \in BOOLEAN : Result(ok)
    BY <1>1, <2>1, ResultTypes
  <2>2. CASE UNCHANGED <<messages, queue>>
    BY <1>1, <2>2
  <2>3. QED
    BY <2>1, <2>2 DEF CallMove, Enter, Started, Looked
<1>4. told' \in [Id -> Known]
  <2>1. CASE \E ok \in BOOLEAN : Result(ok)
    BY <1>2, <2>1 DEF Result, ReportToolResult, Status, Known
  <2>2. CASE Started
    BY <1>2, <2>2 DEF Started, ReportInProgress, Known
  <2>3. CASE UNCHANGED told
    BY <1>1, <2>3
  <2>4. QED
    BY <2>1, <2>2, <2>3 DEF CallMove, Enter, Looked
<1>5. looked' \in BOOLEAN /\ pc' \in Active \cup {"batch"}
  BY <1>1 DEF CallMove, Result, Enter, Started, Looked, Active
<1>6. queue' = <<>> => pc' = "batch"
  BY <1>1 DEF CallMove, Result, Enter, Started, Looked
<1>7. QED
  BY <1>3, <1>4, <1>5, <1>6

(* What the user and the modes have allowed, and what is recorded of the   *)
(* call, keep their types.                                                 *)
LEMMA CallSettings ==
  ASSUME TypeOK, CallAction
  PROVE  /\ mode' \in Mode /\ cancelled' = cancelled
         /\ allowed' \subseteq Tool /\ rejected' \subseteq Tool
         /\ reply' \in Reply /\ refusal' \in BOOLEAN /\ late' \in BOOLEAN
         /\ transition' \in {"none", "accept_edits"}
         /\ effects' \subseteq Id /\ group' \in BOOLEAN
         /\ shown' \in {"running", "requires_action", "idle"}
<1> USE DEF session
<1>1. call.id \in Id /\ call.tool \in Tool
  BY CallMoves, CallTypes
<1>2. CASE LookAtToken \/ LookAtMode \/ Approved \/ NoticeTimeout \/ ReadEnds
           \/ NoticeSent \/ WriteAnswered
  BY <1>2 DEF TypeOK, LookAtToken, LookAtMode, Approved, NoticeTimeout, ReadEnds,
              NoticeSent, WriteAnswered
<1>3. CASE Policy
  BY <1>3 DEF TypeOK, Policy
<1>4. CASE Decide
  BY <1>1, <1>4 DEF TypeOK, Decide, Remember, Reply
<1>5. CASE Abandon \/ CommandEnds
  BY <1>5 DEF TypeOK, Abandon, CommandEnds, KillGroup, Release
<1>6. CASE Effect
  BY <1>1, <1>6 DEF TypeOK, Effect, WriteFile, CallServer, RunCommand, Started
<1>7. CASE ExitPlan
  BY <1>7 DEF TypeOK, ExitPlan, TransitionOf, Mode
<1>8. CASE \E r \in Reply : Answer(r)
  BY <1>8 DEF TypeOK, Answer, Resumed, Allows, Kind, Harmless
<1>9. QED
  BY <1>2, <1>3, <1>4, <1>5, <1>6, <1>7, <1>8 DEF CallAction

(* A request is out while the turn reads its stream.                       *)
RequestInv == pc = "stream" => request > 0

(* A step of a call keeps the types.                                       *)
LEMMA CallKeepsTypes ==
  ASSUME TypeOK, CallAction
  PROVE  TypeOK' /\ RequestInv'
<1>1. pc \in Active /\ CallMove /\ stop = "none" /\ UNCHANGED course
  BY CallMoves
<1>2. UNCHANGED <<request, saved, stop, accepted, modes>>
  BY <1>1 DEF course
<1>3. saved' \in 0 .. Len(messages')
  BY <1>1, <1>2, MoveTypes DEF TypeOK
<1>4. pc' # "done" /\ pc' \notin Idle
  BY <1>1, MoveTypes DEF Active, Stage, Idle
<1>5. QED
  BY <1>1, <1>2, <1>3, <1>4, MoveTypes, CallSettings
     DEF TypeOK, RequestInv, Active, Stage, Idle, Known

(* What the end of a stream adds: an assistant message and, if it asks for *)
(* its calls to be run, the batch of these calls.                          *)
LEMMA StreamTypes ==
  ASSUME TypeOK, RequestInv, NEW tools \in Batch, NEW asked \in BOOLEAN,
         StreamEnds(tools, asked)
  PROVE  \E m \in Message :
           /\ m.role = "assistant"
           /\ \A k \in DOMAIN m.calls : m.calls[k] = <<request, k>>
           /\ messages' = Append(messages, m)
           /\ \/ /\ pc' = "batch" /\ queue' # <<>> /\ queue' \in Seq(Call)
                 /\ m.asked
                 /\ Len(m.calls) = Len(queue')
                 /\ \A k \in 1 .. Len(queue') : queue'[k].id = m.calls[k]
              \/ /\ pc' = "final" /\ queue' = queue
                 /\ m.asked => m.calls = <<>>
<1> DEFINE id(i) == <<request, i>>
           m == [role |-> "assistant", asked |-> asked, success |-> TRUE,
                 calls |-> [i \in DOMAIN tools |-> id(i)]]
           q == [i \in DOMAIN tools |-> [id |-> id(i), tool |-> tools[i]]]
<1>1. PICK n \in 0 .. MaxBatch : tools \in [1 .. n -> Tool]
  BY DEF Batch
<1>2. n \in Nat /\ DOMAIN tools = 1 .. n /\ tools \in Seq(Tool)
      /\ (tools = <<>> <=> n = 0)
  BY <1>1
<1>3. \A i \in 1 .. n : id(i) \in Id
  BY <1>1 DEF StreamEnds, TypeOK, RequestInv, Id
<1>4. m.calls \in Seq(Id) /\ Len(m.calls) = n /\ \A i \in 1 .. n : m.calls[i] = id(i)
  BY <1>2, <1>3
<1>5. m \in Message
  BY <1>4 DEF Message
<1>6. /\ q \in Seq(Call) /\ Len(q) = n
      /\ \A i \in 1 .. n : q[i].id = id(i)
  <2>1. \A i \in 1 .. n : [id |-> id(i), tool |-> tools[i]] \in Call
    BY <1>1, <1>3 DEF Call
  <2>2. QED
    BY <1>2, <2>1
<1>7. messages' = Append(messages, m)
  BY DEF StreamEnds
<1>11. \A k \in DOMAIN m.calls : m.calls[k] = <<request, k>>
  BY <1>2
<1>8. CASE asked /\ tools # <<>>
  <2>1. queue' = q /\ pc' = "batch"
    BY <1>8 DEF StreamEnds
  <2>2. q # <<>>
    BY <1>2, <1>6, <1>8
  <2>3. QED
    <3>1. /\ Len(m.calls) = Len(queue')
          /\ \A k \in 1 .. Len(queue') : queue'[k].id = m.calls[k]
      BY <1>4, <1>6, <2>1
    <3>2. m.role = "assistant" /\ m.asked
      BY <1>8
    <3>3. queue' \in Seq(Call) /\ queue' # <<>>
      BY <1>6, <2>1, <2>2
    <3>4. QED
      BY <1>5, <1>7, <1>11, <2>1, <3>1, <3>2, <3>3
<1>9. CASE ~ (asked /\ tools # <<>>)
  <2>1. queue' = queue /\ pc' = "final"
    BY <1>9 DEF StreamEnds
  <2>2. m.asked => m.calls = <<>>
    BY <1>2, <1>4, <1>9
  <2>3. QED
    BY <1>5, <1>7, <1>11, <2>1, <2>2
<1>10. QED
  BY <1>8, <1>9

(* The steps around the calls keep the types.                              *)
LEMMA TurnKeepsTypes ==
  ASSUME TypeOK, RequestInv, TurnAction
  PROVE  TypeOK' /\ RequestInv'
<1> USE DEF TypeOK, RequestInv, session, batch, progress, course, Idle, Stage, End
<1>0. messages \in Seq(Message) /\ Len(messages) \in Nat
  OBVIOUS
<1>1. CASE RefusePrompt \/ BeginTurn
  BY <1>1 DEF RefusePrompt, BeginTurn
<1>2. CASE SavePrompt
  BY <1>0, <1>2 DEF SavePrompt
<1>3. CASE RequestOrStop
  BY <1>3 DEF RequestOrStop, MayRequest
<1>4. CASE StreamCancelled \/ Fail
  BY <1>4 DEF StreamCancelled, Fail
<1>5. CASE SaveFinal
  BY <1>0, <1>5 DEF SaveFinal
<1>6. CASE NextCall
  <2>1. call.id \in Id
    BY <1>6, CallTypes DEF NextCall
  <2>2. told' \in [Id -> Known]
    BY <1>6, <2>1 DEF NextCall, ReportToolCall, Tell, Known
  <2>3. reply' \in Reply /\ refusal' \in BOOLEAN /\ late' \in BOOLEAN
    BY <1>6 DEF NextCall, Reply, Allows
  <2>4. QED
    BY <1>6, <2>2, <2>3 DEF NextCall, Known
<1>7. CASE Transition
  BY <1>7 DEF Transition, Mode
<1>8. CASE SaveCycle
  BY <1>0, <1>8 DEF SaveCycle, CycleEnd
<1>9. CASE \E tools \in Batch, asked \in BOOLEAN : StreamEnds(tools, asked)
  <2>1. PICK tools \in Batch, asked \in BOOLEAN : StreamEnds(tools, asked)
    BY <1>9
  <2>2. PICK m \in Message :
           /\ messages' = Append(messages, m)
           /\ \/ pc' = "batch" /\ queue' # <<>> /\ queue' \in Seq(Call)
              \/ pc' = "final" /\ queue' = queue
    BY <2>1, StreamTypes
  <2>3. messages' \in Seq(Message) /\ Len(messages') = Len(messages) + 1
    BY <1>0, <2>2, AppendProperties
  <2>4. saved' \in 0 .. Len(messages')
    BY <1>0, <2>1, <2>3 DEF StreamEnds
  <2>5. QED
    BY <2>1, <2>2, <2>3, <2>4 DEF StreamEnds
<1>10. CASE Shutdown
  <2>1. saved' \in 0 .. Len(messages')
    BY <1>0, <1>10 DEF Shutdown
  <2>2. QED
    BY <1>10, <2>1 DEF Shutdown, KillGroup
<1>11. CASE Cancel
  BY <1>11 DEF Cancel
<1>12. CASE \E m \in Mode : SetMode(m)
  BY <1>12 DEF SetMode, Allows
<1>13. CASE Admit
  BY <1>0, <1>13 DEF Admit
<1>14. QED
  BY <1>1, <1>2, <1>3, <1>4, <1>5, <1>6, <1>7, <1>8, <1>9, <1>10, <1>11,
     <1>12, <1>13 DEF TurnAction

TypeInv == TypeOK /\ RequestInv

(* Every step keeps the types.                                             *)
LEMMA TypeStep ==
  ASSUME TypeInv, [Next]_vars
  PROVE  TypeInv'
<1>1. CASE Next
  BY <1>1, Kinds, CallKeepsTypes, TurnKeepsTypes DEF TypeInv
<1>2. CASE UNCHANGED vars
  BY <1>2 DEF TypeInv, TypeOK, RequestInv, vars, session, batch, progress, Idle,
              Stage
<1>3. QED
  BY <1>1, <1>2

(* The types at first.                                                     *)
LEMMA TypeInit == Init => TypeInv
<1> SUFFICES ASSUME Init PROVE TypeInv
  OBVIOUS
<1>1. <<>> \in Seq(Id) /\ <<>> \in Seq(Call)
  OBVIOUS
<1>2. messages \in Seq(Message) /\ Len(messages) = 1
  BY <1>1 DEF Init, Message
<1>3. saved \in 0 .. Len(messages) /\ request \in 0 .. MaxRequests
      /\ modes \in 0 .. MaxModes
  BY <1>2 DEF Init
<1>4. told \in [Id -> Known]
  BY DEF Init, Known
<1>5. QED
  BY <1>1, <1>2, <1>3, <1>4
     DEF Init, TypeInv, TypeOK, RequestInv, Reply, Idle, Known

(* Every variable of a turn keeps its type, and calls are pending exactly  *)
(* while a batch is worked on (run_prompt_turn).                           *)
THEOREM TypeCorrect == Spec => []TypeOK
<1>1. TypeInv => TypeOK
  BY DEF TypeInv
<1>2. QED
  BY <1>1, TypeInit, TypeStep, PTL DEF Spec

---------------------------------------------------------------------------
(* Commands.  A command's group exists in one stage only, and every way    *)
(* out of that stage ends it.                                              *)
THEOREM CommandsEnd == Spec => []NoCommandIsLeft
<1>1. Init => NoCommandIsLeft
  BY DEF Init, NoCommandIsLeft
<1>2. ASSUME TypeInv, NoCommandIsLeft, [Next]_vars
      PROVE  NoCommandIsLeft'
  <2> USE <1>2 DEF NoCommandIsLeft
  <2>1. CASE CallAction
    <3>1. CASE pc = "running"
      BY <2>1, <3>1 DEF CallAction, LookAtToken, LookAtMode, Approved, Policy,
         Decide, NoticeTimeout, Abandon, Effect, ExitPlan, Answer, CommandEnds,
         ReadEnds, NoticeSent, WriteAnswered, KillGroup, Release, Stage
    <3>2. CASE pc # "running"
      BY <2>1, <3>2 DEF CallAction, LookAtToken, LookAtMode, Approved, Policy,
         Decide, NoticeTimeout, Abandon, Effect, ExitPlan, Answer, CommandEnds,
         ReadEnds, NoticeSent, WriteAnswered, KillGroup, WriteFile, CallServer,
         RunCommand, Started
    <3>3. QED
      BY <3>1, <3>2
  <2>2. CASE TurnAction
    BY <2>2 DEF TurnAction, batch, RefusePrompt, BeginTurn, SavePrompt, Admit,
       RequestOrStop, StreamCancelled, SaveFinal, NextCall, Transition,
       SaveCycle, StreamEnds, Fail, Shutdown, Cancel, SetMode, KillGroup, Stage
  <2>3. CASE UNCHANGED vars
    BY <2>3 DEF vars, batch
  <2>4. QED
    BY <2>1, <2>2, <2>3, Kinds
<1>3. QED
  BY <1>1, <1>2, TypeInit, TypeStep, PTL DEF Spec

---------------------------------------------------------------------------
(* Authority.  From the stage that first looks at the mode until the user  *)
(* is asked, and from the look after the answer on, the mode has allowed   *)
(* the call; at these two looks a refusal is what the mode still says.  A  *)
(* call that was late from the start, or whose answer was, gets no further *)
(* than the look at the token that comes next.                             *)
RefusalInv ==
  /\ pc \in Active \ {"dispatch", "reply"} => ~ refusal
  /\ pc \in {"dispatch", "reply"} /\ refusal => ~ Allows(mode, call.tool)
LateInv ==
  late => /\ cancelled
          /\ pc \in Active => pc \in {"dispatch", "reply"} /\ ~ looked

(* A call that is not over keeps its place at the head of the batch.       *)
LEMMA SameCall ==
  ASSUME TypeOK, CallAction, pc' \in Active
  PROVE  call' = call
<1>1. CallMove
  BY CallMoves
<1>2. QED
  BY <1>1 DEF CallMove, Result, Enter, Started, Looked, Active, Stage, call

(* Every step keeps what the last look at the mode has shown.              *)
LEMMA RefusalStep ==
  ASSUME TypeInv, RefusalInv, [Next]_vars
  PROVE  RefusalInv'
<1> USE DEF TypeInv
<1>1. CASE CallAction
  <2> USE <1>1 DEF Active, Stage, Enter
  <2>1. CASE pc' \notin Active
    BY <2>1 DEF RefusalInv
  <2>2. CASE pc' \in Active
    <3>1. call' = call
      BY <2>2, SameCall
    <3>2. CASE LookAtToken
      BY <2>2, <3>1, <3>2 DEF LookAtToken, IsCancelled, RefusalInv, session, Failed,
         Result
    <3>3. CASE LookAtMode
      BY <2>2, <3>1, <3>3 DEF LookAtMode, Looks, Pass, Run, ListDir, UpdatePlan,
         StartRead, StartWalk, InPlan, NeedsPermission, RefusalInv, Failed,
         Completed, Result, session
    <3>4. CASE \E r \in Reply : Answer(r)
      BY <3>1, <3>4 DEF Answer, RefusalInv, session
    <3>5. CASE \/ Approved \/ Policy \/ Decide \/ Abandon \/ Effect \/ ExitPlan
               \/ NoticeTimeout \/ NoticeSent \/ CommandEnds \/ ReadEnds
               \/ WriteAnswered
      <4> USE DEF Failed, Completed, Result
      <4>1. pc \notin {"dispatch", "reply"} /\ UNCHANGED refusal
        BY <3>5 DEF Approved, Policy, Decide, Abandon, Effect, NoticeTimeout,
           NoticeSent, CommandEnds, ReadEnds, ExitPlan, WriteAnswered
      <4>2. Grant => pc' \in {"effect", "approved", "write", "batch"}
        BY DEF Grant
      <4>3. CASE Policy \/ Decide
        BY <3>5, <4>1, <4>2, <4>3 DEF Policy, Decide, RefusalInv
      <4>4. CASE ReadEnds \/ ExitPlan \/ CommandEnds
        BY <2>2, <4>4 DEF ReadEnds, ReadFile, Walk, ExitPlan, CommandEnds
      <4>5. CASE Approved \/ Abandon \/ Effect
        BY <4>1, <4>5 DEF Approved, Abandon, Effect, WriteFile, CallServer,
           RunCommand, Started, RefusalInv
      <4>6. CASE NoticeTimeout \/ NoticeSent \/ WriteAnswered
        BY <2>2, <4>6 DEF NoticeTimeout, NoticeSent, WriteAnswered
      <4>7. QED
        BY <3>5, <4>3, <4>4, <4>5, <4>6
    <3>6. QED
      BY <3>2, <3>3, <3>4, <3>5 DEF CallAction
  <2>3. QED
    BY <2>1, <2>2
<1>2. CASE TurnAction
  <2> USE <1>2 DEF RefusalInv, Active, Stage, End, session, batch, progress, course
  <2>1. CASE NextCall
    BY <2>1 DEF NextCall, call
  <2>2. CASE \E m \in Mode : SetMode(m)
    BY <2>2 DEF SetMode, call
  <2>3. CASE Cancel
    BY <2>3 DEF Cancel, call
  <2>4. CASE \E tools \in Batch, asked \in BOOLEAN : StreamEnds(tools, asked)
    BY <2>4 DEF StreamEnds
  <2>5. QED
    BY <2>1, <2>2, <2>3, <2>4 DEF TurnAction, RefusePrompt, BeginTurn, SavePrompt,
       Admit, RequestOrStop, StreamCancelled, SaveFinal, Transition, SaveCycle,
       CycleEnd, Fail, Shutdown
<1>3. CASE UNCHANGED vars
  BY <1>3 DEF RefusalInv, vars, session, batch, progress, call
<1>4. QED
  BY <1>1, <1>2, <1>3, Kinds

(* Every step keeps a late call from getting past its look at the token.   *)
LEMMA LateStep ==
  ASSUME TypeInv, LateInv, [Next]_vars
  PROVE  LateInv'
<1> USE DEF TypeInv, LateInv, Active, Stage
<1>1. CASE CallAction
  <2>1. pc \in Active /\ CallMove /\ UNCHANGED cancelled
    BY <1>1, CallMoves, CallSettings
  <2>2. CASE LookAtToken
    BY <2>1, <2>2 DEF LookAtToken, IsCancelled, Failed, Result
  <2>3. CASE \E r \in Reply : Answer(r)
    BY <2>1, <2>3 DEF Answer, Enter
  <2>4. CASE /\ UNCHANGED late
             /\ looked \/ pc \notin {"dispatch", "reply"}
    BY <2>1, <2>4
  <2>5. QED
    BY <1>1, <2>2, <2>3, <2>4 DEF CallAction, LookAtMode, Approved, Policy, Decide,
       NoticeTimeout, Abandon, Effect, ExitPlan, CommandEnds, ReadEnds, NoticeSent,
       WriteAnswered
<1>2. CASE TurnAction
  <2> USE <1>2 DEF End, session, batch, progress, course
  <2>1. CASE NextCall
    BY <2>1 DEF NextCall
  <2>2. CASE (\E m \in Mode : SetMode(m)) \/ Cancel
    BY <2>2 DEF SetMode, Cancel
  <2>3. CASE \E tools \in Batch, asked \in BOOLEAN : StreamEnds(tools, asked)
    BY <2>3 DEF StreamEnds
  <2>4. QED
    BY <2>1, <2>2, <2>3 DEF TurnAction, RefusePrompt, BeginTurn, SavePrompt, Admit,
       RequestOrStop, StreamCancelled, SaveFinal, Transition, SaveCycle, CycleEnd,
       Fail, Shutdown
<1>3. CASE UNCHANGED vars
  BY <1>3 DEF vars, session, batch
<1>4. QED
  BY <1>1, <1>2, <1>3, Kinds

(* A call changes a file, starts a command or has a decision remembered    *)
(* only if, at some moment after the call started and after the user's     *)
(* answer was taken, the mode allowed its tool, and only if the turn was   *)
(* not yet cancelled then (request_tool_permission).                       *)
THEOREM RepliesGoStale == Spec => StaleReplyAuthorizesNothing
<1>1. Init => RefusalInv /\ LateInv
  BY DEF Init, RefusalInv, LateInv, Active, Stage
<1>2. ASSUME TypeInv, RefusalInv, LateInv, [Next]_vars
      PROVE  [<<effects, allowed, rejected>>' # <<effects, allowed, rejected>>
                => ~ refusal /\ ~ late]_vars
  <2>1. ASSUME Next, <<effects, allowed, rejected>>' # <<effects, allowed, rejected>>
        PROVE  pc \in {"effect", "decide"}
    <3>1. CASE CallAction
      BY <2>1, <3>1 DEF CallAction, LookAtToken, LookAtMode, Approved, Policy,
         Decide, NoticeTimeout, Abandon, Effect, ExitPlan, Answer, CommandEnds,
         ReadEnds, NoticeSent, WriteAnswered, session
    <3>2. CASE TurnAction
      BY <2>1, <3>2 DEF TurnAction, RefusePrompt, BeginTurn, SavePrompt, Admit,
         RequestOrStop, StreamCancelled, SaveFinal, NextCall, Transition,
         SaveCycle, StreamEnds, Fail, Shutdown, Cancel, SetMode, session, batch
    <3>3. QED
      BY <2>1, <3>1, <3>2, Kinds
  <2>2. QED
    BY <1>2, <2>1 DEF RefusalInv, LateInv, Active
<1>3. QED
  BY <1>1, <1>2, TypeInit, TypeStep, RefusalStep, LateStep, PTL
     DEF Spec, StaleReplyAuthorizesNothing

---------------------------------------------------------------------------
(* The conversation grows at its end, by an assistant message or by the    *)
(* result of the first call of the batch.                                  *)
Asks(m) ==
  /\ pc = "stream" /\ queue = <<>>
  /\ m \in Message /\ m.role = "assistant"
  /\ \A k \in DOMAIN m.calls : m.calls[k] = <<request, k>>
  /\ pc' # "stream" /\ request' = request
  /\ messages' = Append(messages, m)
  /\ \/ /\ queue' \in Seq(Call)
        /\ m.asked
        /\ Len(m.calls) = Len(queue')
        /\ \A k \in 1 .. Len(queue') : queue'[k].id = m.calls[k]
     \/ /\ queue' = queue
        /\ m.asked => m.calls = <<>>
Answers == pc \in Active /\ \E ok \in BOOLEAN : Result(ok)

(* No other step changes the conversation or the batch.                    *)
LEMMA ConversationStep ==
  ASSUME TypeInv, [Next]_vars
  PROVE  \/ UNCHANGED <<messages, queue>>
         \/ \E m \in Message : Asks(m)
         \/ Answers
<1>1. CASE CallAction
  BY <1>1, CallMoves DEF TypeInv, CallMove, Enter, Started, Looked, Answers
<1>2. CASE \E tools \in Batch, asked \in BOOLEAN : StreamEnds(tools, asked)
  <2>1. PICK tools \in Batch, asked \in BOOLEAN : StreamEnds(tools, asked)
    BY <1>2
  <2>2. pc = "stream" /\ queue = <<>>
    BY <2>1 DEF StreamEnds, TypeInv, TypeOK, Idle
  <2>3. request' = request
    BY <2>1 DEF StreamEnds
  <2>4. QED
    BY <2>1, <2>2, <2>3, StreamTypes DEF Asks, TypeInv
<1>3. CASE /\ TurnAction
           /\ ~ \E tools \in Batch, asked \in BOOLEAN : StreamEnds(tools, asked)
  BY <1>3 DEF TurnAction, RefusePrompt, BeginTurn, SavePrompt, Admit, RequestOrStop,
     StreamCancelled, SaveFinal, NextCall, Transition, SaveCycle, Fail, Shutdown,
     Cancel, SetMode, batch, progress
<1>4. CASE UNCHANGED vars
  BY <1>4 DEF vars, batch, progress
<1>5. QED
  BY <1>1, <1>2, <1>3, <1>4, Kinds

(* What the two ways to grow leave of the conversation and the batch.      *)
LEMMA AsksKeeps ==
  ASSUME TypeInv, NEW m \in Message, Asks(m)
  PROVE  /\ Len(queue) = 0
         /\ Len(messages) \in Nat /\ Len(messages') = Len(messages) + 1
         /\ \A i \in 1 .. Len(messages) : messages'[i] = messages[i]
         /\ messages'[Len(messages) + 1] = m
BY AppendProperties DEF TypeInv, TypeOK, Asks

(* A result is that of the first call, which leaves the batch.             *)
LEMMA AnswersKeeps ==
  ASSUME TypeInv, Answers
  PROVE  /\ Len(queue) \in Nat \ {0} /\ Len(queue') = Len(queue) - 1
         /\ \A k \in 1 .. Len(queue') : queue'[k] = queue[k + 1]
         /\ Len(messages) \in Nat /\ Len(messages') = Len(messages) + 1
         /\ \A i \in 1 .. Len(messages) : messages'[i] = messages[i]
         /\ messages'[Len(messages) + 1].role = "tool"
         /\ messages'[Len(messages) + 1].calls = <<queue[1].id>>
         /\ ~ messages'[Len(messages) + 1].asked
         /\ call = queue[1] /\ pc' = "batch"
<1>1. queue \in Seq(Call) /\ queue # <<>> /\ messages \in Seq(Message)
  BY CallTypes DEF TypeInv, TypeOK, Answers
<1>2. PICK ok \in BOOLEAN : Result(ok)
  BY DEF Answers
<1>3. queue' = Tail(queue) /\ call = queue[1] /\ pc' = "batch"
  BY <1>1, <1>2 DEF Result, call
<1> DEFINE m == [role |-> "tool", calls |-> <<call.id>>, asked |-> FALSE,
                 success |-> ok]
<1>4. messages' = Append(messages, m)
  BY <1>2 DEF Result
<1>5. m \in Message
  <2>1. call.id \in Id
    BY CallTypes DEF TypeInv, Answers
  <2>2. <<call.id>> \in Seq(Id)
    BY <2>1
  <2>3. QED
    BY <2>2 DEF Message
<1>6. /\ Len(messages) \in Nat /\ Len(messages') = Len(messages) + 1
      /\ \A i \in 1 .. Len(messages) : messages'[i] = messages[i]
      /\ messages'[Len(messages) + 1] = m
  BY <1>1, <1>4, <1>5, AppendProperties
<1>7. m.role = "tool" /\ m.calls = <<queue[1].id>> /\ ~ m.asked
  BY <1>3
<1>8. /\ Len(queue) \in Nat \ {0} /\ Len(queue') = Len(queue) - 1
      /\ \A k \in 1 .. Len(queue') : queue'[k] = queue[k + 1]
  BY <1>1, <1>3, HeadTailProperties
<1> HIDE DEF m
<1>9. QED
  BY <1>3, <1>6, <1>7, <1>8

(* A message keeps its place.                                              *)
LEMMA MessagesStay ==
  ASSUME TypeInv, [Next]_vars
  PROVE  /\ Len(messages) \in Nat /\ Len(messages') \in Nat
         /\ Len(messages) <= Len(messages')
         /\ \A i \in 1 .. Len(messages) : messages'[i] = messages[i]
<1>1. Len(messages) \in Nat
  BY DEF TypeInv, TypeOK
<1>2. CASE UNCHANGED <<messages, queue>>
  BY <1>1, <1>2
<1>3. CASE \E m \in Message : Asks(m)
  BY <1>1, <1>3, AsksKeeps
<1>4. CASE Answers
  BY <1>1, <1>4, AnswersKeeps
<1>5. QED
  BY <1>2, <1>3, <1>4, ConversationStep

---------------------------------------------------------------------------
(* The conversation.  A call of a batch that was run has its result at its *)
(* place behind the message that asked for it, or waits at its place in    *)
(* the batch; and every result and every waiting call has such a message.  *)
Placed(h, q, i, k) ==
  IF i + k <= Len(h)
  THEN h[i + k].role = "tool" /\ h[i + k].calls = <<h[i].calls[k]>>
  ELSE i + k - Len(h) <= Len(q) /\ q[i + k - Len(h)].id = h[i].calls[k]
BatchInv ==
  \A i \in DOMAIN messages : messages[i].asked =>
    \A k \in DOMAIN messages[i].calls : Placed(messages, queue, i, k)

(* The positions in a conversation, and in its messages' calls, are        *)
(* numbers.                                                                *)
LEMMA Indices ==
  ASSUME NEW h \in Seq(Message), NEW q \in Seq(Call)
  PROVE  /\ Len(h) \in Nat /\ DOMAIN h = 1 .. Len(h) /\ Len(q) \in Nat
         /\ \A i \in 1 .. Len(h) :
              /\ Len(h[i].calls) \in Nat
              /\ DOMAIN h[i].calls = 1 .. Len(h[i].calls)
<1>1. \A m \in Message : m.calls \in Seq(Id)
  BY DEF Message
<1>2. \A i \in 1 .. Len(h) : h[i] \in Message
  OBVIOUS
<1>3. QED
  BY <1>1, <1>2

(* Every step keeps the place of each call of a batch.                     *)
LEMMA BatchStep ==
  ASSUME TypeInv, BatchInv, [Next]_vars
  PROVE  BatchInv'
<1>1. /\ messages \in Seq(Message) /\ messages' \in Seq(Message)
      /\ queue \in Seq(Call) /\ queue' \in Seq(Call)
  BY TypeStep DEF TypeInv, TypeOK
<1>2. SUFFICES ASSUME NEW i \in 1 .. Len(messages'), messages'[i].asked,
                      NEW k \in 1 .. Len(messages'[i].calls)
               PROVE  Placed(messages', queue', i, k)
  BY <1>1, Indices DEF BatchInv
<1>3. /\ Len(messages) \in Nat /\ Len(queue) \in Nat
      /\ Len(messages') \in Nat /\ Len(queue') \in Nat
      /\ i \in Nat /\ k \in Nat \ {0}
  BY <1>1, <1>2, Indices
<1>4. ASSUME i <= Len(messages), messages'[i] = messages[i]
      PROVE  Placed(messages, queue, i, k)
  <2>1. i \in DOMAIN messages /\ k \in DOMAIN messages[i].calls /\ messages[i].asked
    BY <1>1, <1>2, <1>4, Indices
  <2>2. QED
    BY <2>1 DEF BatchInv
<1>5. CASE UNCHANGED <<messages, queue>>
  BY <1>2, <1>3, <1>4, <1>5
<1>6. CASE \E m \in Message : Asks(m)
  <2>1. PICK m \in Message : Asks(m)
    BY <1>6
  <2>2. CASE i <= Len(messages)
    BY <1>2, <1>3, <1>4, <2>1, <2>2, AsksKeeps, SMTT(30) DEF Placed
  <2>3. CASE i = Len(messages) + 1
    <3>1. messages'[i] = m /\ Len(messages') = i
      BY <2>1, <2>3, AsksKeeps
    <3>2. Len(m.calls) = Len(queue') /\ queue'[k].id = m.calls[k]
      BY <1>2, <1>3, <2>1, <3>1 DEF Asks
    <3>3. QED
      BY <1>2, <1>3, <3>1, <3>2 DEF Placed
  <2>4. QED
    BY <1>2, <1>3, <2>1, <2>2, <2>3, AsksKeeps
<1>7. CASE Answers
  <2> DEFINE N == Len(messages)
             result == messages'[N + 1]
  <2>1. /\ N \in Nat /\ Len(messages') = N + 1
        /\ Len(queue) \in Nat \ {0} /\ Len(queue') = Len(queue) - 1
        /\ \A j \in 1 .. N : messages'[j] = messages[j]
        /\ \A j \in 1 .. Len(queue') : queue'[j] = queue[j + 1]
    BY <1>7, AnswersKeeps
  <2>2. result.role = "tool" /\ result.calls = <<queue[1].id>> /\ ~ result.asked
    BY <1>7, AnswersKeeps
  <2>3. i <= N /\ messages'[i] = messages[i]
    <3>1. i # N + 1
      BY <1>2, <2>2
    <3>2. QED
      BY <1>2, <1>3, <2>1, <3>1
  <2>4. Placed(messages, queue, i, k)
    BY <1>4, <2>3
  <2> HIDE DEF N, result
  <2>5. CASE i + k <= N
    BY <1>3, <2>1, <2>3, <2>4, <2>5 DEF Placed, N
  <2>6. CASE i + k = N + 1
    <3>1. queue[1].id = messages[i].calls[k]
      BY <1>3, <2>1, <2>4, <2>6 DEF Placed, N
    <3>2. messages'[i + k] = result /\ i + k <= Len(messages')
      BY <1>3, <2>1, <2>6 DEF result
    <3>3. QED
      BY <2>2, <2>3, <3>1, <3>2 DEF Placed
  <2>7. CASE i + k > N + 1
    <3>1. PICK w \in Nat \ {0} : w = i + k - Len(messages')
      BY <1>3, <2>1, <2>7
    <3>2. w + 1 = i + k - N /\ ~ i + k <= N
      BY <1>3, <2>1, <2>7, <3>1
    <3>3. w + 1 <= Len(queue) /\ queue[w + 1].id = messages[i].calls[k]
      BY <2>4, <3>2 DEF Placed, N
    <3>4. w <= Len(queue') /\ queue'[w] = queue[w + 1]
      <4>1. w \in 1 .. Len(queue')
        BY <1>3, <2>1, <3>3
      <4>2. QED
        BY <2>1, <4>1
    <3>5. ~ i + k <= Len(messages')
      BY <1>3, <2>1, <2>7
    <3>6. QED
      BY <2>3, <3>1, <3>3, <3>4, <3>5 DEF Placed
  <2>8. N \in Nat /\ (i + k <= N \/ i + k = N + 1 \/ i + k > N + 1)
    BY <1>3, <2>1
  <2>9. QED
    BY <2>5, <2>6, <2>7, <2>8
<1>8. QED
  BY <1>5, <1>6, <1>7, ConversationStep

(* Whoever asked for a result is found at the same place afterwards.       *)
AskedFrom(h, n) ==
  \E j \in DOMAIN h : j < n /\ h[j].asked /\ n - j \in DOMAIN h[j].calls
OriginInv ==
  \A n \in 1 .. Len(messages) + Len(queue) :
    (n <= Len(messages) => messages[n].role = "tool") => AskedFrom(messages, n)

(* Every step keeps the message that asked for a result or a waiting call. *)
LEMMA OriginStep ==
  ASSUME TypeInv, OriginInv, [Next]_vars
  PROVE  OriginInv'
<1>1. /\ messages \in Seq(Message) /\ messages' \in Seq(Message)
      /\ queue \in Seq(Call) /\ queue' \in Seq(Call)
  BY TypeStep DEF TypeInv, TypeOK
<1>2. /\ Len(messages) \in Nat /\ Len(queue) \in Nat
      /\ Len(messages') \in Nat /\ Len(queue') \in Nat
  BY <1>1
<1>3. ASSUME NEW n \in Nat, AskedFrom(messages, n)
      PROVE  AskedFrom(messages', n)
  <2>1. PICK j \in 1 .. Len(messages) :
          j < n /\ messages[j].asked /\ n - j \in DOMAIN messages[j].calls
    BY <1>1, <1>3 DEF AskedFrom
  <2>2. j \in DOMAIN messages' /\ messages'[j] = messages[j]
    BY <1>1, MessagesStay
  <2>3. QED
    BY <2>1, <2>2 DEF AskedFrom
<1>4. SUFFICES ASSUME NEW n \in 1 .. Len(messages') + Len(queue'),
                      n <= Len(messages') => messages'[n].role = "tool"
               PROVE  AskedFrom(messages', n)
  BY DEF OriginInv
<1>5. n \in Nat \ {0}
  BY <1>2
<1>6. ASSUME n <= Len(messages) + Len(queue),
             n <= Len(messages) => messages[n].role = "tool"
      PROVE  AskedFrom(messages', n)
  BY <1>2, <1>3, <1>5, <1>6 DEF OriginInv
<1>7. CASE UNCHANGED <<messages, queue>>
  BY <1>2, <1>4, <1>6, <1>7
<1>8. CASE \E m \in Message : Asks(m)
  <2>1. PICK m \in Message : Asks(m)
    BY <1>8
  <2>2. /\ Len(messages') = Len(messages) + 1 /\ Len(queue) = 0
        /\ \A i \in 1 .. Len(messages) : messages'[i] = messages[i]
        /\ messages'[Len(messages')] = m
    BY <1>2, <2>1, AsksKeeps
  <2>3. CASE n <= Len(messages)
    BY <1>2, <1>4, <1>5, <1>6, <2>2, <2>3
  <2>4. n # Len(messages')
    BY <1>2, <1>4, <2>1, <2>2 DEF Asks
  <2>5. CASE n > Len(messages')
    <3>1. m.asked /\ Len(m.calls) = Len(queue')
      BY <1>2, <1>4, <1>5, <2>1, <2>2, <2>5 DEF Asks
    <3>2. m.calls \in Seq(Id)
      BY DEF Message
    <3>3. DOMAIN m.calls = 1 .. Len(queue')
      BY <3>1, <3>2
    <3>4. n - Len(messages') \in DOMAIN m.calls
      BY <1>2, <1>4, <1>5, <2>5, <3>3
    <3>5. Len(messages') \in DOMAIN messages'
      BY <1>1, <1>2, <2>2
    <3>6. QED
      BY <1>2, <1>5, <2>2, <2>5, <3>1, <3>4, <3>5 DEF AskedFrom
  <2>6. QED
    BY <1>2, <1>5, <2>2, <2>3, <2>4, <2>5
<1>9. CASE Answers
  <2>1. /\ Len(messages') = Len(messages) + 1
        /\ Len(queue) \in Nat \ {0} /\ Len(queue') = Len(queue) - 1
        /\ \A i \in 1 .. Len(messages) : messages'[i] = messages[i]
    BY <1>9, AnswersKeeps
  <2>2. n <= Len(messages) + Len(queue)
    BY <1>2, <1>4, <2>1
  <2>3. n <= Len(messages) => messages[n].role = "tool"
    BY <1>2, <1>4, <1>5, <2>1
  <2>4. QED
    BY <1>6, <2>2, <2>3
<1>10. QED
  BY <1>7, <1>8, <1>9, ConversationStep

(* What a save keeps ends with the result of a batch's last call: a turn   *)
(* saves only when no call waits.                                          *)
LEMMA SaveStep ==
  ASSUME TypeInv, [Next]_vars
  PROVE  \/ saved' = saved
         \/ saved' = Len(messages) /\ queue = <<>> /\ UNCHANGED <<messages, queue>>
<1>1. CASE CallAction
  BY <1>1, CallMoves DEF TypeInv, course
<1>2. pc \in {"admit", "final", "save"} => queue = <<>>
  BY DEF TypeInv, TypeOK, Idle
<1>3. CASE SavePrompt \/ SaveFinal \/ SaveCycle
  BY <1>2, <1>3 DEF SavePrompt, SaveFinal, SaveCycle, CycleEnd, batch
<1>4. CASE Shutdown
  BY <1>2, <1>4 DEF Shutdown
<1>5. CASE TurnAction /\ ~ (SavePrompt \/ SaveFinal \/ SaveCycle \/ Shutdown)
  BY <1>5 DEF TurnAction, RefusePrompt, BeginTurn, Admit, RequestOrStop,
     StreamCancelled, NextCall, Transition, StreamEnds, Fail, Cancel, SetMode,
     progress, course
<1>6. CASE UNCHANGED vars
  BY <1>6 DEF vars, progress
<1>7. QED
  BY <1>1, <1>3, <1>4, <1>5, <1>6, Kinds

SavedInv ==
  \A i \in 1 .. saved : messages[i].asked => i + Len(messages[i].calls) <= saved

(* When no call waits, every batch has its results.                        *)
LEMMA WholeBatches ==
  ASSUME TypeInv, BatchInv, queue = <<>>
  PROVE  \A i \in 1 .. Len(messages) :
           messages[i].asked => i + Len(messages[i].calls) <= Len(messages)
<1>1. messages \in Seq(Message) /\ queue \in Seq(Call) /\ Len(queue) = 0
  BY DEF TypeInv, TypeOK
<1>2. SUFFICES ASSUME NEW i \in 1 .. Len(messages), messages[i].asked
               PROVE  i + Len(messages[i].calls) <= Len(messages)
  OBVIOUS
<1> DEFINE k == Len(messages[i].calls)
<1>3. /\ i \in Nat /\ k \in Nat /\ Len(messages) \in Nat /\ i <= Len(messages)
      /\ DOMAIN messages[i].calls = 1 .. k /\ i \in DOMAIN messages
  BY <1>1, Indices
<1> HIDE DEF k
<1>4. CASE k = 0
  BY <1>3, <1>4 DEF k
<1>5. CASE k # 0
  <2>1. Placed(messages, queue, i, k)
    BY <1>2, <1>3, <1>5 DEF BatchInv
  <2>2. QED
    BY <1>1, <1>3, <1>5, <2>1 DEF Placed, k
<1>6. QED
  BY <1>4, <1>5

(* Every step keeps what was saved whole.                                  *)
LEMMA SavedStep ==
  ASSUME TypeInv, BatchInv, SavedInv, [Next]_vars
  PROVE  SavedInv'
<1>1. saved \in 0 .. Len(messages) /\ Len(messages) \in Nat
  BY DEF TypeInv, TypeOK
<1>2. CASE saved' = saved
  BY <1>1, <1>2, MessagesStay DEF SavedInv
<1>3. CASE saved' = Len(messages) /\ queue = <<>> /\ UNCHANGED <<messages, queue>>
  BY <1>1, <1>3, WholeBatches DEF SavedInv
<1>4. QED
  BY <1>2, <1>3, SaveStep

(* Whole batches with an origin for each result are what the property      *)
(* asks.                                                                   *)
LEMMA PairedNow ==
  ASSUME TypeInv, BatchInv, OriginInv, SavedInv
  PROVE  SavedIsPaired
<1>1. /\ messages \in Seq(Message) /\ saved \in 0 .. Len(messages)
      /\ Len(messages) \in Nat /\ queue \in Seq(Call) /\ Len(queue) \in Nat
  BY DEF TypeInv, TypeOK
<1>2. /\ DOMAIN Kept = 1 .. saved
      /\ \A i \in 1 .. saved : Kept[i] = messages[i]
  BY <1>1, SubSeqProperties DEF Kept
<1>3. SUFFICES ASSUME NEW i \in 1 .. saved
               PROVE  /\ messages[i].asked => Answered(Kept, i)
                      /\ messages[i].role = "tool" =>
                           \E j \in 1 .. i - 1 :
                             Kept[j].asked /\ i - j \in DOMAIN Kept[j].calls
  BY <1>2 DEF SavedIsPaired
<1>4. i \in 1 .. Len(messages) /\ i \in Nat /\ saved \in Nat
      /\ DOMAIN messages = 1 .. Len(messages)
  BY <1>1
<1>5. ASSUME messages[i].asked
      PROVE  Answered(Kept, i)
  <2>1. /\ Len(messages[i].calls) \in Nat
        /\ DOMAIN messages[i].calls = 1 .. Len(messages[i].calls)
    BY <1>1, <1>4, Indices
  <2>2. SUFFICES ASSUME NEW k \in 1 .. Len(messages[i].calls)
                 PROVE  /\ i + k \in 1 .. saved
                        /\ messages[i + k].role = "tool"
                        /\ messages[i + k].calls = <<messages[i].calls[k]>>
    BY <1>2, <2>1 DEF Answered
  <2>3. i + k \in 1 .. saved /\ i + k <= Len(messages)
    BY <1>1, <1>4, <1>5, <2>1 DEF SavedInv
  <2>4. Placed(messages, queue, i, k)
    BY <1>4, <1>5, <2>1 DEF BatchInv
  <2>5. QED
    BY <2>3, <2>4 DEF Placed
<1>6. ASSUME messages[i].role = "tool"
      PROVE  \E j \in 1 .. i - 1 :
               Kept[j].asked /\ i - j \in DOMAIN Kept[j].calls
  <2>1. AskedFrom(messages, i)
    BY <1>1, <1>4, <1>6 DEF OriginInv
  <2>2. PICK j \in 1 .. Len(messages) :
          j < i /\ messages[j].asked /\ i - j \in DOMAIN messages[j].calls
    BY <1>4, <2>1 DEF AskedFrom
  <2>3. j \in 1 .. saved /\ j \in 1 .. i - 1
    BY <1>4, <2>2
  <2>4. QED
    BY <1>2, <2>2, <2>3
<1>7. QED
  BY <1>5, <1>6

PairInv == BatchInv /\ OriginInv /\ SavedInv

(* The conversation at first is the prompt alone.                          *)
LEMMA PairInit == Init => PairInv
<1> SUFFICES ASSUME Init PROVE PairInv
  OBVIOUS
<1>1. /\ DOMAIN messages = {1} /\ Len(messages) = 1 /\ Len(queue) = 0 /\ saved = 0
      /\ ~ messages[1].asked /\ messages[1].role # "tool"
  BY DEF Init
<1>2. QED
  BY <1>1 DEF PairInv, BatchInv, OriginInv, SavedInv

(* On disk, every batch that was run is followed by one result per call,   *)
(* in order, and there is no other result (run_prompt_turn).               *)
THEOREM SavesArePaired == Spec => []SavedIsPaired
<1>1. ASSUME TypeInv, PairInv, [Next]_vars
      PROVE  PairInv'
  BY <1>1, BatchStep, OriginStep, SavedStep DEF PairInv
<1>2. TypeInv /\ PairInv => SavedIsPaired
  BY PairedNow DEF PairInv
<1>3. QED
  BY <1>1, <1>2, TypeInit, TypeStep, PairInit, PTL DEF Spec

---------------------------------------------------------------------------
(* What became of a call.  While a turn has neither failed nor gone down,  *)
(* a call that changed something, or that looks unfinished to the client,  *)
(* is the one that is worked on, or has its result in the conversation.    *)
Broken == stop \in {"error", "dropped"}
Working(id) == pc \in Active /\ id = call.id
Recorded(h, id) ==
  \E i \in DOMAIN h : h[i].role = "tool" /\ h[i].calls = <<id>>

EffectInv == ~ Broken => \A id \in effects : Recorded(messages, id) \/ Working(id)
StatusInv ==
  ~ Broken => \A id \in Id : told[id] \in {"pending", "in_progress"} => Working(id)

(* A turn that is not over has not failed, and one that failed stays so.   *)
LEMMA StaysBroken ==
  ASSUME TypeInv, [Next]_vars, Broken
  PROVE  Broken'
<1>1. pc = "done"
  BY DEF TypeInv, TypeOK, Broken
<1>2. UNCHANGED stop
  BY <1>1, CallMoves, Kinds DEF TypeInv, Active, Stage, TurnAction, RefusePrompt,
     BeginTurn, SavePrompt, Admit, RequestOrStop, StreamCancelled, SaveFinal, NextCall,
     Transition, SaveCycle, StreamEnds, Fail, Shutdown, Cancel, SetMode, vars, progress
<1>3. QED
  BY <1>2 DEF Broken

(* Of what the turn, the user and the process do meanwhile, only what      *)
(* breaks the turn off reaches a call.                                     *)
LEMMA CallsAreLeftAlone ==
  ASSUME TypeInv, TurnAction, pc \in Active, ~ Broken'
  PROVE  UNCHANGED <<pc, queue, told, effects>>
<1>1. ~ Fail /\ ~ Shutdown
  BY DEF Fail, Shutdown, End, Broken
<1>2. Cancel \/ \E m \in Mode : SetMode(m)
  BY <1>1 DEF TurnAction, RefusePrompt, BeginTurn, SavePrompt, Admit,
     RequestOrStop, StreamCancelled, SaveFinal, NextCall, Transition, SaveCycle,
     StreamEnds, Active, Stage
<1>3. QED
  BY <1>2 DEF Cancel, SetMode, batch

(* A call is worked on until its result is recorded or the turn breaks off.*)
LEMMA WorkStep ==
  ASSUME TypeInv, [Next]_vars, pc \in Active, ~ Broken'
  PROVE  \/ pc' \in Active /\ call' = call
         \/ Answers
<1>1. CASE CallAction
  BY <1>1, CallMoves DEF TypeInv, CallMove, Enter, Started, Looked, Answers, call,
     Active
<1>2. CASE TurnAction
  BY <1>2, CallsAreLeftAlone DEF call
<1>3. CASE UNCHANGED vars
  BY <1>3 DEF vars, batch, call
<1>4. QED
  BY <1>1, <1>2, <1>3, Kinds

(* A result that is recorded stays, and an answer records its call.        *)
LEMMA RecordsStay ==
  ASSUME TypeInv, [Next]_vars
  PROVE  /\ \A id : Recorded(messages, id) => Recorded(messages', id)
         /\ Answers => Recorded(messages', call.id)
<1>1. messages \in Seq(Message) /\ messages' \in Seq(Message)
  BY TypeStep DEF TypeInv, TypeOK
<1>2. DOMAIN messages = 1 .. Len(messages) /\ DOMAIN messages' = 1 .. Len(messages')
  BY <1>1
<1>3. \A id : Recorded(messages, id) => Recorded(messages', id)
  BY <1>2, MessagesStay DEF Recorded
<1>4. ASSUME Answers PROVE Recorded(messages', call.id)
  <2>1. Len(messages) + 1 \in DOMAIN messages'
    BY <1>2, <1>4, AnswersKeeps
  <2>2. QED
    BY <1>4, <2>1, AnswersKeeps DEF Recorded
<1>5. QED
  BY <1>3, <1>4

(* Every step keeps a record, or the work, of each call with an effect.    *)
LEMMA EffectStep ==
  ASSUME TypeInv, EffectInv, [Next]_vars
  PROVE  EffectInv'
<1> SUFFICES ASSUME ~ Broken', NEW id \in effects'
             PROVE  Recorded(messages', id) \/ Working(id)'
  BY DEF EffectInv
<1>1. ~ Broken
  BY StaysBroken
<1>2. CASE Recorded(messages, id)
  BY <1>2, RecordsStay
<1>3. CASE pc \in Active /\ id = call.id
  BY <1>3, WorkStep, RecordsStay DEF Working
<1>4. CASE id \notin effects
  <2>1. CASE CallAction
    <3>1. pc = "effect" /\ effects' = effects \cup {call.id}
      BY <1>4, <2>1 DEF CallAction, LookAtToken, LookAtMode, Approved, Policy,
         Decide, NoticeTimeout, Abandon, Effect, ExitPlan, Answer, CommandEnds,
         ReadEnds, NoticeSent, WriteAnswered
    <3>2. id = call.id /\ pc \in Active
      BY <1>4, <3>1 DEF Active
    <3>3. QED
      BY <1>3, <3>2
  <2>2. CASE TurnAction
    BY <1>4, <2>2 DEF TurnAction, RefusePrompt, BeginTurn, SavePrompt, Admit,
       RequestOrStop, StreamCancelled, SaveFinal, NextCall, Transition, SaveCycle,
       StreamEnds, Fail, Shutdown, Cancel, SetMode, batch
  <2>3. QED
    BY <1>4, <2>1, <2>2, Kinds DEF vars, batch
<1>5. QED
  BY <1>1, <1>2, <1>3, <1>4 DEF EffectInv, Working

(* Every step keeps at work each call the client sees unfinished.          *)
LEMMA StatusStep ==
  ASSUME TypeInv, StatusInv, [Next]_vars
  PROVE  StatusInv'
<1> SUFFICES ASSUME ~ Broken', NEW id \in Id, told'[id] \in {"pending", "in_progress"}
             PROVE  Working(id)'
  BY DEF StatusInv
<1>1. told \in [Id -> Known]
  BY DEF TypeInv, TypeOK, Known
<1>2. told[id] \in {"pending", "in_progress"} => pc \in Active /\ id = call.id
  BY StaysBroken DEF StatusInv, Working
<1>3. CASE CallAction
  <2>1. CASE \E ok \in BOOLEAN : Result(ok)
    BY <1>1, <1>2, <2>1 DEF Result, ReportToolResult, Tell, Status
  <2>2. CASE pc' \in Active /\ UNCHANGED <<told, queue>>
    BY <1>2, <2>2 DEF Working, call
  <2>3. CASE Started
    BY <1>1, <1>2, <2>3 DEF Started, ReportInProgress, Tell, Working, call, Active
  <2>4. QED
    BY <1>3, <2>1, <2>2, <2>3, CallMoves DEF TypeInv, CallMove, Enter, Looked
<1>4. CASE NextCall
  BY <1>1, <1>2, <1>4
     DEF NextCall, ReportToolCall, Tell, Working, call, Active, Stage
<1>5. CASE TurnAction /\ ~ NextCall
  <2>1. UNCHANGED told
    BY <1>5 DEF TurnAction, RefusePrompt, BeginTurn, SavePrompt, Admit,
       RequestOrStop, StreamCancelled, SaveFinal, Transition, SaveCycle,
       StreamEnds, Fail, Shutdown, Cancel, SetMode, batch
  <2>2. pc \in Active /\ id = call.id
    BY <1>2, <2>1
  <2>3. QED
    BY <1>5, <2>2, CallsAreLeftAlone DEF Working, call
<1>6. CASE UNCHANGED vars
  BY <1>2, <1>6 DEF vars, batch, Working, call
<1>7. QED
  BY <1>3, <1>4, <1>5, <1>6, Kinds

(* A turn that goes on to the provider, or that ends without an error, has *)
(* saved all it has: what a failure loses is never what was finished.      *)
Settled == pc \in {"admitted", "head", "stream"} \/ Finished
SettledInv == Settled => saved = Len(messages)

(* Every step keeps a turn that goes on saved.                             *)
LEMMA SettledStep ==
  ASSUME TypeInv, SettledInv, [Next]_vars
  PROVE  SettledInv'
<1> USE DEF SettledInv, Settled, Finished, End
<1>1. CASE CallAction
  <2>1. pc' \in Active \cup {"batch"} /\ stop' = "none"
    BY <1>1, CallMoves, MoveTypes DEF TypeInv, course
  <2>2. QED
    BY <2>1 DEF Active, Stage
<1>2. stop # "none" <=> pc = "done"
  BY DEF TypeInv, TypeOK
<1>3. CASE SavePrompt \/ SaveFinal \/ SaveCycle
  BY <1>2, <1>3 DEF SavePrompt, SaveFinal, SaveCycle, CycleEnd
<1>4. CASE Admit \/ RequestOrStop \/ StreamCancelled
  BY <1>2, <1>4 DEF Admit, RequestOrStop, StreamCancelled
<1>5. CASE Fail \/ RefusePrompt \/ Shutdown
  BY <1>5 DEF Fail, RefusePrompt, Shutdown
<1>6. CASE BeginTurn \/ NextCall \/ Transition
  BY <1>2, <1>6 DEF BeginTurn, NextCall, Transition, progress, course
<1>7. CASE Cancel \/ \E m \in Mode : SetMode(m)
  BY <1>7 DEF Cancel, SetMode, progress
<1>8. CASE \E tools \in Batch, asked \in BOOLEAN : StreamEnds(tools, asked)
  BY <1>2, <1>8 DEF StreamEnds
<1>9. CASE UNCHANGED vars
  BY <1>9 DEF vars, progress
<1>10. QED
  BY <1>1, <1>3, <1>4, <1>5, <1>6, <1>7, <1>8, <1>9, Kinds DEF TurnAction

CallInv == EffectInv /\ StatusInv /\ SettledInv

(* No call has had an effect at first.                                     *)
LEMMA CallInit == Init => CallInv
BY DEF Init, CallInv, EffectInv, StatusInv, SettledInv, Settled, Finished

(* Every step keeps what became of the calls.                              *)
LEMMA CallStep ==
  ASSUME TypeInv, CallInv, [Next]_vars
  PROVE  CallInv'
BY EffectStep, StatusStep, SettledStep DEF CallInv

(* A turn that ends without an error, cancelled or not, has on disk the    *)
(* result of every call that changed something (run_prompt_turn).          *)
THEOREM EffectsReachDisk == Spec => []EffectsAreRecorded
<1>1. ASSUME TypeInv, CallInv
      PROVE  EffectsAreRecorded
  <2>1. SUFFICES ASSUME Finished
                 PROVE  \A id \in effects : Recorded(Kept, id)
    BY DEF EffectsAreRecorded, Recorded
  <2>2. ~ Broken /\ pc = "done"
    BY <1>1, <2>1 DEF Finished, Broken, TypeInv, TypeOK
  <2>3. \A id \in effects : Recorded(messages, id)
    BY <1>1, <2>2 DEF CallInv, EffectInv, Working, Active, Stage
  <2>4. Kept = messages
    BY <1>1, <2>1, SubSeqFull DEF Kept, CallInv, SettledInv, Settled, TypeInv, TypeOK
  <2>5. QED
    BY <2>3, <2>4
<1>2. QED
  BY <1>1, TypeInit, TypeStep, CallInit, CallStep, PTL DEF Spec

---------------------------------------------------------------------------
(* What the client sees of the turn.                                       *)
AdmissionInv ==
  /\ messages # <<>>
  /\ pc \in {"arrived", "admit", "admitted"} => request = 0 /\ shown = "idle"
  /\ pc \notin {"arrived", "admit", "admitted", "done"} => accepted
  /\ pc = "admitted" => saved > 0
  /\ request > 0 \/ shown # "idle" => accepted
  /\ accepted => saved > 0
ShownInv ==
  /\ pc = "asking" => shown = "requires_action"
  /\ shown = "requires_action" => pc = "asking" \/ cancelled \/ stop = "dropped"
  /\ pc = "done" /\ stop # "dropped" => shown = "idle"

(* Every step keeps the prompt on disk once it was accepted.               *)
LEMMA AdmissionStep ==
  ASSUME TypeInv, AdmissionInv, [Next]_vars
  PROVE  AdmissionInv'
<1>1. /\ Len(messages) \in Nat /\ Len(messages') \in Nat
      /\ Len(messages) > 0 /\ Len(messages') > 0 /\ messages' # <<>>
  <2>1. messages \in Seq(Message) /\ messages' \in Seq(Message) /\ messages # <<>>
    BY TypeStep DEF TypeInv, TypeOK, AdmissionInv
  <2>2. QED
    BY <2>1, MessagesStay
<1> USE DEF End
<1>2. CASE CallAction
  <2>1. /\ pc \notin {"arrived", "admit", "admitted", "done"}
        /\ pc' \notin {"arrived", "admit", "admitted", "done"}
        /\ UNCHANGED <<request, saved, accepted>>
    BY <1>2, CallMoves, MoveTypes DEF TypeInv, course, Active, Stage
  <2>2. QED
    BY <1>1, <2>1 DEF AdmissionInv
<1>3. CASE UNCHANGED vars
  BY <1>1, <1>3 DEF AdmissionInv, vars, progress
<1>4. CASE TurnAction
  <2> USE <1>1 DEF AdmissionInv, progress, course
  <2>1. CASE RefusePrompt \/ BeginTurn \/ SavePrompt \/ Admit
    BY <2>1 DEF RefusePrompt, BeginTurn, SavePrompt, Admit
  <2>2. CASE RequestOrStop
    BY <2>2 DEF RequestOrStop
  <2>3. CASE StreamCancelled \/ SaveFinal \/ SaveCycle
    BY <2>3 DEF StreamCancelled, SaveFinal, SaveCycle, CycleEnd
  <2>4. CASE NextCall \/ Transition \/ Cancel
    BY <2>4 DEF NextCall, Transition, Cancel
  <2>5. CASE \E m \in Mode : SetMode(m)
    BY <2>5 DEF SetMode
  <2>6. CASE Fail \/ Shutdown
    BY <2>6 DEF Fail, Shutdown
  <2>7. CASE \E tools \in Batch, asked \in BOOLEAN : StreamEnds(tools, asked)
    BY <2>7 DEF StreamEnds
  <2>8. QED
    BY <1>4, <2>1, <2>2, <2>3, <2>4, <2>5, <2>6, <2>7 DEF TurnAction
<1>5. QED
  BY <1>2, <1>3, <1>4, Kinds

(* Every step keeps the client's view of who waits for it.                 *)
LEMMA ShownStep ==
  ASSUME TypeInv, AdmissionInv, ShownInv, [Next]_vars
  PROVE  ShownInv'
<1> USE DEF ShownInv, End
<1>1. stop # "none" <=> pc = "done"
  BY DEF TypeInv, TypeOK
<1>2. CASE CallAction
  <2>1. /\ pc # "done" /\ pc' # "done" /\ UNCHANGED stop
        /\ UNCHANGED cancelled
    BY <1>2, CallMoves, CallSettings, MoveTypes DEF TypeInv, course, Active, Stage
  <2>2. CASE \E r \in Reply : Answer(r)
    BY <2>1, <2>2 DEF Answer, Resumed, Enter
  <2>3. CASE Policy
    <3>1. Grant => pc' \in {"effect", "approved", "write", "batch"}
      BY DEF Grant, Enter, Failed, Result
    <3>2. QED
      BY <2>1, <2>3, <3>1 DEF Policy, Enter, Failed, Result
  <2>4. CASE Abandon
    BY <2>1, <2>4 DEF Abandon, Enter, Failed, Result
  <2>5. ASSUME ~ Policy, ~ Abandon, ~ \E r \in Reply : Answer(r)
        PROVE  ShownInv'
    <3>1. UNCHANGED shown
      BY <1>2, <2>5 DEF CallAction, LookAtToken, LookAtMode, Approved, Decide,
         NoticeTimeout, Effect, ExitPlan, CommandEnds, ReadEnds, NoticeSent,
         WriteAnswered
    <3>2. pc # "asking"
      BY <1>2, <2>5 DEF CallAction, LookAtToken, LookAtMode, Approved, Decide,
         NoticeTimeout, Effect, ExitPlan, CommandEnds, ReadEnds, NoticeSent,
         WriteAnswered, Stage
    <3>3. pc' # "asking"
      <4>1. Grant => pc' # "asking"
        BY DEF Grant, Enter, Failed, Result
      <4>2. Looks => pc' # "asking"
        BY DEF Looks, Pass, Run, ListDir, UpdatePlan, StartRead, StartWalk, InPlan,
           NeedsPermission, Enter, Completed, Failed, Result
      <4>3. CASE LookAtToken \/ LookAtMode
        BY <3>2, <4>2, <4>3 DEF LookAtToken, IsCancelled, LookAtMode, Failed, Result
      <4>4. CASE Approved \/ Decide \/ Effect
        BY <4>1, <4>4 DEF Approved, Decide, Effect, WriteFile, CallServer, RunCommand,
           Started, Enter, Completed, Failed, Result
      <4>5. CASE \/ NoticeTimeout \/ NoticeSent \/ CommandEnds \/ ReadEnds
                 \/ ExitPlan \/ WriteAnswered
        BY <4>5 DEF NoticeTimeout, NoticeSent, CommandEnds, ReadEnds, ReadFile, Walk,
           ExitPlan, WriteAnswered, Completed, Failed, Result
      <4>6. QED
        BY <1>2, <2>5, <4>3, <4>4, <4>5 DEF CallAction
    <3>4. QED
      BY <2>1, <3>1, <3>2, <3>3
  <2>6. QED
    BY <2>2, <2>3, <2>4, <2>5
<1>3. CASE TurnAction
  <2> USE DEF progress, course, session, batch
  <2>1. CASE RefusePrompt \/ StreamCancelled \/ SaveFinal \/ Fail
    BY <2>1 DEF RefusePrompt, StreamCancelled, SaveFinal, Fail
  <2>2. CASE BeginTurn \/ SavePrompt \/ Admit
    BY <1>1, <2>2 DEF BeginTurn, SavePrompt, Admit
  <2>3. CASE RequestOrStop
    BY <1>1, <2>3 DEF RequestOrStop
  <2>4. CASE SaveCycle
    BY <1>1, <2>4 DEF SaveCycle, CycleEnd
  <2>5. CASE NextCall \/ Transition
    BY <1>1, <2>5 DEF NextCall, ReportToolCall, Tell, Transition
  <2>6. CASE Shutdown
    BY <2>6 DEF Shutdown
  <2>7. CASE Cancel \/ \E m \in Mode : SetMode(m)
    BY <2>7 DEF Cancel, SetMode
  <2>8. CASE \E tools \in Batch, asked \in BOOLEAN : StreamEnds(tools, asked)
    BY <1>1, <2>8 DEF StreamEnds
  <2>9. QED
    BY <1>3, <2>1, <2>2, <2>3, <2>4, <2>5, <2>6, <2>7, <2>8 DEF TurnAction
<1>4. CASE UNCHANGED vars
  BY <1>4 DEF vars, session, progress
<1>5. QED
  BY <1>2, <1>3, <1>4, Kinds

ViewInv == AdmissionInv /\ ShownInv

(* The client sees nothing at first.                                       *)
LEMMA ViewInit == Init => ViewInv
BY DEF Init, ViewInv, AdmissionInv, ShownInv

(* A client is asked to act only while a prompt waits for it or the turn   *)
(* is on its way out, and a turn that ends without an error leaves it no   *)
(* call that looks unfinished; a prompt it was told is accepted is on disk *)
(* before anything is asked of the provider (V2Tools::request_permission,  *)
(* run_prompt, report_tool_result).                                        *)
THEOREM ClientSees == Spec => []ClientView
<1>1. ASSUME TypeInv, CallInv, ViewInv
      PROVE  ClientView
  <2>1. ASSUME Finished, NEW id \in Id
        PROVE  told[id] \in {"unknown", "completed", "failed"}
    <3>1. ~ Broken /\ pc \notin Active
      BY <1>1, <2>1 DEF Finished, Broken, TypeInv, TypeOK, Active, Stage
    <3>2. told[id] \in Known
      BY <1>1 DEF TypeInv, TypeOK, Known
    <3>3. QED
      BY <1>1, <3>1, <3>2 DEF CallInv, StatusInv, Working, Known
  <2>2. QED
    BY <1>1, <2>1 DEF ClientView, ViewInv, AdmissionInv, ShownInv
<1>2. ASSUME TypeInv, ViewInv, [Next]_vars
      PROVE  ViewInv'
  BY <1>2, AdmissionStep, ShownStep DEF ViewInv
<1>3. QED
  BY <1>1, <1>2, TypeInit, TypeStep, CallInit, CallStep, ViewInit, PTL DEF Spec
---------------------------------------------------------------------------
(* How the calls are numbered.  A call carries the number of its request   *)
(* and its place in its message, and later messages are of later requests. *)
Numbered(h) ==
  \A i, j \in DOMAIN h : h[i].role = "assistant" /\ h[j].role = "assistant" =>
    \A k \in DOMAIN h[i].calls, l \in DOMAIN h[j].calls :
      /\ h[i].calls[k][2] = k
      /\ i < j => h[i].calls[k][1] < h[j].calls[l][1]
      /\ i = j => h[i].calls[k][1] = h[j].calls[l][1]
RequestsMade ==
  \A i \in DOMAIN messages : messages[i].role = "assistant" =>
    \A k \in DOMAIN messages[i].calls :
      /\ messages[i].calls[k][1] <= request
      /\ pc = "stream" => messages[i].calls[k][1] # request
AskersInv == \A i \in DOMAIN messages : messages[i].asked => messages[i].role = "assistant"
NumberInv == Numbered(messages) /\ RequestsMade /\ AskersInv

(* These numbers are numbers.                                              *)
LEMMA CallNumbers ==
  ASSUME NEW h \in Seq(Message), NEW i \in DOMAIN h, NEW k \in DOMAIN h[i].calls
  PROVE  h[i].calls[k] \in Id /\ h[i].calls[k][1] \in Nat /\ h[i].calls[k][2] \in Nat
<1>1. h[i] \in Message
  OBVIOUS
<1>2. h[i].calls \in Seq(Id)
  BY <1>1 DEF Message
<1>3. h[i].calls[k] \in Id
  BY <1>2
<1>4. QED
  BY <1>3 DEF Id

(* Requests are counted when they are sent, at the head of the loop.       *)
LEMMA RequestStep ==
  ASSUME TypeInv, [Next]_vars
  PROVE  /\ request \in Nat /\ request' \in Nat
         /\ \/ request' = request /\ (pc' = "stream" => pc = "stream")
            \/ request' = request + 1 /\ UNCHANGED messages
<1>0. request \in Nat /\ request' \in Nat
  BY TypeStep DEF TypeInv, TypeOK
<1>1. CASE CallAction
  BY <1>0, <1>1, CallMoves, MoveTypes DEF TypeInv, course, Active, Stage
<1>2. CASE RequestOrStop
  BY <1>0, <1>2 DEF RequestOrStop, End
<1>3. CASE TurnAction /\ ~ RequestOrStop
  BY <1>0, <1>3 DEF TurnAction, RefusePrompt, BeginTurn, SavePrompt, Admit, StreamCancelled,
     SaveFinal, NextCall, Transition, SaveCycle, CycleEnd, StreamEnds, Fail, Shutdown,
     Cancel, SetMode, End, progress, course
<1>4. CASE UNCHANGED vars
  BY <1>0, <1>4 DEF vars, progress
<1>5. QED
  BY <1>0, <1>1, <1>2, <1>3, <1>4, Kinds

(* Every step keeps the numbering.                                         *)
LEMMA NumberStep ==
  ASSUME TypeInv, NumberInv, [Next]_vars
  PROVE  NumberInv'
<1>1. messages \in Seq(Message) /\ messages' \in Seq(Message)
  BY TypeStep DEF TypeInv, TypeOK
<1> DEFINE N == Len(messages)
<1>2. /\ N \in Nat /\ DOMAIN messages = 1 .. N /\ DOMAIN messages' = 1 .. Len(messages')
  BY <1>1
<1>3. CASE UNCHANGED messages
  <2>1. \A i \in DOMAIN messages : messages[i].role = "assistant" =>
          \A k \in DOMAIN messages[i].calls : messages[i].calls[k][1] \in Nat
    BY <1>1, CallNumbers
  <2>2. RequestsMade'
    BY <1>3, <2>1, RequestStep DEF NumberInv, RequestsMade
  <2>3. QED
    BY <1>3, <2>2 DEF NumberInv, Numbered, AskersInv
<1>4. CASE \E m \in Message : Asks(m)
  <2>1. PICK m \in Message : Asks(m)
    BY <1>4
  <2>2. /\ Len(messages') = N + 1
        /\ \A i \in 1 .. N : messages'[i] = messages[i]
        /\ messages'[N + 1] = m
    BY <2>1, AsksKeeps
  <2>3. /\ pc = "stream" /\ pc' # "stream" /\ request' = request /\ request \in Nat
        /\ m.role = "assistant"
        /\ \A k \in DOMAIN m.calls : m.calls[k] = <<request, k>>
    BY <2>1, RequestStep DEF Asks
  <2>4. \A i \in 1 .. N : messages[i].role = "assistant" =>
          \A k \in DOMAIN messages[i].calls :
            messages[i].calls[k][1] \in Nat /\ messages[i].calls[k][1] < request
    <3>1. \A i \in 1 .. N : \A k \in DOMAIN messages[i].calls :
            messages[i].calls[k][1] \in Nat
      BY <1>1, <1>2, CallNumbers
    <3>2. QED
      BY <1>2, <2>3, <3>1 DEF NumberInv, RequestsMade
  <2> HIDE DEF N
  <2>5. \A i \in DOMAIN messages' :
          \/ i \in 1 .. N /\ messages'[i] = messages[i]
          \/ i = N + 1 /\ messages'[i] = m
    <3>1. \A i \in DOMAIN messages' : i \in 1 .. N \/ i = N + 1
      BY <1>2, <2>2
    <3>2. QED
      BY <2>2, <3>1
  <2>6. Numbered(messages')
    <3>1. SUFFICES ASSUME NEW i \in DOMAIN messages', NEW j \in DOMAIN messages',
                          messages'[i].role = "assistant",
                          messages'[j].role = "assistant",
                          NEW k \in DOMAIN messages'[i].calls,
                          NEW l \in DOMAIN messages'[j].calls
                   PROVE  /\ messages'[i].calls[k][2] = k
                          /\ i < j => messages'[i].calls[k][1] < messages'[j].calls[l][1]
                          /\ i = j => messages'[i].calls[k][1] = messages'[j].calls[l][1]
      BY DEF Numbered
    <3>2. CASE i \in 1 .. N /\ messages'[i] = messages[i]
      <4>1. CASE j \in 1 .. N /\ messages'[j] = messages[j]
        BY <1>2, <3>1, <3>2, <4>1 DEF NumberInv, Numbered
      <4>2. CASE j = N + 1 /\ messages'[j] = m
        <5>1. messages[i].calls[k][2] = k
          BY <1>2, <3>1, <3>2 DEF NumberInv, Numbered
        <5>2. messages[i].calls[k][1] < request
          BY <2>4, <3>1, <3>2
        <5>3. m.calls[l][1] = request /\ i # j
          BY <1>2, <2>3, <3>1, <3>2, <4>2
        <5>4. QED
          BY <3>2, <4>2, <5>1, <5>2, <5>3
      <4>3. QED
        BY <2>5, <4>1, <4>2
    <3>3. CASE i = N + 1 /\ messages'[i] = m
      <4>1. m.calls[k] = <<request, k>>
        BY <2>3, <3>1, <3>3
      <4>2. ~ i < j
        BY <1>2, <2>5, <3>3
      <4>3. i = j => m.calls[l] = <<request, l>>
        BY <2>3, <3>1, <3>3
      <4>4. QED
        BY <3>3, <4>1, <4>2, <4>3
    <3>4. QED
      BY <2>5, <3>2, <3>3
  <2>7. RequestsMade'
    <3>1. SUFFICES ASSUME NEW i \in DOMAIN messages', messages'[i].role = "assistant",
                          NEW k \in DOMAIN messages'[i].calls
                   PROVE  messages'[i].calls[k][1] <= request'
      BY <2>3 DEF RequestsMade
    <3>2. CASE i \in 1 .. N /\ messages'[i] = messages[i]
      BY <2>3, <2>4, <3>1, <3>2
    <3>3. CASE i = N + 1 /\ messages'[i] = m
      BY <2>3, <3>1, <3>3
    <3>4. QED
      BY <2>5, <3>2, <3>3
  <2>8. AskersInv'
    BY <1>2, <2>3, <2>5 DEF NumberInv, AskersInv
  <2>9. QED
    BY <2>6, <2>7, <2>8 DEF NumberInv
<1>5. CASE Answers
  <2>1. /\ Len(messages') = N + 1
        /\ \A i \in 1 .. N : messages'[i] = messages[i]
        /\ messages'[N + 1].role = "tool" /\ ~ messages'[N + 1].asked
        /\ pc' = "batch"
    BY <1>5, AnswersKeeps
  <2> HIDE DEF N
  <2>2. \A i \in DOMAIN messages' :
          messages'[i].role = "assistant" \/ messages'[i].asked =>
            i \in DOMAIN messages /\ messages'[i] = messages[i]
    BY <1>2, <2>1
  <2>3. request' = request
    BY <1>2, <2>1, RequestStep DEF N
  <2>4. QED
    BY <2>1, <2>2, <2>3 DEF NumberInv, Numbered, RequestsMade, AskersInv
<1>6. QED
  BY <1>3, <1>4, <1>5, ConversationStep

(* Message j has asked for call id, as its k-th, to be run.                *)
AskerOf(j, k, id) ==
  /\ j \in DOMAIN messages /\ messages[j].asked /\ messages[j].role = "assistant"
  /\ k \in DOMAIN messages[j].calls /\ messages[j].calls[k] = id

(* Every result, and the first waiting call, has such a message as many    *)
(* places before it.                                                       *)
LEMMA Askers ==
  ASSUME TypeInv, PairInv, NumberInv
  PROVE  /\ \A n \in DOMAIN messages : messages[n].role = "tool" =>
              \E j \in 1 .. n - 1 : \E id \in Id :
                AskerOf(j, n - j, id) /\ messages[n].calls = <<id>>
         /\ queue # <<>> =>
              \E j \in 1 .. Len(messages) :
                AskerOf(j, Len(messages) + 1 - j, queue[1].id)
<1>1. messages \in Seq(Message) /\ queue \in Seq(Call)
  BY DEF TypeInv, TypeOK
<1>2. /\ Len(messages) \in Nat /\ DOMAIN messages = 1 .. Len(messages)
      /\ Len(queue) \in Nat /\ (queue # <<>> => Len(queue) >= 1)
  BY <1>1
<1>3. ASSUME NEW n \in 1 .. Len(messages) + Len(queue), AskedFrom(messages, n)
      PROVE  \E j \in 1 .. n - 1 :
               /\ j \in DOMAIN messages /\ messages[j].asked
               /\ messages[j].role = "assistant"
               /\ n - j \in DOMAIN messages[j].calls
               /\ messages[j].calls[n - j] \in Id
               /\ Placed(messages, queue, j, n - j)
  <2>1. PICK j \in DOMAIN messages :
          j < n /\ messages[j].asked /\ n - j \in DOMAIN messages[j].calls
    BY <1>3 DEF AskedFrom
  <2>2. messages[j].role = "assistant" /\ Placed(messages, queue, j, n - j)
    BY <2>1 DEF NumberInv, AskersInv, PairInv, BatchInv
  <2>4. messages[j].calls[n - j] \in Id
    BY <1>1, <2>1, CallNumbers
  <2>5. j \in 1 .. n - 1
    BY <1>2, <2>1
  <2>6. QED
    BY <2>1, <2>2, <2>4, <2>5
<1>4. ASSUME NEW n \in DOMAIN messages, messages[n].role = "tool"
      PROVE  \E j \in 1 .. n - 1 : \E id \in Id :
               AskerOf(j, n - j, id) /\ messages[n].calls = <<id>>
  <2>1. n \in 1 .. Len(messages) + Len(queue) /\ n <= Len(messages)
    BY <1>2
  <2>2. AskedFrom(messages, n)
    BY <1>4, <2>1 DEF PairInv, OriginInv
  <2>3. PICK j \in 1 .. n - 1 :
               /\ j \in DOMAIN messages /\ messages[j].asked
               /\ messages[j].role = "assistant"
               /\ n - j \in DOMAIN messages[j].calls
               /\ messages[j].calls[n - j] \in Id
               /\ Placed(messages, queue, j, n - j)
    BY <1>3, <2>1, <2>2
  <2>4. j + (n - j) = n
    BY <2>1, <2>3
  <2>5. messages[n].calls = <<messages[j].calls[n - j]>>
    BY <2>1, <2>3, <2>4 DEF Placed
  <2>6. QED
    BY <2>3, <2>5 DEF AskerOf
<1>5. ASSUME queue # <<>>
      PROVE  \E j \in 1 .. Len(messages) :
               AskerOf(j, Len(messages) + 1 - j, queue[1].id)
  <2> DEFINE n == Len(messages) + 1
  <2>1. n \in 1 .. Len(messages) + Len(queue) /\ ~ n <= Len(messages)
    BY <1>2, <1>5
  <2>2. AskedFrom(messages, n)
    BY <2>1 DEF PairInv, OriginInv
  <2>3. PICK j \in 1 .. n - 1 :
               /\ j \in DOMAIN messages /\ messages[j].asked
               /\ messages[j].role = "assistant"
               /\ n - j \in DOMAIN messages[j].calls
               /\ messages[j].calls[n - j] \in Id
               /\ Placed(messages, queue, j, n - j)
    <3> HIDE DEF n
    <3>1. QED
      BY <1>3, <2>1, <2>2
  <2>4. j + (n - j) = n /\ n - Len(messages) = 1 /\ 1 .. n - 1 = 1 .. Len(messages)
    BY <1>2, <2>1, <2>3
  <2>5. queue[1].id = messages[j].calls[n - j]
    <3> HIDE DEF n
    <3>1. ~ (j + (n - j) <= Len(messages)) /\ j + (n - j) - Len(messages) = 1
      BY <2>1, <2>4
    <3>2. QED
      BY <2>3, <3>1 DEF Placed
  <2>6. QED
    BY <2>3, <2>4, <2>5 DEF AskerOf
<1>6. QED
  BY <1>4, <1>5

(* No call is asked for twice.                                             *)
LEMMA OneAsker ==
  ASSUME TypeInv, NumberInv, NEW id, NEW i, NEW j, NEW k, NEW l,
         AskerOf(i, k, id), AskerOf(j, l, id)
  PROVE  i = j /\ k = l
<1>1. messages \in Seq(Message)
  BY DEF TypeInv, TypeOK
<1>2. i \in DOMAIN messages /\ j \in DOMAIN messages
      /\ k \in DOMAIN messages[i].calls /\ l \in DOMAIN messages[j].calls
      /\ messages[i].role = "assistant" /\ messages[j].role = "assistant"
      /\ messages[i].calls[k] = id /\ messages[j].calls[l] = id
  BY DEF AskerOf
<1>5. id[1] \in Nat
  BY <1>1, <1>2, CallNumbers
<1>6. k = id[2] /\ l = id[2] /\ (i < j => id[1] < id[1]) /\ (j < i => id[1] < id[1])
  BY <1>2 DEF NumberInv, Numbered
<1>7. i \in Nat /\ j \in Nat
  BY <1>1, <1>2
<1>8. QED
  BY <1>5, <1>6, <1>7

(* A call that waits has no result yet.                                    *)
LEMMA WaitsUnanswered ==
  ASSUME TypeInv, PairInv, NumberInv, queue # <<>>
  PROVE  ~ Recorded(messages, queue[1].id)
<1>1. SUFFICES ASSUME NEW n \in DOMAIN messages, messages[n].role = "tool",
                      messages[n].calls = <<queue[1].id>>
               PROVE  FALSE
  BY DEF Recorded
<1>2. PICK j \in 1 .. n - 1, id \in Id :
        AskerOf(j, n - j, id) /\ messages[n].calls = <<id>>
  BY <1>1, Askers
<1>3. id = queue[1].id
  BY <1>1, <1>2
<1>4. PICK i \in 1 .. Len(messages) : AskerOf(i, Len(messages) + 1 - i, id)
  BY <1>3, Askers
<1>5. n - j = Len(messages) + 1 - i /\ i = j
  BY <1>2, <1>4, OneAsker
<1>6. n \in 1 .. Len(messages) /\ Len(messages) \in Nat
  BY DEF TypeInv, TypeOK
<1>7. QED
  BY <1>5, <1>6

---------------------------------------------------------------------------
(* What the client was told of a call is what its result says, and a call  *)
(* that it was told has ended has a result.                                *)
ResultInv ==
  \A i \in DOMAIN messages : messages[i].role = "tool" =>
    told[messages[i].calls[1]] = Status(messages[i].success)
ToldInv ==
  \A id \in Id : told[id] \in {"completed", "failed"} => Recorded(messages, id)

(* Only the call at the head of the batch is spoken of, and its end is told*)
(* with its result.                                                        *)
LEMMA ToldStep ==
  ASSUME TypeInv, [Next]_vars, ~ Answers
  PROVE  \/ UNCHANGED told
         \/ /\ queue # <<>> /\ call = queue[1]
            /\ told' = [told EXCEPT ![call.id] = "pending"]
               \/ told' = [told EXCEPT ![call.id] = "in_progress"]
<1>0. queue # <<>> => call = queue[1]
  BY DEF TypeInv, TypeOK, call
<1>1. CASE CallAction
  <2>1. pc \in Active /\ queue # <<>>
    BY <1>1, CallMoves, CallTypes DEF TypeInv
  <2>2. Looked \/ Started \/ \E stage \in Active : Enter(stage)
    BY <1>1, <2>1, CallMoves DEF TypeInv, CallMove, Answers
  <2>3. QED
    BY <1>0, <2>1, <2>2 DEF Looked, Started, Enter, ReportInProgress, Tell
<1>2. CASE NextCall
  BY <1>0, <1>2 DEF NextCall, ReportToolCall, Tell
<1>3. CASE TurnAction /\ ~ NextCall
  BY <1>3 DEF TurnAction, RefusePrompt, BeginTurn, SavePrompt, Admit, RequestOrStop,
     StreamCancelled, SaveFinal, Transition, SaveCycle, StreamEnds, Fail, Shutdown,
     Cancel, SetMode, batch
<1>4. CASE UNCHANGED vars
  BY <1>4 DEF vars, batch
<1>5. QED
  BY <1>1, <1>2, <1>3, <1>4, Kinds

(* Every step keeps what was told and what is recorded together.           *)
LEMMA OutcomeStep ==
  ASSUME TypeInv, PairInv, NumberInv, ResultInv, ToldInv, [Next]_vars
  PROVE  ResultInv' /\ ToldInv'
<1>1. /\ messages \in Seq(Message) /\ messages' \in Seq(Message)
      /\ told \in [Id -> Known] /\ queue \in Seq(Call)
  BY TypeStep DEF TypeInv, TypeOK, Known
<1> DEFINE N == Len(messages)
<1>2. /\ N \in Nat /\ DOMAIN messages = 1 .. N /\ DOMAIN messages' = 1 .. Len(messages')
  BY <1>1
<1>3. ASSUME NEW i \in DOMAIN messages, messages[i].role = "tool", queue # <<>>
      PROVE  messages[i].calls[1] \in Id /\ messages[i].calls[1] # queue[1].id
  <2>1. PICK id \in Id : messages[i].calls = <<id>>
    BY <1>3, Askers
  <2>2. ~ Recorded(messages, queue[1].id)
    BY <1>3, WaitsUnanswered
  <2>3. QED
    BY <1>3, <2>1, <2>2 DEF Recorded
<1>4. CASE Answers
  <2>1. PICK ok \in BOOLEAN : pc \in Active /\ Result(ok)
    BY <1>4 DEF Answers
  <2>2. /\ queue # <<>> /\ call = queue[1] /\ call.id \in Id
    BY <1>4, <2>1, CallTypes, AnswersKeeps DEF TypeInv
  <2> DEFINE m == [role |-> "tool", calls |-> <<call.id>>, asked |-> FALSE,
                   success |-> ok]
  <2>3. /\ Len(messages') = N + 1
        /\ \A i \in 1 .. N : messages'[i] = messages[i]
    BY <1>4, AnswersKeeps
  <2>4. messages'[N + 1] = m
    <3>1. messages' = Append(messages, m)
      BY <2>1 DEF Result
    <3>2. QED
      BY <1>1, <3>1
  <2>5. told' = [told EXCEPT ![call.id] = Status(ok)]
    BY <2>1 DEF Result, ReportToolResult, Tell
  <2>6. told'[call.id] = Status(ok)
    BY <1>1, <2>2, <2>5
  <2>7. \A id \in Id : id # call.id => told'[id] = told[id]
    BY <1>1, <2>5
  <2>8. m.role = "tool" /\ m.calls[1] = call.id /\ m.success = ok
    OBVIOUS
  <2> HIDE DEF N, m
  <2>9. \A i \in DOMAIN messages' : i \in 1 .. N \/ i = N + 1
    BY <1>2, <2>3
  <2>10. ResultInv'
    <3>1. SUFFICES ASSUME NEW i \in DOMAIN messages', messages'[i].role = "tool"
                   PROVE  told'[messages'[i].calls[1]] = Status(messages'[i].success)
      BY DEF ResultInv
    <3>2. CASE i \in 1 .. N
      <4>1. messages'[i] = messages[i] /\ i \in DOMAIN messages
        BY <1>2, <2>3, <3>2
      <4>2. told'[messages[i].calls[1]] = told[messages[i].calls[1]]
        BY <1>3, <2>2, <2>7, <3>1, <4>1
      <4>3. QED
        BY <3>1, <4>1, <4>2 DEF ResultInv
    <3>3. CASE i = N + 1
      BY <2>4, <2>6, <2>8, <3>3
    <3>4. QED
      BY <2>9, <3>2, <3>3
  <2>11. ToldInv'
    <3>1. SUFFICES ASSUME NEW id \in Id, told'[id] \in {"completed", "failed"}
                   PROVE  Recorded(messages', id)
      BY DEF ToldInv
    <3>2. CASE id = call.id
      BY <1>4, <3>2, RecordsStay
    <3>3. CASE id # call.id
      BY <2>7, <3>1, <3>3, RecordsStay DEF ToldInv
    <3>4. QED
      BY <3>2, <3>3
  <2>12. QED
    BY <2>10, <2>11
<1>5. CASE ~ Answers
  <2>1. \A i \in DOMAIN messages' : messages'[i].role = "tool" =>
          i \in DOMAIN messages /\ messages'[i] = messages[i]
    <3>1. CASE UNCHANGED messages
      BY <3>1
    <3>2. CASE \E m \in Message : Asks(m)
      <4>1. PICK m \in Message : Asks(m)
        BY <3>2
      <4>2. /\ Len(messages') = N + 1
            /\ \A i \in 1 .. N : messages'[i] = messages[i]
            /\ messages'[N + 1].role = "assistant"
        BY <4>1, AsksKeeps DEF Asks
      <4> HIDE DEF N
      <4>3. QED
        BY <1>2, <4>2
    <3>3. QED
      BY <1>5, <3>1, <3>2, ConversationStep
  <2>2. CASE UNCHANGED told
    BY <2>1, <2>2, RecordsStay DEF ResultInv, ToldInv
  <2>3. CASE ~ UNCHANGED told
    <3>1. /\ queue # <<>> /\ call = queue[1]
          /\ \/ told' = [told EXCEPT ![call.id] = "pending"]
             \/ told' = [told EXCEPT ![call.id] = "in_progress"]
      BY <1>5, <2>3, ToldStep
    <3>2. /\ \A id \in Id : id # call.id => told'[id] = told[id]
          /\ call.id \in Id => told'[call.id] \in {"pending", "in_progress"}
      BY <1>1, <3>1
    <3>3. ResultInv'
      <4>1. SUFFICES ASSUME NEW i \in DOMAIN messages', messages'[i].role = "tool"
                     PROVE  told'[messages'[i].calls[1]] = Status(messages'[i].success)
        BY DEF ResultInv
      <4>2. i \in DOMAIN messages /\ messages'[i] = messages[i]
        BY <2>1, <4>1
      <4>3. told'[messages[i].calls[1]] = told[messages[i].calls[1]]
        BY <1>3, <3>1, <3>2, <4>1, <4>2
      <4>4. QED
        BY <4>1, <4>2, <4>3 DEF ResultInv
    <3>4. ToldInv'
      BY <3>2, RecordsStay DEF ToldInv
    <3>5. QED
      BY <3>3, <3>4
  <2>4. QED
    BY <2>2, <2>3
<1>6. QED
  BY <1>4, <1>5

---------------------------------------------------------------------------
(* What a load finds.  The result of a call is searched among the tool     *)
(* messages behind the call's message: it is the one at the call's place.  *)
LEMMA StoredAtPlace ==
  ASSUME TypeInv, PairInv, NumberInv,
         NEW i \in DOMAIN messages, messages[i].role = "assistant",
         NEW k \in DOMAIN messages[i].calls,
         NEW j \in Stored(messages, i, messages[i].calls[k])
  PROVE  /\ j = i + k /\ j \in DOMAIN messages /\ messages[j].role = "tool"
         /\ messages[j].calls = <<messages[i].calls[k]>>
<1>1. messages \in Seq(Message) /\ queue \in Seq(Call)
  BY DEF TypeInv, TypeOK
<1>2. Len(messages) \in Nat /\ DOMAIN messages = 1 .. Len(messages) /\ k \in Nat
  BY <1>1, Indices
<1>3. /\ j \in DOMAIN messages /\ j > i
      /\ \A l \in i + 1 .. j : messages[l].role = "tool"
      /\ messages[j].calls[1][2] = messages[i].calls[k][2]
  BY DEF Stored, Following, ProviderId
<1>4. j \in i + 1 .. j /\ messages[j].role = "tool"
  BY <1>2, <1>3
<1>5. PICK a \in 1 .. j - 1, id \in Id :
        AskerOf(a, j - a, id) /\ messages[j].calls = <<id>>
  BY <1>3, <1>4, Askers
<1>6. a <= i
  <2>1. a \notin i + 1 .. j
    BY <1>3, <1>5 DEF AskerOf
  <2>2. QED
    BY <1>2, <1>3, <1>5, <2>1
<1>7. ~ a < i
  <2>1. SUFFICES ASSUME a < i PROVE FALSE
    OBVIOUS
  <2>2. i - a \in DOMAIN messages[a].calls /\ a \in DOMAIN messages /\ messages[a].asked
    <3>1. a \in 1 .. Len(messages) /\ j - a \in DOMAIN messages[a].calls /\ messages[a].asked
      BY <1>2, <1>5 DEF AskerOf
    <3>2. /\ Len(messages[a].calls) \in Nat
          /\ DOMAIN messages[a].calls = 1 .. Len(messages[a].calls)
      BY <1>1, <3>1, Indices
    <3> DEFINE len == Len(messages[a].calls)
    <3> HIDE DEF len
    <3>3. j - a \in 1 .. len /\ len \in Nat
      BY <3>1, <3>2 DEF len
    <3>4. i - a \in 1 .. len
      BY <1>2, <1>3, <2>1, <3>1, <3>3
    <3>5. QED
      BY <1>2, <3>1, <3>2, <3>4 DEF len
  <2>3. Placed(messages, queue, a, i - a)
    BY <2>2 DEF PairInv, BatchInv
  <2>4. a + (i - a) = i /\ i <= Len(messages)
    BY <1>2, <1>5
  <2>5. messages[i].role = "tool"
    BY <2>3, <2>4 DEF Placed
  <2>6. QED
    BY <2>5
<1>8. a = i
  BY <1>2, <1>5, <1>6, <1>7
<1>9. id = messages[i].calls[j - i] /\ j - i \in DOMAIN messages[i].calls
  BY <1>5, <1>8 DEF AskerOf
<1>10. messages[i].calls[j - i][2] = j - i /\ messages[i].calls[k][2] = k
  BY <1>9 DEF NumberInv, Numbered
<1>11. j - i = k
  BY <1>3, <1>5, <1>9, <1>10
<1>12. j = i + k
  BY <1>2, <1>3, <1>11
<1>13. QED
  BY <1>3, <1>4, <1>5, <1>9, <1>11, <1>12

(* So a load shows a call with the outcome that the client was told.       *)
LEMMA ReplayedAsTold ==
  ASSUME TypeInv, PairInv, NumberInv, ResultInv,
         NEW i \in DOMAIN messages, messages[i].role = "assistant",
         NEW k \in DOMAIN messages[i].calls,
         Stored(messages, i, messages[i].calls[k]) # {}
  PROVE  LET id == messages[i].calls[k] IN
           /\ ReplayedCall(messages, i, id) = [id |-> id, status |-> told[id]]
           /\ id \in Id /\ told[id] \in {"completed", "failed"}
<1> DEFINE id == messages[i].calls[k]
           S == Stored(messages, i, id)
           first == CHOOSE j \in S : \A l \in S : j <= l
<1>1. messages \in Seq(Message)
  BY DEF TypeInv, TypeOK
<1>2. i + k \in Nat /\ id \in Id
  <2>1. i \in Nat /\ k \in Nat
    BY <1>1, Indices, queue \in Seq(Call) DEF TypeInv, TypeOK
  <2>2. QED
    BY <1>1, <2>1, CallNumbers
<1>3. \A j \in S : /\ j = i + k /\ j \in DOMAIN messages
                   /\ messages[j].role = "tool" /\ messages[j].calls = <<id>>
  BY StoredAtPlace
<1>4. S # {}
  OBVIOUS
<1>5. ReplayedCall(messages, i, id) = [id |-> id, status |-> Status(messages[first].success)]
  BY DEF ReplayedCall
<1> HIDE DEF id, S
<1>6. first \in S
  <2>1. \E j \in S : \A l \in S : j <= l
    BY <1>2, <1>3, <1>4
  <2>2. QED
    BY <2>1
<1> HIDE DEF first
<1>7. told[id] = Status(messages[first].success)
  <2>1. first \in DOMAIN messages /\ messages[first].role = "tool"
        /\ messages[first].calls = <<id>>
    BY <1>3, <1>6
  <2>2. QED
    BY <2>1 DEF ResultInv
<1>8. told[id] \in {"completed", "failed"}
  BY <1>7 DEF Status
<1>9. QED
  BY <1>2, <1>5, <1>7, <1>8 DEF id

---------------------------------------------------------------------------
(* The recursion of Replay.  Its solution exists, and what holds of a      *)
(* prefix, and of the next message after it, holds of all.                 *)

(* A set of numbers has a smallest one.                                    *)
LEMMA Smallest ==
  ASSUME NEW T \in SUBSET Nat, T # {}
  PROVE  \E n \in T : \A m \in T : n <= m
<1> DEFINE R == OpToRel(<, Nat)
<1>1. IsWellFoundedOn(R, Nat)
  BY NatLessThanWellFounded
<1>2. PICK n \in T : \A m \in T : ~ (<<m, n>> \in R)
  <2> HIDE DEF R
  <2>1. QED
    BY <1>1, WFMin
<1>3. ASSUME NEW m \in T, m < n PROVE FALSE
  BY <1>2, <1>3 DEF OpToRel
<1>4. QED
  BY <1>3

(* Induction over the numbers up to m.                                     *)
LEMMA InductionTo ==
  ASSUME NEW m \in Nat, NEW T, 0 \in T,
         \A n \in 1 .. m : n - 1 \in T => n \in T
  PROVE  \A n \in 0 .. m : n \in T
<1> DEFINE U == (0 .. m) \ T
<1>1. SUFFICES ASSUME U # {} PROVE FALSE
  OBVIOUS
<1>2. U \in SUBSET Nat
  OBVIOUS
<1>3. PICK n \in U : \A k \in U : n <= k
  <2> HIDE DEF U
  <2>1. QED
    BY <1>1, <1>2, Smallest
<1>4. n \in 1 .. m /\ n - 1 \in 0 .. m /\ ~ n <= n - 1
  BY <1>3
<1>5. n - 1 \in T
  BY <1>3, <1>4
<1>6. QED
  BY <1>3, <1>4, <1>5

(* f joins the parts up to each n.                                         *)
Joined(f, part, m, X) ==
  /\ f \in [0 .. m -> Seq(X)]
  /\ f[0] = <<>>
  /\ \A n \in 1 .. m : f[n] = f[n - 1] \o part[n]

(* Such a function exists, whatever the parts.                             *)
LEMMA Joins ==
  ASSUME NEW m \in Nat, NEW X, NEW part \in [1 .. m -> Seq(X)]
  PROVE  \E f : Joined(f, part, m, X)
<1> DEFINE Upto(k, f) ==
      /\ f \in [0 .. m -> Seq(X)]
      /\ f[0] = <<>>
      /\ \A n \in 1 .. k : f[n] = f[n - 1] \o part[n]
    T == {k \in 0 .. m : \E f : Upto(k, f)}
<1>1. 0 \in T
  <2> DEFINE f == [n \in 0 .. m |-> <<>>]
  <2>1. f \in [0 .. m -> Seq(X)] /\ f[0] = <<>> /\ 0 \in 0 .. m /\ 1 .. 0 = {}
    OBVIOUS
  <2>2. Upto(0, f)
    BY <2>1
  <2>3. QED
    BY <2>1, <2>2
<1>2. ASSUME NEW k \in 1 .. m, k - 1 \in T PROVE k \in T
  <2>1. PICK f : Upto(k - 1, f)
    BY <1>2
  <2>2. k \in 0 .. m /\ k - 1 \in 0 .. m /\ k # 0
    BY <1>2
  <2>3. f[k - 1] \o part[k] \in Seq(X)
    <3>1. f[k - 1] \in Seq(X) /\ part[k] \in Seq(X)
      BY <2>1, <2>2
    <3>2. QED
      BY <3>1, ConcatProperties
  <2> DEFINE v == f[k - 1] \o part[k]
             g == [f EXCEPT ![k] = v]
  <2>4. g \in [0 .. m -> Seq(X)] /\ g[0] = <<>> /\ g[k] = v
        /\ \A n \in 0 .. m : n # k => g[n] = f[n]
    <3> HIDE DEF v
    <3>1. v \in Seq(X)
      BY <2>3 DEF v
    <3>2. QED
      BY <2>1, <2>2, <3>1
  <2> HIDE DEF g
  <2>5. ASSUME NEW n \in 1 .. k PROVE g[n] = g[n - 1] \o part[n]
    <3>1. n \in 0 .. m /\ n - 1 \in 0 .. m /\ n - 1 # k
      BY <2>2
    <3>2. CASE n = k
      BY <2>4, <3>1, <3>2
    <3>3. CASE n # k
      BY <2>1, <2>4, <3>1, <3>3, n \in 1 .. k - 1
    <3>4. QED
      BY <3>2, <3>3
  <2>6. Upto(k, g)
    BY <2>4, <2>5
  <2>7. QED
    BY <2>2, <2>6
<1>3. m \in T
  <2> HIDE DEF T
  <2>1. \A n \in 0 .. m : n \in T
    BY <1>1, <1>2, InductionTo
  <2>2. QED
    BY <2>1
<1>4. QED
  BY <1>3 DEF Joined

(* Replay joins the calls of one message after the other.                  *)
Replayed(h) ==
  CHOOSE replayed : replayed = [i \in 0 .. Len(h) |->
    IF i = 0 THEN <<>> ELSE replayed[i - 1] \o ReplayedMessage(h, i)]
CallsOf(h) == {ReplayedCall(h, at[1], h[at[1]].calls[at[2]]) : at \in Nat \X Nat}

(* It is the function that the recursion of Replay defines.                *)
LEMMA ReplayJoins ==
  ASSUME NEW h \in Seq(Message)
  PROVE  /\ Joined(Replayed(h), [i \in 1 .. Len(h) |-> ReplayedMessage(h, i)],
                   Len(h), CallsOf(h))
         /\ \A i \in 1 .. Len(h) : ReplayedMessage(h, i) \in Seq(CallsOf(h))
         /\ Replay(h) = Replayed(h)[Len(h)]
<1> DEFINE N == Len(h)
           X == CallsOf(h)
           part == [i \in 1 .. N |-> ReplayedMessage(h, i)]
           Next1(f) == [i \in 0 .. N |->
             IF i = 0 THEN <<>> ELSE f[i - 1] \o ReplayedMessage(h, i)]
           r == Replayed(h)
<1>1. N \in Nat
  OBVIOUS
<1>2. ASSUME NEW i \in 1 .. N PROVE ReplayedMessage(h, i) \in Seq(X)
  <2>1. /\ Len(h[i].calls) \in Nat /\ DOMAIN h[i].calls = 1 .. Len(h[i].calls)
    BY Indices, <<>> \in Seq(Call)
  <2>2. \A k \in 1 .. Len(h[i].calls) : ReplayedCall(h, i, h[i].calls[k]) \in X
    <3>1. SUFFICES ASSUME NEW k \in 1 .. Len(h[i].calls)
                   PROVE  ReplayedCall(h, i, h[i].calls[k]) \in X
      OBVIOUS
    <3>2. <<i, k>> \in Nat \X Nat
      BY <2>1
    <3>3. ReplayedCall(h, <<i, k>>[1], h[<<i, k>>[1]].calls[<<i, k>>[2]])
            = ReplayedCall(h, i, h[i].calls[k])
      OBVIOUS
    <3>4. QED
      BY <3>2, <3>3 DEF CallsOf
  <2> HIDE DEF X
  <2>3. [k \in 1 .. Len(h[i].calls) |-> ReplayedCall(h, i, h[i].calls[k])] \in Seq(X)
    BY <2>1, <2>2
  <2>4. QED
    BY <2>1, <2>3 DEF ReplayedMessage
<1>3. part \in [1 .. N -> Seq(X)]
  BY <1>2
<1>4. \A i \in 1 .. N : part[i] = ReplayedMessage(h, i)
  OBVIOUS
<1>5. r = CHOOSE f : f = Next1(f)
  BY DEF Replayed
<1>6. Replay(h) = r[N]
  BY DEF Replay, Replayed
<1> HIDE DEF N, X, part
<1>7. PICK f : Joined(f, part, N, X)
  BY <1>1, <1>3, Joins
<1>8. f = Next1(f)
  <2>1. \A i \in 0 .. N : i = 0 \/ i \in 1 .. N
    BY <1>1
  <2>2. \A i \in 1 .. N : i # 0 /\ f[i] = f[i - 1] \o ReplayedMessage(h, i)
    <3>1. \A i \in 1 .. N : f[i] = f[i - 1] \o part[i]
      BY <1>7 DEF Joined
    <3>2. \A i \in 1 .. N : i # 0
      BY <1>1
    <3>3. QED
      BY <1>4, <3>1, <3>2, Zenon
  <2>3. f \in [0 .. N -> Seq(X)] /\ f[0] = <<>>
    BY <1>7 DEF Joined
  <2>4. QED
    BY <2>1, <2>2, <2>3
<1>9. r = Next1(r)
  <2> HIDE DEF Next1
  <2>1. QED
    BY <1>5, <1>8
<1> HIDE DEF r
<1>10. /\ r[0] = <<>>
       /\ \A i \in 1 .. N : r[i] = r[i - 1] \o part[i]
       /\ r = [i \in 0 .. N |-> r[i]]
  <2>1. 0 \in 0 .. N /\ \A i \in 1 .. N : i \in 0 .. N /\ i # 0
    BY <1>1
  <2>2. QED
    BY <1>4, <1>9, <2>1
<1>11. \A i \in 0 .. N : r[i] \in Seq(X)
  <2> DEFINE T == {i \in 0 .. N : r[i] \in Seq(X)}
  <2>1. 0 \in T
    BY <1>1, <1>10
  <2>2. ASSUME NEW i \in 1 .. N, i - 1 \in T PROVE i \in T
    <3>1. r[i - 1] \in Seq(X) /\ part[i] \in Seq(X) /\ i \in 0 .. N
      BY <1>1, <1>3, <2>2
    <3>2. r[i - 1] \o part[i] \in Seq(X)
      BY <3>1, ConcatProperties
    <3>3. QED
      BY <1>10, <3>1, <3>2
  <2> HIDE DEF T
  <2>3. \A i \in 0 .. N : i \in T
    BY <1>1, <2>1, <2>2, InductionTo
  <2>4. QED
    BY <2>3 DEF T
<1>12. r \in [0 .. N -> Seq(X)]
  BY <1>10, <1>11
<1>13. Joined(r, part, N, X)
  BY <1>10, <1>12 DEF Joined
<1>14. QED
  BY <1>2, <1>6, <1>13 DEF r, part, X, N

(* What the calls of message i, and of those before it, come to in a       *)
(* replay: each shown for a call, each call shown, one after the other.    *)
HasCall(h, i, k) ==
  i \in DOMAIN h /\ h[i].role = "assistant" /\ k \in DOMAIN h[i].calls
Shown(h, i, k) == ReplayedCall(h, i, h[i].calls[k])
Covers(h, n, s) ==
  /\ \A p \in 1 .. Len(s) : \E i \in 1 .. n, k \in Nat :
       HasCall(h, i, k) /\ s[p] = Shown(h, i, k)
  /\ \A i \in 1 .. n, k \in Nat : HasCall(h, i, k) =>
       \E p \in 1 .. Len(s) : s[p] = Shown(h, i, k)
  /\ \A p, q \in 1 .. Len(s) : p < q => Before(s[p].id, s[q].id)

(* The next message keeps this, for its calls are of a later request.      *)
LEMMA NextMessage ==
  ASSUME NEW h \in Seq(Message), Numbered(h), NEW n \in 1 .. Len(h),
         NEW s \in Seq(CallsOf(h)), Covers(h, n - 1, s)
  PROVE  Covers(h, n, s \o ReplayedMessage(h, n))
<1> DEFINE t == ReplayedMessage(h, n)
           u == s \o t
<1>1. Len(s) \in Nat /\ n \in Nat /\ n - 1 \in Nat /\ DOMAIN h = 1 .. Len(h)
      /\ Len(h) \in Nat
  OBVIOUS
<1>2. t \in Seq(CallsOf(h)) /\ Len(t) \in Nat
  <2>1. t \in Seq(CallsOf(h))
    BY ReplayJoins
  <2> HIDE DEF t
  <2>2. QED
    BY <2>1
<1>3. /\ Len(h[n].calls) \in Nat /\ DOMAIN h[n].calls = 1 .. Len(h[n].calls)
  BY Indices, <<>> \in Seq(Call)
<1>4. h[n].role # "assistant" => Len(t) = 0
  BY DEF ReplayedMessage
<1>5. h[n].role = "assistant" =>
        /\ Len(t) = Len(h[n].calls)
        /\ \A k \in 1 .. Len(t) : t[k] = Shown(h, n, k)
  <2>1. SUFFICES ASSUME h[n].role = "assistant"
                 PROVE  /\ Len(t) = Len(h[n].calls)
                        /\ \A k \in 1 .. Len(t) : t[k] = Shown(h, n, k)
    OBVIOUS
  <2>2. t = [k \in 1 .. Len(h[n].calls) |-> ReplayedCall(h, n, h[n].calls[k])]
    BY <1>3, <2>1 DEF ReplayedMessage
  <2> HIDE DEF t
  <2>3. Len(t) = Len(h[n].calls)
    BY <1>2, <1>3, <2>2
  <2>4. QED
    BY <2>2, <2>3 DEF Shown
<1>6. /\ Len(u) = Len(s) + Len(t)
      /\ \A p \in 1 .. Len(s) : u[p] = s[p]
      /\ \A k \in 1 .. Len(t) : u[Len(s) + k] = t[k]
  <2> HIDE DEF t
  <2>1. QED
    BY <1>1, <1>2, ConcatProperties
<1> HIDE DEF t, u
<1>7. \A p \in 1 .. Len(u) : p \in 1 .. Len(s) \/ \E k \in 1 .. Len(t) : p = Len(s) + k
  <2>1. SUFFICES ASSUME NEW p \in 1 .. Len(u), p \notin 1 .. Len(s)
                 PROVE  \E k \in 1 .. Len(t) : p = Len(s) + k
    OBVIOUS
  <2>2. p - Len(s) \in 1 .. Len(t) /\ p = Len(s) + (p - Len(s))
    BY <1>1, <1>2, <1>6, <2>1
  <2>3. QED
    BY <2>2
<1>8. /\ \A p \in 1 .. Len(s) : p \in 1 .. Len(u)
      /\ \A k \in 1 .. Len(t) : Len(s) + k \in 1 .. Len(u)
  BY <1>1, <1>2, <1>6
<1>9. \A k \in 1 .. Len(t) :
        /\ HasCall(h, n, k) /\ t[k] = Shown(h, n, k) /\ k \in Nat
        /\ t[k].id = h[n].calls[k]
  <2>1. SUFFICES ASSUME NEW k \in 1 .. Len(t)
                 PROVE  /\ HasCall(h, n, k) /\ t[k] = Shown(h, n, k) /\ k \in Nat
                        /\ t[k].id = h[n].calls[k]
    OBVIOUS
  <2>2. h[n].role = "assistant"
    BY <1>2, <1>4
  <2>3. k \in 1 .. Len(h[n].calls) /\ t[k] = Shown(h, n, k)
    BY <1>5, <2>2
  <2>4. HasCall(h, n, k)
    BY <1>1, <1>3, <2>2, <2>3 DEF HasCall
  <2>5. Shown(h, n, k).id = h[n].calls[k]
    BY DEF Shown, ReplayedCall
  <2>6. QED
    BY <1>2, <2>3, <2>4, <2>5
<1>10. \A i \in 1 .. n : i = n \/ i \in 1 .. n - 1
  BY <1>1
<1>11. ASSUME NEW p \in 1 .. Len(u)
       PROVE  \E i \in 1 .. n, k \in Nat : HasCall(h, i, k) /\ u[p] = Shown(h, i, k)
  <2>1. CASE p \in 1 .. Len(s)
    <3>1. PICK i \in 1 .. n - 1, k \in Nat : HasCall(h, i, k) /\ s[p] = Shown(h, i, k)
      BY <2>1 DEF Covers
    <3>2. i \in 1 .. n
      BY <1>1
    <3>3. QED
      BY <1>6, <2>1, <3>1, <3>2
  <2>2. CASE \E k \in 1 .. Len(t) : p = Len(s) + k
    <3>1. PICK k \in 1 .. Len(t) : p = Len(s) + k
      BY <2>2
    <3>2. n \in 1 .. n
      BY <1>1
    <3>3. QED
      BY <1>6, <1>9, <3>1, <3>2
  <2>3. QED
    BY <1>7, <2>1, <2>2
<1>12. ASSUME NEW i \in 1 .. n, NEW k \in Nat, HasCall(h, i, k)
       PROVE  \E p \in 1 .. Len(u) : u[p] = Shown(h, i, k)
  <2>1. CASE i = n
    <3>1. k \in 1 .. Len(t)
      BY <1>3, <1>5, <1>12, <2>1 DEF HasCall
    <3>2. u[Len(s) + k] = Shown(h, i, k)
      BY <1>6, <1>9, <2>1, <3>1
    <3>3. QED
      BY <1>8, <3>1, <3>2
  <2>2. CASE i \in 1 .. n - 1
    <3>1. PICK p \in 1 .. Len(s) : s[p] = Shown(h, i, k)
      BY <1>12, <2>2 DEF Covers
    <3>2. QED
      BY <1>6, <1>8, <3>1
  <2>3. QED
    BY <1>10, <2>1, <2>2
<1>13. ASSUME NEW p \in 1 .. Len(u), NEW q \in 1 .. Len(u), p < q
       PROVE  Before(u[p].id, u[q].id)
  <2>1. CASE p \in 1 .. Len(s) /\ q \in 1 .. Len(s)
    BY <1>6, <1>13, <2>1 DEF Covers
  <2>2. CASE p \in 1 .. Len(s) /\ \E k \in 1 .. Len(t) : q = Len(s) + k
    <3>1. PICK k \in 1 .. Len(t) : q = Len(s) + k
      BY <2>2
    <3>2. PICK i \in 1 .. n - 1, l \in Nat : HasCall(h, i, l) /\ s[p] = Shown(h, i, l)
      BY <2>2 DEF Covers
    <3>3. u[q].id = h[n].calls[k] /\ HasCall(h, n, k)
      BY <1>6, <1>9, <3>1
    <3>4. u[p].id = h[i].calls[l]
      <4>1. Shown(h, i, l).id = h[i].calls[l]
        BY DEF Shown, ReplayedCall
      <4>2. QED
        BY <1>6, <2>2, <3>2, <4>1
    <3>5. i < n
      BY <1>1
    <3>6. h[i].calls[l][1] < h[n].calls[k][1]
      BY <3>2, <3>3, <3>5 DEF HasCall, Numbered
    <3>7. QED
      BY <3>3, <3>4, <3>6 DEF Before
  <2>3. CASE /\ \E k \in 1 .. Len(t) : p = Len(s) + k
             /\ \E l \in 1 .. Len(t) : q = Len(s) + l
    <3>1. PICK k \in 1 .. Len(t), l \in 1 .. Len(t) : p = Len(s) + k /\ q = Len(s) + l
      BY <2>3
    <3>2. k < l
      BY <1>1, <1>2, <1>13, <3>1
    <3>3. u[p].id = h[n].calls[k] /\ u[q].id = h[n].calls[l]
          /\ HasCall(h, n, k) /\ HasCall(h, n, l)
      BY <1>6, <1>9, <3>1
    <3>4. /\ h[n].calls[k][2] = k /\ h[n].calls[l][2] = l
          /\ h[n].calls[k][1] = h[n].calls[l][1]
      BY <3>3 DEF HasCall, Numbered
    <3>5. QED
      BY <3>2, <3>3, <3>4 DEF Before
  <2>4. ~ (q \in 1 .. Len(s) /\ \E k \in 1 .. Len(t) : p = Len(s) + k)
    BY <1>1, <1>2, <1>13
  <2>5. QED
    BY <1>7, <2>1, <2>2, <2>3, <2>4
<1>14. Covers(h, n, u)
  BY <1>11, <1>12, <1>13 DEF Covers
<1>15. QED
  BY <1>14 DEF u, t

(* Message after message, a replay covers the whole conversation.          *)
LEMMA ReplayCovers ==
  ASSUME NEW h \in Seq(Message), Numbered(h)
  PROVE  Covers(h, Len(h), Replay(h)) /\ Replay(h) \in Seq(CallsOf(h))
<1> DEFINE N == Len(h)
           X == CallsOf(h)
           r == Replayed(h)
           part == [i \in 1 .. N |-> ReplayedMessage(h, i)]
           T == {n \in 0 .. N : Covers(h, n, r[n])}
<1>1. N \in Nat
  OBVIOUS
<1>2. Joined(r, part, N, X) /\ Replay(h) = r[N]
  BY ReplayJoins
<1>3. \A i \in 1 .. N : part[i] = ReplayedMessage(h, i)
  OBVIOUS
<1>4. /\ r \in [0 .. N -> Seq(X)]
      /\ r[0] = <<>>
      /\ \A n \in 1 .. N : r[n] = r[n - 1] \o ReplayedMessage(h, n)
  <2> HIDE DEF r, part, N, X
  <2>1. r \in [0 .. N -> Seq(X)] /\ r[0] = <<>>
    BY <1>2 DEF Joined
  <2>2. \A n \in 1 .. N : r[n] = r[n - 1] \o part[n]
    BY <1>2 DEF Joined
  <2>3. QED
    BY <1>3, <2>1, <2>2, Zenon
<1> HIDE DEF r, part, X
<1>5. 0 \in T
  <2>1. Len(<<>>) = 0 /\ 1 .. 0 = {}
    OBVIOUS
  <2>2. Covers(h, 0, <<>>)
    BY <2>1 DEF Covers
  <2>3. QED
    BY <1>1, <1>4, <2>2
<1>6. ASSUME NEW n \in 1 .. N, n - 1 \in T PROVE n \in T
  <2>1. Covers(h, n - 1, r[n - 1]) /\ r[n - 1] \in Seq(X) /\ n \in 0 .. N
    <3>1. n - 1 \in 0 .. N /\ n \in 0 .. N
      BY <1>1
    <3>2. Covers(h, n - 1, r[n - 1])
      BY <1>6
    <3>3. QED
      BY <1>4, <3>1, <3>2
  <2>2. Covers(h, n, r[n - 1] \o ReplayedMessage(h, n))
    BY <2>1, NextMessage DEF X
  <2>3. QED
    BY <1>4, <2>1, <2>2
<1>7. \A n \in 0 .. N : n \in T
  <2> HIDE DEF T, N
  <2>1. QED
    BY <1>1, <1>5, <1>6, InductionTo
<1>8. Covers(h, N, r[N]) /\ r[N] \in Seq(X)
  BY <1>1, <1>4, <1>7
<1>9. QED
  BY <1>2, <1>8 DEF X

OutcomeInv == NumberInv /\ ResultInv /\ ToldInv

(* At first no call has been asked for, and none told of.                  *)
LEMMA OutcomeInit == Init => OutcomeInv
<1> SUFFICES ASSUME Init PROVE OutcomeInv
  OBVIOUS
<1>1. /\ DOMAIN messages = {1} /\ messages[1].role = "user" /\ ~ messages[1].asked
      /\ \A id \in Id : told[id] = "unknown"
  BY DEF Init
<1>2. QED
  BY <1>1 DEF OutcomeInv, NumberInv, Numbered, RequestsMade, AskersInv, ResultInv,
     ToldInv

(* At the end of a turn, what a load shows is what the turn had told.      *)
LEMMA ShownAsTold ==
  ASSUME TypeInv, PairInv, OutcomeInv, CallInv
  PROVE  LoadShowsTheTurn
<1>1. SUFFICES ASSUME Finished, Replayable(Kept)
               PROVE  LET replay == Replay(Kept) IN
                 /\ \A k \in DOMAIN replay : replay[k].status = told[replay[k].id]
                 /\ {id \in Id : told[id] # "unknown"}
                      = {replay[k].id : k \in DOMAIN replay}
                 /\ \A k, l \in DOMAIN replay :
                      k < l => Before(replay[k].id, replay[l].id)
  BY DEF LoadShowsTheTurn
<1>2. messages \in Seq(Message) /\ told \in [Id -> Known]
  BY DEF TypeInv, TypeOK, Known
<1>3. Kept = messages
  BY <1>1, SubSeqFull DEF Kept, CallInv, SettledInv, Settled, TypeInv, TypeOK
<1> DEFINE N == Len(messages)
           r == Replay(messages)
<1>4. N \in Nat /\ DOMAIN messages = 1 .. N
  BY <1>2
<1>5. Covers(messages, N, r) /\ DOMAIN r = 1 .. Len(r)
  <2>1. Covers(messages, N, r) /\ r \in Seq(CallsOf(messages))
    BY <1>2, ReplayCovers DEF OutcomeInv, NumberInv
  <2> HIDE DEF r
  <2>2. QED
    BY <2>1
<1> HIDE DEF r, N
<1>6. ASSUME NEW i, NEW k, HasCall(messages, i, k)
      PROVE  LET id == messages[i].calls[k] IN
               /\ Shown(messages, i, k) = [id |-> id, status |-> told[id]]
               /\ id \in Id /\ told[id] \in {"completed", "failed"}
  <2>1. /\ i \in DOMAIN messages /\ messages[i].role = "assistant"
        /\ k \in DOMAIN messages[i].calls
    BY <1>6 DEF HasCall
  <2>2. Stored(messages, i, messages[i].calls[k]) # {}
    BY <1>1, <1>3, <2>1 DEF Replayable
  <2>3. QED
    BY <2>1, <2>2, ReplayedAsTold DEF OutcomeInv, Shown
<1>7. ASSUME NEW p \in DOMAIN r
      PROVE  /\ r[p].status = told[r[p].id]
             /\ r[p].id \in Id /\ told[r[p].id] # "unknown"
  <2>1. PICK i \in 1 .. N, k \in Nat :
          HasCall(messages, i, k) /\ r[p] = Shown(messages, i, k)
    BY <1>5 DEF Covers
  <2> DEFINE id == messages[i].calls[k]
  <2>2. r[p] = [id |-> id, status |-> told[id]] /\ id \in Id
        /\ told[id] \in {"completed", "failed"}
    BY <1>6, <2>1
  <2> HIDE DEF id
  <2>3. QED
    BY <2>2
<1>8. ASSUME NEW id \in Id, told[id] # "unknown"
      PROVE  \E p \in DOMAIN r : r[p].id = id
  <2>1. told[id] \in {"completed", "failed"}
    <3>1. pc = "done" /\ ~ Broken
      BY <1>1 DEF Finished, Broken, TypeInv, TypeOK
    <3>2. told[id] \notin {"pending", "in_progress"}
      BY <3>1 DEF CallInv, StatusInv, Working, Active, Stage
    <3>3. QED
      BY <1>2, <1>8, <3>2 DEF Known
  <2>2. PICK n \in DOMAIN messages :
          messages[n].role = "tool" /\ messages[n].calls = <<id>>
    BY <2>1 DEF OutcomeInv, ToldInv, Recorded
  <2>3. PICK j \in 1 .. n - 1, asker \in Id :
          AskerOf(j, n - j, asker) /\ messages[n].calls = <<asker>>
    BY <2>2, Askers DEF OutcomeInv
  <2>4. asker = id
    BY <2>2, <2>3
  <2>5. HasCall(messages, j, n - j) /\ messages[j].calls[n - j] = id
    BY <2>3, <2>4 DEF AskerOf, HasCall
  <2>6. j \in 1 .. N /\ n - j \in Nat
    BY <1>4, <2>3
  <2>7. PICK p \in 1 .. Len(r) : r[p] = Shown(messages, j, n - j)
    BY <1>5, <2>5, <2>6 DEF Covers
  <2>8. r[p].id = id
    BY <2>5, <2>7 DEF Shown, ReplayedCall
  <2>9. QED
    BY <1>5, <2>7, <2>8
<1>9. {id \in Id : told[id] # "unknown"} = {r[p].id : p \in DOMAIN r}
  BY <1>7, <1>8
<1>10. \A p, q \in DOMAIN r : p < q => Before(r[p].id, r[q].id)
  BY <1>5 DEF Covers
<1>11. QED
  BY <1>3, <1>7, <1>9, <1>10 DEF r

(* When what a turn left on disk can be loaded again, the load shows the   *)
(* calls the turn had shown, all of them, once and in order, each with the *)
(* outcome the turn reported (replay_session_history against               *)
(* report_tool_call and report_tool_result).                               *)
THEOREM LoadsShowTurns == Spec => []LoadShowsTheTurn
<1>1. ASSUME TypeInv, PairInv, [Next]_vars
      PROVE  PairInv'
  BY <1>1, BatchStep, OriginStep, SavedStep DEF PairInv
<1>2. ASSUME TypeInv, PairInv, OutcomeInv, [Next]_vars
      PROVE  OutcomeInv'
  BY <1>2, NumberStep, OutcomeStep DEF OutcomeInv
<1>3. QED
  BY <1>1, <1>2, ShownAsTold, TypeInit, TypeStep, PairInit, CallInit, CallStep,
     OutcomeInit, PTL DEF Spec
===========================================================================
