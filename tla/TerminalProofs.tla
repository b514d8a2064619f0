--------------------------- MODULE TerminalProofs ---------------------------
(***************************************************************************)
(* Proofs about Terminal, whatever requests the client may refuse: type    *)
(* correctness, the order of kill and release, and that success means the  *)
(* terminal is gone.                                                       *)
(*                                                                         *)
(* Two actors clean up, and the same requests are sent by both: the proofs *)
(* rest on the hand-over (HandOverInv), by which at most one of them holds *)
(* the terminal, and on what the client's answers say of it (ClientInv).   *)
(***************************************************************************)
EXTENDS Terminal, TLAPS

(* The task offers what the client created; the call has a terminal if and *)
(* only if it took it, and until then the task deals with it.              *)
HandOverInv ==
  /\ DOMAIN pc = Actor
  /\ pc["call"] \in {"wait", "output", "kill", "release"} => taken
  /\ pc["call"] = "creating" => ~ taken
  /\ pc["owner"] \in {"kill", "release"} => pc["call"] # "creating"
  /\ taken \/ pc["owner"] \in {"offered", "kill", "release"} =>
       answers["create"] = "ok"

(* Requests are sent before they are answered, a terminal is created and   *)
(* released once, and who releases has killed or seen the end.             *)
ClientInv ==
  /\ \A r \in Request : answers[r] # "none" => r \in sent
  /\ pc["call"] \in Request => pc["call"] \in sent
  /\ pc["owner"] \in Request => pc["owner"] \in sent
  /\ "release" \in sent \/ terminal # "none" => answers["create"] = "ok"
  /\ answers["release"] = "ok" => terminal = "released"
  /\ pc["call"] = "output" => answers["wait"] = "ok"

TerminalInv ==
  TypeOK /\ HandOverInv /\ ClientInv /\ KilledBeforeRelease /\ SuccessMeansReleased

USE DEF Request, Actor

---------------------------------------------------------------------------
(* A stage change of one actor leaves the other where it is, and sends the *)
(* request of the stage, if it is one.                                     *)
LEMMA CallGoes ==
  ASSUME DOMAIN pc = Actor, NEW stage, Go("call", stage)
  PROVE  /\ DOMAIN pc' = Actor
         /\ pc'["call"] = stage
         /\ pc'["owner"] = pc["owner"]
         /\ \A r : r \in sent' <=> r \in sent \/ (r = stage /\ r \in Request)
BY DEF Go

(* The same for the owner.                                                 *)
LEMMA OwnerGoes ==
  ASSUME DOMAIN pc = Actor, NEW stage, Go("owner", stage)
  PROVE  /\ DOMAIN pc' = Actor
         /\ pc'["owner"] = stage
         /\ pc'["call"] = pc["call"]
         /\ \A r : r \in sent' <=> r \in sent \/ (r = stage /\ r \in Request)
BY DEF Go

(* Every step keeps the invariant.                                         *)
LEMMA InvKept ==
  ASSUME TerminalInv, [Next]_vars
  PROVE  TerminalInv'
<1> USE DEF TerminalInv, TypeOK, HandOverInv, ClientInv, KilledBeforeRelease,
            SuccessMeansReleased
<1>1. CASE AbandonCreate
  <2>1. /\ DOMAIN pc' = Actor /\ pc'["call"] = "done" /\ pc'["owner"] = pc["owner"]
        /\ sent' = sent
    BY <1>1, CallGoes DEF AbandonCreate
  <2>2. TypeOK' /\ KilledBeforeRelease' /\ SuccessMeansReleased'
    BY <1>1, <2>1 DEF AbandonCreate, client, Returns
  <2>3. HandOverInv'
    BY <1>1, <2>1 DEF AbandonCreate, client, Returns
  <2>4. ClientInv'
    BY <1>1, <2>1 DEF AbandonCreate, client, Returns
  <2>5. QED
    BY <2>2, <2>3, <2>4
<1>2. CASE TakeTerminal
  <2>1. CASE pc["owner"] = "offered"
    <3>1. /\ DOMAIN pc' = Actor /\ pc'["call"] = "wait" /\ pc'["owner"] = pc["owner"]
          /\ sent' = sent \cup {"wait"}
      BY <1>2, <2>1, CallGoes DEF TakeTerminal
    <3>2. TypeOK' /\ KilledBeforeRelease' /\ SuccessMeansReleased'
      BY <1>2, <2>1, <3>1 DEF TakeTerminal, client, Returns
    <3>3. HandOverInv'
      BY <1>2, <2>1, <3>1 DEF TakeTerminal, client, Returns
    <3>4. ClientInv'
      BY <1>2, <2>1, <3>1 DEF TakeTerminal, client, Returns
    <3>5. QED
      BY <3>2, <3>3, <3>4
  <2>2. CASE pc["owner"] = "refused"
    <3>1. /\ DOMAIN pc' = Actor /\ pc'["call"] = "done" /\ pc'["owner"] = pc["owner"]
          /\ sent' = sent
      BY <1>2, <2>2, CallGoes DEF TakeTerminal
    <3>2. TypeOK' /\ KilledBeforeRelease' /\ SuccessMeansReleased'
      BY <1>2, <2>2, <3>1 DEF TakeTerminal, client, Returns
    <3>3. HandOverInv'
      BY <1>2, <2>2, <3>1 DEF TakeTerminal, client, Returns
    <3>4. ClientInv'
      BY <1>2, <2>2, <3>1 DEF TakeTerminal, client, Returns
    <3>5. QED
      BY <3>2, <3>3, <3>4
  <2>3. QED
    BY <1>2, <2>1, <2>2 DEF TakeTerminal
<1>3. CASE WaitEnds
  <2>1. CASE answers["wait"] = "ok"
    <3>1. /\ DOMAIN pc' = Actor /\ pc'["call"] = "output" /\ pc'["owner"] = pc["owner"]
          /\ sent' = sent \cup {"output"}
      BY <1>3, <2>1, CallGoes DEF WaitEnds
    <3>2. TypeOK' /\ KilledBeforeRelease' /\ SuccessMeansReleased'
      BY <1>3, <2>1, <3>1 DEF WaitEnds, client, Returns
    <3>3. HandOverInv'
      BY <1>3, <2>1, <3>1 DEF WaitEnds, client, Returns
    <3>4. ClientInv'
      BY <1>3, <2>1, <3>1 DEF WaitEnds, client, Returns
    <3>5. QED
      BY <3>2, <3>3, <3>4
  <2>2. CASE answers["wait"] = "error"
    <3>1. /\ DOMAIN pc' = Actor /\ pc'["call"] = "kill" /\ pc'["owner"] = pc["owner"]
          /\ sent' = sent \cup {"kill"}
      BY <1>3, <2>2, CallGoes DEF WaitEnds
    <3>2. TypeOK' /\ KilledBeforeRelease' /\ SuccessMeansReleased'
      BY <1>3, <2>2, <3>1 DEF WaitEnds, client, Returns
    <3>3. HandOverInv'
      BY <1>3, <2>2, <3>1 DEF WaitEnds, client, Returns
    <3>4. ClientInv'
      BY <1>3, <2>2, <3>1 DEF WaitEnds, client, Returns
    <3>5. QED
      BY <3>2, <3>3, <3>4
  <2>3. QED
    BY <1>3, <2>1, <2>2 DEF WaitEnds
<1>4. CASE OutputEnds
  <2>1. /\ DOMAIN pc' = Actor /\ pc'["call"] = "release" /\ pc'["owner"] = pc["owner"]
        /\ sent' = sent \cup {"release"}
    BY <1>4, CallGoes DEF OutputEnds
  <2>2. TypeOK' /\ KilledBeforeRelease' /\ SuccessMeansReleased'
    BY <1>4, <2>1 DEF OutputEnds, client, Returns
  <2>3. HandOverInv'
    BY <1>4, <2>1 DEF OutputEnds, client, Returns
  <2>4. ClientInv'
    BY <1>4, <2>1 DEF OutputEnds, client, Returns
  <2>5. QED
    BY <2>2, <2>3, <2>4
<1>5. CASE CancelRun
  <2>1. /\ DOMAIN pc' = Actor /\ pc'["call"] = "kill" /\ pc'["owner"] = pc["owner"]
        /\ sent' = sent \cup {"kill"}
    BY <1>5, CallGoes DEF CancelRun, KillFirst
  <2>2. TypeOK' /\ KilledBeforeRelease' /\ SuccessMeansReleased'
    BY <1>5, <2>1 DEF CancelRun, client, Returns, KillFirst
  <2>3. HandOverInv'
    BY <1>5, <2>1 DEF CancelRun, client, Returns, KillFirst
  <2>4. ClientInv'
    BY <1>5, <2>1 DEF CancelRun, client, Returns, KillFirst
  <2>5. QED
    BY <2>2, <2>3, <2>4
<1>6. CASE OwnerStarts
  <2>1. CASE Listening
    <3>1. /\ DOMAIN pc' = Actor /\ pc'["owner"] = "create" /\ pc'["call"] = pc["call"]
          /\ sent' = sent \cup {"create"}
      BY <1>6, <2>1, OwnerGoes DEF OwnerStarts
    <3>2. TypeOK' /\ KilledBeforeRelease' /\ SuccessMeansReleased'
      BY <1>6, <2>1, <3>1 DEF OwnerStarts, client, Listening
    <3>3. HandOverInv'
      BY <1>6, <2>1, <3>1 DEF OwnerStarts, client, Listening
    <3>4. ClientInv'
      BY <1>6, <2>1, <3>1 DEF OwnerStarts, client, Listening
    <3>5. QED
      BY <3>2, <3>3, <3>4
  <2>2. CASE ~ Listening
    <3>1. /\ DOMAIN pc' = Actor /\ pc'["owner"] = "done" /\ pc'["call"] = pc["call"]
          /\ sent' = sent
      BY <1>6, <2>2, OwnerGoes DEF OwnerStarts
    <3>2. TypeOK' /\ KilledBeforeRelease' /\ SuccessMeansReleased'
      BY <1>6, <2>2, <3>1 DEF OwnerStarts, client, Listening
    <3>3. HandOverInv'
      BY <1>6, <2>2, <3>1 DEF OwnerStarts, client, Listening
    <3>4. ClientInv'
      BY <1>6, <2>2, <3>1 DEF OwnerStarts, client, Listening
    <3>5. QED
      BY <3>2, <3>3, <3>4
  <2>3. QED
    BY <1>6, <2>1, <2>2 DEF OwnerStarts
<1>7. CASE OwnerReceives
  <2>1. CASE answers["create"] = "ok" /\ Listening
    <3>1. /\ DOMAIN pc' = Actor /\ pc'["owner"] = "offered" /\ pc'["call"] = pc["call"]
          /\ sent' = sent
      BY <1>7, <2>1, OwnerGoes DEF OwnerReceives, OfferOrKill
    <3>2. TypeOK' /\ KilledBeforeRelease' /\ SuccessMeansReleased'
      BY <1>7, <2>1, <3>1 DEF OwnerReceives, client, OfferOrKill, Listening
    <3>3. HandOverInv'
      BY <1>7, <2>1, <3>1 DEF OwnerReceives, client, OfferOrKill, Listening
    <3>4. ClientInv'
      BY <1>7, <2>1, <3>1 DEF OwnerReceives, client, OfferOrKill, Listening
    <3>5. QED
      BY <3>2, <3>3, <3>4
  <2>2. CASE answers["create"] = "ok" /\ ~ Listening
    <3>1. /\ DOMAIN pc' = Actor /\ pc'["owner"] = "kill" /\ pc'["call"] = pc["call"]
          /\ sent' = sent \cup {"kill"}
      BY <1>7, <2>2, OwnerGoes DEF OwnerReceives, OfferOrKill
    <3>2. TypeOK' /\ KilledBeforeRelease' /\ SuccessMeansReleased'
      BY <1>7, <2>2, <3>1 DEF OwnerReceives, client, OfferOrKill, Listening
    <3>3. HandOverInv'
      BY <1>7, <2>2, <3>1 DEF OwnerReceives, client, OfferOrKill, Listening
    <3>4. ClientInv'
      BY <1>7, <2>2, <3>1 DEF OwnerReceives, client, OfferOrKill, Listening
    <3>5. QED
      BY <3>2, <3>3, <3>4
  <2>3. CASE answers["create"] = "error"
    <3>1. /\ DOMAIN pc' = Actor /\ pc'["owner"] = "refused" /\ pc'["call"] = pc["call"]
          /\ sent' = sent
      BY <1>7, <2>3, OwnerGoes DEF OwnerReceives, OfferOrKill
    <3>2. TypeOK' /\ KilledBeforeRelease' /\ SuccessMeansReleased'
      BY <1>7, <2>3, <3>1 DEF OwnerReceives, client, OfferOrKill, Listening
    <3>3. HandOverInv'
      BY <1>7, <2>3, <3>1 DEF OwnerReceives, client, OfferOrKill, Listening
    <3>4. ClientInv'
      BY <1>7, <2>3, <3>1 DEF OwnerReceives, client, OfferOrKill, Listening
    <3>5. QED
      BY <3>2, <3>3, <3>4
  <2>4. QED
    BY <1>7, <2>1, <2>2, <2>3 DEF OwnerReceives, OfferOrKill
<1>8. CASE OwnerSettles
  <2>1. CASE Accepted
    <3>1. /\ DOMAIN pc' = Actor /\ pc'["owner"] = "done" /\ pc'["call"] = pc["call"]
          /\ sent' = sent
      BY <1>8, <2>1, OwnerGoes DEF OwnerSettles
    <3>2. TypeOK' /\ KilledBeforeRelease' /\ SuccessMeansReleased'
      BY <1>8, <2>1, <3>1 DEF OwnerSettles, client, Listening, Accepted
    <3>3. HandOverInv'
      BY <1>8, <2>1, <3>1 DEF OwnerSettles, client, Listening, Accepted
    <3>4. ClientInv'
      BY <1>8, <2>1, <3>1 DEF OwnerSettles, client, Listening, Accepted
    <3>5. QED
      BY <3>2, <3>3, <3>4
  <2>2. CASE ~ Accepted
    <3>1. /\ DOMAIN pc' = Actor /\ pc'["owner"] = "kill" /\ pc'["call"] = pc["call"]
          /\ sent' = sent \cup {"kill"}
      BY <1>8, <2>2, OwnerGoes DEF OwnerSettles
    <3>2. TypeOK' /\ KilledBeforeRelease' /\ SuccessMeansReleased'
      BY <1>8, <2>2, <3>1 DEF OwnerSettles, client, Listening, Accepted
    <3>3. HandOverInv'
      BY <1>8, <2>2, <3>1 DEF OwnerSettles, client, Listening, Accepted
    <3>4. ClientInv'
      BY <1>8, <2>2, <3>1 DEF OwnerSettles, client, Listening, Accepted
    <3>5. QED
      BY <3>2, <3>3, <3>4
  <2>3. QED
    BY <1>8, <2>1, <2>2 DEF OwnerSettles, Accepted
<1>9. ASSUME NEW who \in Actor, KillEnds(who)
      PROVE  TerminalInv'
  <2>1. CASE who = "call"
    <3>1. /\ DOMAIN pc' = Actor /\ pc'["call"] = "release" /\ pc'["owner"] = pc["owner"]
          /\ sent' = sent \cup {"release"}
      BY <1>9, <2>1, CallGoes DEF KillEnds
    <3>2. TypeOK' /\ KilledBeforeRelease' /\ SuccessMeansReleased'
      BY <1>9, <2>1, <3>1 DEF KillEnds, Ended, client
    <3>3. HandOverInv'
      BY <1>9, <2>1, <3>1 DEF KillEnds, Ended, client
    <3>4. ClientInv'
      BY <1>9, <2>1, <3>1 DEF KillEnds, Ended, client
    <3>5. QED
      BY <3>2, <3>3, <3>4
  <2>2. CASE who = "owner"
    <3>1. /\ DOMAIN pc' = Actor /\ pc'["owner"] = "release" /\ pc'["call"] = pc["call"]
          /\ sent' = sent \cup {"release"}
      BY <1>9, <2>2, OwnerGoes DEF KillEnds
    <3>2. TypeOK' /\ KilledBeforeRelease' /\ SuccessMeansReleased'
      BY <1>9, <2>2, <3>1 DEF KillEnds, Ended, client
    <3>3. HandOverInv'
      BY <1>9, <2>2, <3>1 DEF KillEnds, Ended, client
    <3>4. ClientInv'
      BY <1>9, <2>2, <3>1 DEF KillEnds, Ended, client
    <3>5. QED
      BY <3>2, <3>3, <3>4
  <2>3. QED
    BY <2>1, <2>2
<1>10. ASSUME NEW who \in Actor, ReleaseEnds(who)
      PROVE  TerminalInv'
  <2>1. CASE who = "call"
    <3>1. /\ DOMAIN pc' = Actor /\ pc'["call"] = "done" /\ pc'["owner"] = pc["owner"]
          /\ sent' = sent
      BY <1>10, <2>1, CallGoes DEF ReleaseEnds
    <3>2. TypeOK' /\ KilledBeforeRelease' /\ SuccessMeansReleased'
      BY <1>10, <2>1, <3>1 DEF ReleaseEnds, Ended, client, Returns, OutcomeOfRelease
    <3>3. HandOverInv'
      BY <1>10, <2>1, <3>1 DEF ReleaseEnds, Ended, client, Returns, OutcomeOfRelease
    <3>4. ClientInv'
      BY <1>10, <2>1, <3>1 DEF ReleaseEnds, Ended, client, Returns, OutcomeOfRelease
    <3>5. QED
      BY <3>2, <3>3, <3>4
  <2>2. CASE who = "owner"
    <3>1. /\ DOMAIN pc' = Actor /\ pc'["owner"] = "done" /\ pc'["call"] = pc["call"]
          /\ sent' = sent
      BY <1>10, <2>2, OwnerGoes DEF ReleaseEnds
    <3>2. TypeOK' /\ KilledBeforeRelease' /\ SuccessMeansReleased'
      BY <1>10, <2>2, <3>1 DEF ReleaseEnds, Ended, client, Returns, OutcomeOfRelease
    <3>3. HandOverInv'
      BY <1>10, <2>2, <3>1 DEF ReleaseEnds, Ended, client, Returns, OutcomeOfRelease
    <3>4. ClientInv'
      BY <1>10, <2>2, <3>1 DEF ReleaseEnds, Ended, client, Returns, OutcomeOfRelease
    <3>5. QED
      BY <3>2, <3>3, <3>4
  <2>3. QED
    BY <2>1, <2>2
<1>11. ASSUME NEW r \in Request, ClientAnswers(r)
      PROVE  TerminalInv'
  <2>1. TypeOK' /\ KilledBeforeRelease' /\ SuccessMeansReleased'
    BY <1>11 DEF ClientAnswers
  <2>2. HandOverInv'
    BY <1>11 DEF ClientAnswers
  <2>3. ClientInv'
    BY <1>11 DEF ClientAnswers
  <2>4. QED
    BY <2>1, <2>2, <2>3
<1>12. CASE CommandExits
  BY <1>12 DEF CommandExits
<1>13. CASE Cancel
  BY <1>13 DEF Cancel, client
<1>14. CASE UNCHANGED vars
  BY <1>14 DEF vars
<1> HIDE DEF TerminalInv, Actor, Request
<1>15. CASE \E who \in Actor : KillEnds(who) \/ ReleaseEnds(who)
  BY <1>9, <1>10, <1>15
<1>16. CASE \E r \in Request : ClientAnswers(r)
  BY <1>11, <1>16
<1>17. CASE Adapter
  BY <1>1, <1>2, <1>3, <1>4, <1>5, <1>6, <1>7, <1>8, <1>15, <1>17 DEF Adapter
<1>18. QED
  BY <1>12, <1>13, <1>14, <1>16, <1>17 DEF Next

(* TerminalInv is an inductive invariant of the call.                      *)
THEOREM TerminalInvariant == Spec => []TerminalInv
<1>1. Init => TerminalInv
  <2> SUFFICES ASSUME Init PROVE TerminalInv
    OBVIOUS
  <2>1. DOMAIN pc = Actor /\ pc["call"] = "creating" /\ pc["owner"] = "spawned"
    BY DEF Init
  <2>2. /\ answers \in [Request -> {"none", "ok", "error"}]
        /\ \A r \in Request : answers[r] = "none"
    BY DEF Init
  <2>3. TypeOK /\ KilledBeforeRelease /\ SuccessMeansReleased
    BY <2>1, <2>2 DEF Init, TypeOK, KilledBeforeRelease, SuccessMeansReleased
  <2>4. HandOverInv
    BY <2>1 DEF Init, HandOverInv
  <2>5. ClientInv
    BY <2>1, <2>2 DEF Init, ClientInv
  <2>6. QED
    BY <2>3, <2>4, <2>5 DEF TerminalInv
<1>2. TerminalInv /\ [Next]_vars => TerminalInv'
  BY InvKept
<1>3. QED
  BY <1>1, <1>2, PTL DEF Spec

(* Every variable of a call stays within its type.                         *)
THEOREM TerminalTypes == Spec => []TypeOK
BY TerminalInvariant, PTL DEF TerminalInv

(* A command that may still run is killed before its terminal is released  *)
(* (cleanup_terminal).                                                     *)
THEOREM TerminalKilledBeforeRelease == Spec => []KilledBeforeRelease
BY TerminalInvariant, PTL DEF TerminalInv

(* Success is reported only of a terminal that is gone.                    *)
THEOREM TerminalSuccessMeansReleased == Spec => []SuccessMeansReleased
BY TerminalInvariant, PTL DEF TerminalInv

(* A release is the last request about a terminal, although two actors may *)
(* send one (create_terminal).                                             *)
THEOREM TerminalReleaseIsLast == Spec => ReleaseIsLast
<1> DEFINE Last == \A who \in Actor : pc[who] = "release"
             => sent' = sent /\ \A other \in Actor \ {who} : pc'[other] \notin Request
<1>1. ASSUME TerminalInv, [Next]_vars
      PROVE  [Last]_vars
  <2> SUFFICES ASSUME NEW who \in Actor, pc[who] = "release", Next
               PROVE  sent' = sent /\ \A other \in Actor \ {who} : pc'[other] \notin Request
    BY <1>1
  <2> USE <1>1 DEF TerminalInv, TypeOK, HandOverInv
  <2>1. CASE who = "call"
    <3>1. taken /\ pc["owner"] \in {"offered", "done"}
      BY <2>1
    <3>2. CASE OwnerSettles
      <4>1. Go("owner", "done")
        BY <3>1, <3>2 DEF OwnerSettles, Accepted
      <4>2. QED
        BY <4>1, <2>1, OwnerGoes
    <3>3. CASE ReleaseEnds("call")
      <4>1. Go("call", "done")
        BY <3>3 DEF ReleaseEnds
      <4>2. QED
        BY <4>1, <2>1, <3>1, CallGoes
    <3>4. CASE UNCHANGED <<pc, sent>>
      BY <3>4, <3>1, <2>1
    <3>5. QED
      BY <2>1, <3>1, <3>2, <3>3, <3>4
      DEF Next, Adapter, AbandonCreate, TakeTerminal, WaitEnds, OutputEnds, CancelRun,
          OwnerStarts, OwnerReceives, KillEnds, ReleaseEnds, ClientAnswers,
          CommandExits, Cancel
  <2>2. CASE who = "owner"
    <3>1. pc["call"] = "done"
      BY <2>2
    <3>2. CASE ReleaseEnds("owner")
      <4>1. Go("owner", "done")
        BY <3>2 DEF ReleaseEnds
      <4>2. QED
        BY <4>1, <2>2, <3>1, OwnerGoes
    <3>3. CASE UNCHANGED <<pc, sent>>
      BY <3>3, <3>1, <2>2
    <3>4. QED
      BY <2>2, <3>1, <3>2, <3>3
      DEF Next, Adapter, AbandonCreate, TakeTerminal, WaitEnds, OutputEnds, CancelRun,
          OwnerStarts, OwnerReceives, OwnerSettles, KillEnds, ReleaseEnds,
          ClientAnswers, CommandExits, Cancel
  <2>3. QED
    BY <2>1, <2>2
<1>2. QED
  BY <1>1, TerminalInvariant, PTL DEF Spec, ReleaseIsLast
=============================================================================
