------------------------- MODULE CrashRecoveryProofs -------------------------
(***************************************************************************)
(* Proofs about the resume of a worker's items, for any number of items,   *)
(* steps, artifacts, commits and faults.                                   *)
(***************************************************************************)
EXTENDS CrashRecovery, TLAPS

Status == {"PENDING", "DISPATCHED", "RUNNING", "COMPLETED", "FAILED", "AMBIGUOUS", "CANCELLED"}
TicketState == {"none", "BLOCKED", "APPROVED", "REJECTED", "EXPIRED", "CONSUMED"}
Checkpoint == [item : Item, idx : Nat, done : SUBSET Step, commit : Nat]

\* A resume that has sent a step knows which of its item it was.
Sent == At("wait") \/ At("checkpoint") => call.now \in Unit /\ call.now[1] = call.item

RecoveryTypeOK ==
  /\ row \in [Item -> [status : Status, marker : SUBSET Step]]
  /\ cps \in Seq(Checkpoint)
  /\ head \in Nat
  /\ file \in [Path -> FileState]
  /\ ticket \in [Unit -> TicketState]
  /\ proc \in {"none", "attached", "orphan"}
  /\ work \in Unit \cup {NoWork}
  /\ answer \in {"none", "COMPLETED", "FAILED"}
  /\ call \in CallRecord \cup {NoCall}
  /\ ran \subseteq Unit
  /\ owed \subseteq Unit
  /\ licensed \subseteq Unit
  /\ lost \subseteq Item
  /\ Sent

-----------------------------------------------------------------------------
(* Types.                                                                  *)

LEMMA CallFields ==
  ASSUME NEW c \in CallRecord
  PROVE  /\ c.item \in Item /\ c.at \in Phase /\ c.done \subseteq Step
         /\ c.now \in Unit \cup {NoWork} /\ c.idx \in Nat /\ c.commit \in Nat
         /\ c # NoCall
BY RecoveryAssumption DEF CallRecord

LEMMA CheckpointFields ==
  ASSUME RecoveryTypeOK, NEW n \in DOMAIN cps
  PROVE  cps[n] \in Checkpoint /\ cps[n].item \in Item /\ cps[n].idx \in Nat
<1>1. cps[n] \in Checkpoint
  BY DEF RecoveryTypeOK
<1> QED
  BY <1>1 DEF Checkpoint

\* A unit is an item with one of its steps.
LEMMA UnitParts ==
  ASSUME NEW u \in Unit
  PROVE  /\ u[1] \in Item /\ u[2] \in Step /\ u[2] \in StepOf(u[1])
         /\ u = <<u[1], u[2]>>
BY DEF Unit

LEMMA UnitIs ==
  ASSUME NEW i \in Item, NEW s \in StepOf(i)
  PROVE  <<i, s>> \in Unit /\ s \in Step
<1>1. StepsOf[i] \in Seq(Step)
  BY RecoveryAssumption
<1>2. s \in Step
  BY <1>1 DEF StepOf, ToSet
<1> QED
  BY <1>2 DEF Unit

\* The step that follows is one of the item, and not done.
LEMMA UpcomingIs ==
  ASSUME call \in CallRecord, NEW u, Upcoming(u)
  PROVE  u \in Unit /\ u[1] = call.item /\ u[2] \notin call.done
<1>1. PICK n \in Remaining : u = UnitAt(n)
  BY DEF Upcoming
<1>2. call.item \in Item
  BY CallFields
<1>3. StepsOf[call.item][n] \in StepOf(call.item)
  BY <1>1 DEF Remaining, StepOf, ToSet
<1> QED
  BY <1>1, <1>2, <1>3, UnitIs DEF Remaining, UnitAt

LEMMA TypeInit == Init => RecoveryTypeOK
<1> SUFFICES ASSUME Init PROVE RecoveryTypeOK
  OBVIOUS
<1>1. cps \in Seq(Checkpoint)
  BY DEF Init
<1> QED
  BY <1>1 DEF Init, RecoveryTypeOK, Sent, At, Status, TicketState, FileState

\* What an audit finds: the checkpoint it trusts, if any, what that leaves done,
\* and the three ways to go on.
LEMMA AuditCases ==
  ASSUME RecoveryTypeOK, AuditCheckpoint
  PROVE  \E done \in SUBSET Step, idx \in Nat, again \in BOOLEAN, valid \in BOOLEAN :
           /\ call \in CallRecord /\ call.item \in Item
           /\ valid => /\ call.item \notin Single
                       /\ \E n \in DOMAIN cps :
                            /\ Latest(n) /\ cps[n] \in Checkpoint /\ cps[n].item = call.item
                            /\ idx = cps[n].idx /\ done \subseteq cps[n].done
                            /\ ~again => done = Verified(cps[n], call.item)
           /\ ~valid => done = {} /\ idx = 0
           /\ \/ /\ StepOf(call.item) \subseteq done
                 /\ SetStatus(call.item, "COMPLETED") /\ call' = NoCall
              \/ SetStatus(call.item, "DISPATCHED") /\ call' = NoCall
              \/ /\ row[call.item].marker = {} \/ valid
                 /\ row' = row
                 /\ \E at \in {"step", "preflight"} :
                      call' = [call EXCEPT !.at = at, !.done = done, !.idx = idx,
                                           !.commit = head]
           /\ owed' = owed \cup
                (IF again THEN {<<call.item, s>> : s \in StepOf(call.item)} ELSE {})
<1> DEFINE i == call.item
           N == {n \in DOMAIN cps : Latest(n) /\ Binds(cps[n], i)}
           n0 == CHOOSE n \in N : TRUE
           valid == i \notin Single /\ N # {}
           kept == IF valid THEN Verified(cps[n0], i) ELSE {}
           again == StepOf(i) \subseteq kept /\ MissingEvidence(i)
           done == IF again THEN {} ELSE kept
           idx == IF valid THEN cps[n0].idx ELSE 0
<1>1. call \in CallRecord /\ i \in Item /\ call # NoCall
  BY CallFields DEF AuditCheckpoint, At, RecoveryTypeOK
<1>2. valid => n0 \in N
  OBVIOUS
<1>3. \A n \in N : cps[n] \in Checkpoint /\ cps[n].item = i
  BY DEF RecoveryTypeOK, Binds
<1>4. valid => cps[n0].done \subseteq Step /\ cps[n0].idx \in Nat
  BY <1>2, <1>3 DEF Checkpoint
<1>5. valid => kept \subseteq cps[n0].done
  BY DEF Verified
<1>6. done \in SUBSET Step /\ idx \in Nat
  BY <1>4, <1>5
<1>7. valid => \E n \in DOMAIN cps :
                 /\ Latest(n) /\ cps[n] \in Checkpoint /\ cps[n].item = i
                 /\ idx = cps[n].idx /\ done \subseteq cps[n].done
                 /\ ~again => done = Verified(cps[n], i)
  BY <1>2, <1>3, <1>5
<1>8. (~valid => done = {} /\ idx = 0) /\ (valid => i \notin Single)
  OBVIOUS
<1>9. owed' = owed \cup (IF again THEN {<<i, s>> : s \in StepOf(i)} ELSE {})
  BY DEF AuditCheckpoint, Owe
<1>10. \/ StepOf(i) \subseteq done /\ SetStatus(i, "COMPLETED") /\ call' = NoCall
       \/ SetStatus(i, "DISPATCHED") /\ call' = NoCall
       \/ /\ row[i].marker = {} \/ valid
          /\ row' = row
          /\ \E at \in {"step", "preflight"} :
               call' = [call EXCEPT !.at = at, !.done = done, !.idx = idx, !.commit = head]
  BY DEF AuditCheckpoint, Ambiguous, Return
<1> HIDE DEF done, idx, again, valid
<1>11. again \in BOOLEAN /\ valid \in BOOLEAN
  BY DEF again, valid
<1> USE <1>6, <1>11
<1> WITNESS done \in SUBSET Step, idx \in Nat, again \in BOOLEAN, valid \in BOOLEAN
<1> QED
  BY <1>1, <1>6, <1>7, <1>8, <1>9, <1>10, <1>11

\* What a preflight does to the approvals, the row and the resume.
LEMMA PreflightCases ==
  ASSUME RecoveryTypeOK, Preflight
  PROVE  /\ call \in CallRecord /\ call.item \in Item /\ call.at = "preflight"
         /\ ticket' \in [Unit -> TicketState]
         /\ \A u \in Unit : ticket'[u] \in {ticket[u], "BLOCKED"}
         /\ \/ SetStatus(call.item, "RUNNING") /\ call' = [call EXCEPT !.at = "step"]
            \/ SetStatus(call.item, "DISPATCHED") /\ call' = NoCall
<1>1. call \in CallRecord /\ call.item \in Item /\ call.at = "preflight"
  BY CallFields DEF Preflight, At, RecoveryTypeOK
<1>2. /\ ticket' \in [Unit -> TicketState]
      /\ \A u \in Unit : ticket'[u] \in {ticket[u], "BLOCKED"}
  BY DEF Preflight, RecoveryTypeOK, TicketState
<1>3. \/ SetStatus(call.item, "RUNNING") /\ call' = [call EXCEPT !.at = "step"]
      \/ SetStatus(call.item, "DISPATCHED") /\ call' = NoCall
  BY DEF Preflight, Return
<1> QED
  BY <1>1, <1>2, <1>3

LEMMA StatusKeepsType ==
  ASSUME RecoveryTypeOK, NEW i \in Item, NEW s \in Status, SetStatus(i, s)
  PROVE  /\ row' \in [Item -> [status : Status, marker : SUBSET Step]]
         /\ row'[i].status = s
         /\ \A j \in Item : row'[j].marker = row[j].marker /\ (j # i => row'[j] = row[j])
BY DEF RecoveryTypeOK, SetStatus

LEMMA TypeNext == RecoveryTypeOK /\ [Next]_vars => RecoveryTypeOK'
<1> SUFFICES ASSUME RecoveryTypeOK, [Next]_vars PROVE RecoveryTypeOK'
  OBVIOUS
<1> USE DEF RecoveryTypeOK
<1>c. call # NoCall => call \in CallRecord /\ call.item \in Item
  BY CallFields
<1>s. {"PENDING", "DISPATCHED", "RUNNING", "COMPLETED", "FAILED", "AMBIGUOUS"} \subseteq Status
  BY DEF Status
<1>o. Undecided \subseteq Unit
  BY DEF Undecided, Sent
<1>n. call' = NoCall => Sent'
  BY DEF Sent, At
<1>k. UNCHANGED call => Sent'
  BY DEF Sent, At
<1>1. ASSUME NEW i \in Item, MarkTaskResuming(i) PROVE RecoveryTypeOK'
  <2>1. call' \in CallRecord /\ Sent'
    BY <1>1 DEF MarkTaskResuming, CallRecord, Phase, Sent, At
  <2> QED
    BY <1>1, <1>s, <2>1, StatusKeepsType DEF MarkTaskResuming, worldVars, workerVars, auxVars
<1>2. CASE WorkerReady
  <2>1. call' \in CallRecord /\ Sent'
    BY <1>2, <1>c DEF WorkerReady, At, CallRecord, Phase, Sent
  <2> QED
    BY <1>2, <2>1 DEF WorkerReady, worldVars, workerVars, auxVars
<1>3. CASE WorkerNotSafe
  BY <1>3, <1>c, <1>n, <1>s, StatusKeepsType
  DEF WorkerNotSafe, At, Return, worldVars, workerVars, auxVars
<1>4. CASE AuditCheckpoint
  <2>1. PICK done \in SUBSET Step, idx \in Nat, again \in BOOLEAN, valid \in BOOLEAN :
          /\ call \in CallRecord /\ call.item \in Item
          /\ \/ SetStatus(call.item, "COMPLETED") /\ call' = NoCall
             \/ SetStatus(call.item, "DISPATCHED") /\ call' = NoCall
             \/ /\ row' = row
                /\ \E at \in {"step", "preflight"} :
                     call' = [call EXCEPT !.at = at, !.done = done, !.idx = idx,
                                          !.commit = head]
          /\ owed' = owed \cup
               (IF again THEN {<<call.item, s>> : s \in StepOf(call.item)} ELSE {})
    BY <1>4, AuditCases
  <2>2. owed' \subseteq Unit
    BY <2>1, UnitIs
  <2>3. call' \in CallRecord \cup {NoCall} /\ Sent'
    BY <2>1, <1>n DEF CallRecord, Phase, Sent, At
  <2>4. row' \in [Item -> [status : Status, marker : SUBSET Step]]
    BY <2>1, <1>s, StatusKeepsType
  <2> QED
    BY <1>4, <2>2, <2>3, <2>4 DEF AuditCheckpoint, worldVars, workerVars
<1>5. CASE Preflight
  <2>1. call' \in CallRecord \cup {NoCall} /\ Sent'
    BY <1>5, <1>n, PreflightCases DEF CallRecord, Phase, Sent, At
  <2>2. row' \in [Item -> [status : Status, marker : SUBSET Step]]
    BY <1>5, PreflightCases, <1>s, StatusKeepsType
  <2>3. ticket' \in [Unit -> TicketState]
    BY <1>5, PreflightCases
  <2> QED
    BY <1>5, <2>1, <2>2, <2>3 DEF Preflight, worldVars, workerVars, auxVars
<1>6. CASE NoAuthority
  BY <1>6, <1>c, <1>n, <1>s, StatusKeepsType
  DEF NoAuthority, At, Return, worldVars, workerVars, auxVars
<1>7. ASSUME NEW u \in Unit, DispatchStep(u) PROVE RecoveryTypeOK'
  <2>1. call \in CallRecord /\ u[1] = call.item
    BY <1>7, <1>c, UpcomingIs DEF DispatchStep, At
  <2>2. call' \in CallRecord /\ Sent'
    BY <1>7, <2>1 DEF DispatchStep, At, CallRecord, Phase, Sent
  <2>3. ticket' \in [Unit -> TicketState]
    BY <1>7 DEF DispatchStep, TicketIssued, TicketState
  <2> QED
    BY <1>7, <2>2, <2>3 DEF DispatchStep, worldVars, auxVars
<1>8. CASE StepCompleted \/ SingleCompleted
  <2>1. call \in CallRecord /\ call.item \in Item /\ call.now \in Unit
    BY <1>8, <1>c DEF TakeCompleted, StepCompleted, SingleCompleted, Sent, At
  <2>2. call.now[2] \in Step
    BY <2>1, UnitParts
  <2>3. CASE call.item \in Single
    BY <1>8, <2>1, <2>3, <1>n, <1>s, StatusKeepsType
    DEF TakeCompleted, StepCompleted, SingleCompleted, Return, worldVars, auxVars
  <2>4. CASE call.item \notin Single
    <3>0. call' = [call EXCEPT !.at = "checkpoint", !.done = call.done \cup {call.now[2]}]
      BY <1>8, <2>4 DEF TakeCompleted, StepCompleted, SingleCompleted
    <3>a. call' \in CallRecord
      BY <3>0, <2>1, <2>2 DEF CallRecord, Phase
    <3>b. call'.now = call.now /\ call'.item = call.item
      BY <3>0, <2>1 DEF CallRecord
    <3>1. call' \in CallRecord /\ Sent'
      BY <1>8, <2>1, <3>a, <3>b DEF TakeCompleted, StepCompleted, SingleCompleted, Sent, At
    <3>2. row' \in [Item -> [status : Status, marker : SUBSET Step]]
      BY <1>8, <2>1, <2>2, <2>4, CallFields DEF TakeCompleted, StepCompleted, SingleCompleted
    <3> QED
      BY <1>8, <3>1, <3>2 DEF TakeCompleted, StepCompleted, SingleCompleted, worldVars, auxVars
  <2> QED
    BY <2>3, <2>4
<1>9. CASE SaveCheckpoint
  <2> DEFINE cp == [item |-> call.item, idx |-> call.idx + 1, done |-> call.done,
                    commit |-> call.commit]
             same == {n \in DOMAIN cps : cps[n].item = call.item /\ cps[n].idx = cp.idx}
  <2>1. call \in CallRecord
    BY <1>9, <1>c DEF SaveCheckpoint, At
  <2>0. call' = [call EXCEPT !.at = "step", !.idx = call.idx + 1]
    BY <1>9 DEF SaveCheckpoint
  <2>i. call.idx + 1 \in Nat
    BY <2>1, CallFields
  <2>a. call' \in CallRecord /\ call'.at = "step"
    BY ONLY <2>0, <2>1, <2>i DEF CallRecord, Phase
  <2>2. call' \in CallRecord /\ Sent'
    BY <2>a DEF Sent, At
  <2>3. cp \in Checkpoint
    BY <2>1 DEF CallRecord, Checkpoint
  <2>4. cps' = IF same = {} THEN Append(cps, cp)
               ELSE [n \in DOMAIN cps |-> IF n \in same THEN cp ELSE cps[n]]
    BY <1>9 DEF SaveCheckpoint
  <2> HIDE DEF cp, same
  <2>5. cps' \in Seq(Checkpoint)
    BY <2>3, <2>4
  <2> QED
    BY <1>9, <2>2, <2>5 DEF SaveCheckpoint, worldVars, workerVars, auxVars
<1>10. CASE AllStepsDone
  BY <1>10, <1>c, <1>n, <1>s, StatusKeepsType
  DEF AllStepsDone, At, Return, worldVars, workerVars, auxVars
<1>11. CASE StepFails
  BY <1>11, <1>c, <1>n, <1>o, <1>s, StatusKeepsType
  DEF StepFails, At, Return, Owe, worldVars
<1>12. ASSUME NEW st \in {"COMPLETED", "FAILED"}, NEW f \in FileState, WorkerRuns(st, f)
       PROVE RecoveryTypeOK'
  <2>1. work \in Unit /\ PathOf[work] \in Path \cup {NoPath}
    BY <1>12, RecoveryAssumption DEF WorkerRuns
  <2>2. file' \in [Path -> FileState]
    BY <1>12, <2>1 DEF WorkerRuns
  <2>3. head' \in Nat
    BY <1>12 DEF WorkerRuns
  <2>4. ran' \subseteq Unit /\ owed' \subseteq Unit /\ licensed' \subseteq Unit
    BY <1>12, <2>1 DEF WorkerRuns, Declaring
  <2> QED
    BY <1>12, <1>k, <2>2, <2>3, <2>4 DEF WorkerRuns
<1>13. CASE CallLost
  BY <1>13, <1>c, <1>n, <1>o DEF CallLost, Return, Owe, worldVars, workerVars
<1>14. CASE SupervisorDies
  BY <1>14, <1>c, <1>n, <1>o DEF SupervisorDies, Return, Owe, worldVars, TicketState
<1>15. CASE WorkerExits
  BY <1>15, <1>k DEF WorkerExits, worldVars, auxVars
<1>16. CASE HeadMoves
  BY <1>16, <1>k DEF HeadMoves, workerVars, auxVars
<1>17. ASSUME NEW p \in Path, ArtifactLost(p) PROVE RecoveryTypeOK'
  BY <1>17, <1>k DEF ArtifactLost, Owe, Declaring, FileState, workerVars
<1>18. ASSUME NEW u \in Command, NEW st \in {"APPROVED", "REJECTED", "EXPIRED"}, Decide(u, st)
       PROVE RecoveryTypeOK'
  BY <1>18, <1>k, RecoveryAssumption DEF Decide, TicketState, worldVars, workerVars
<1>19. CASE ReapLateResult
  BY <1>19, <1>k DEF ReapLateResult, worldVars, auxVars
<1>20. ASSUME NEW b \in BOOLEAN, ReconcileTeamAfterCrash(b) PROVE RecoveryTypeOK'
  BY <1>20, <1>k, <1>s DEF ReconcileTeamAfterCrash, worldVars
<1>21. ASSUME NEW i \in Item, NEW st \in {"PENDING", "COMPLETED", "FAILED"},
              ReconcileAmbiguousTask(i, st)
       PROVE RecoveryTypeOK'
  BY <1>21, <1>k, <1>s, StatusKeepsType DEF ReconcileAmbiguousTask, worldVars, workerVars
<1>22. CASE UNCHANGED vars
  BY <1>22, <1>k DEF vars, worldVars, workerVars, auxVars
<1> QED
  BY <1>1, <1>2, <1>3, <1>4, <1>5, <1>6, <1>7, <1>8, <1>9, <1>10, <1>11, <1>12, <1>13,
     <1>14, <1>15, <1>16, <1>17, <1>18, <1>19, <1>20, <1>21, <1>22 DEF Next, ResumeStep

-----------------------------------------------------------------------------
(***************************************************************************)
(* The claim.  ClaimsAreReleased needs to know that the item of a resume   *)
(* under way is RUNNING: nobody else changes its row meanwhile.            *)
(***************************************************************************)
ClaimInv ==
  /\ ClaimsAreReleased
  /\ call # NoCall => row[call.item].status = "RUNNING"

\* Steps that touch neither rows, nor the resume, nor the list of lost ones.
LEMMA ClaimFrame == ClaimInv /\ UNCHANGED <<row, call, lost>> => ClaimInv'
BY DEF ClaimInv, ClaimsAreReleased

\* A resume that gives the claim back and returns.
LEMMA ClaimReturned ==
  ASSUME RecoveryTypeOK, ClaimInv, call # NoCall,
         NEW st \in Status \ {"RUNNING"}, SetStatus(call.item, st),
         call' = NoCall, lost' = lost
  PROVE  ClaimInv'
<1>1. call.item \in Item
  BY CallFields DEF RecoveryTypeOK
<1> QED
  BY <1>1, StatusKeepsType DEF ClaimInv, ClaimsAreReleased

LEMMA ClaimNext == RecoveryTypeOK /\ ClaimInv /\ [Next]_vars => ClaimInv'
<1> SUFFICES ASSUME RecoveryTypeOK, ClaimInv, [Next]_vars PROVE ClaimInv'
  OBVIOUS
<1>c. call # NoCall => call \in CallRecord /\ call.item \in Item
  BY CallFields DEF RecoveryTypeOK
<1>s. /\ {"DISPATCHED", "COMPLETED", "FAILED"} \subseteq Status \ {"RUNNING"}
      /\ {"RUNNING", "PENDING"} \subseteq Status
  BY DEF Status
<1>1. ASSUME NEW i \in Item, MarkTaskResuming(i) PROVE ClaimInv'
  <2>1. /\ row'[i].status = "RUNNING"
        /\ \A j \in Item : j # i => row'[j] = row[j]
    BY <1>1, <1>s, StatusKeepsType DEF MarkTaskResuming
  <2>2. call = NoCall /\ call'.item = i /\ lost' = lost
    BY <1>1 DEF MarkTaskResuming, auxVars
  <2>3. call' # NoCall
    BY <1>1, RecoveryAssumption DEF MarkTaskResuming, CallRecord, Phase
  <2> QED
    BY <2>1, <2>2, <2>3 DEF ClaimInv, ClaimsAreReleased
<1>2. CASE WorkerReady
  <2>1. call \in CallRecord /\ call # NoCall /\ row' = row /\ lost' = lost
    BY <1>2, <1>c DEF WorkerReady, At, auxVars
  <2>2. call' \in CallRecord /\ call'.item = call.item
    BY <1>2, <2>1 DEF WorkerReady, CallRecord, Phase
  <2> QED
    BY <2>1, <2>2, CallFields DEF ClaimInv, ClaimsAreReleased
<1>3. CASE WorkerNotSafe
  BY <1>3, <1>s, ClaimReturned DEF WorkerNotSafe, At, Return, auxVars
<1>4. CASE AuditCheckpoint
  <2>1. lost' = lost /\ call # NoCall
    BY <1>4 DEF AuditCheckpoint, At
  <2>2. PICK done \in SUBSET Step, idx \in Nat :
          /\ call \in CallRecord
          /\ \/ SetStatus(call.item, "COMPLETED") /\ call' = NoCall
             \/ SetStatus(call.item, "DISPATCHED") /\ call' = NoCall
             \/ /\ row' = row
                /\ \E at \in {"step", "preflight"} :
                     call' = [call EXCEPT !.at = at, !.done = done, !.idx = idx,
                                          !.commit = head]
    BY <1>4, AuditCases
  <2>3. CASE call' = NoCall
    <3>1. SetStatus(call.item, "COMPLETED") \/ SetStatus(call.item, "DISPATCHED")
      <4>1. ASSUME NEW at \in {"step", "preflight"},
                   call' = [call EXCEPT !.at = at, !.done = done, !.idx = idx, !.commit = head]
            PROVE  FALSE
        <5>1. head \in Nat
          BY DEF RecoveryTypeOK
        <5>2. call' \in CallRecord
          BY <2>2, <4>1, <5>1 DEF CallRecord, Phase
        <5> QED
          BY <2>3, <5>2, RecoveryAssumption
      <4> QED
        BY <2>2, <4>1
    <3> QED
      BY <2>1, <2>3, <3>1, <1>s, ClaimReturned
  <2>4. CASE call' # NoCall
    <3>1. row' = row /\ call'.item = call.item
      BY <2>2, <2>4 DEF CallRecord
    <3> QED
      BY <2>1, <2>4, <3>1 DEF ClaimInv, ClaimsAreReleased
  <2> QED
    BY <2>3, <2>4
<1>5. CASE Preflight
  <2>1. lost' = lost /\ call # NoCall
    BY <1>5 DEF Preflight, At, auxVars
  <2>2. CASE SetStatus(call.item, "RUNNING") /\ call' = [call EXCEPT !.at = "step"]
    <3>1. call \in CallRecord /\ call.item \in Item
      BY <2>1, <1>c
    <3>2. call'.item = call.item /\ call' # NoCall
      BY <2>2, <3>1, RecoveryAssumption DEF CallRecord, Phase
    <3> QED
      BY <2>1, <2>2, <3>1, <3>2, <1>s, StatusKeepsType DEF ClaimInv, ClaimsAreReleased
  <2>3. CASE SetStatus(call.item, "DISPATCHED") /\ call' = NoCall
    BY <2>1, <2>3, <1>s, ClaimReturned
  <2> QED
    BY <1>5, <2>2, <2>3, PreflightCases
<1>6. CASE NoAuthority
  BY <1>6, <1>s, ClaimReturned DEF NoAuthority, At, Return, auxVars
<1>7. ASSUME NEW u \in Unit, DispatchStep(u) PROVE ClaimInv'
  <2>1. call \in CallRecord /\ call # NoCall /\ row' = row /\ lost' = lost
    BY <1>7, <1>c DEF DispatchStep, At, auxVars
  <2>2. call' \in CallRecord /\ call'.item = call.item
    BY <1>7, <2>1 DEF DispatchStep, CallRecord, Phase
  <2> QED
    BY <2>1, <2>2, CallFields DEF ClaimInv, ClaimsAreReleased
<1>8. CASE StepCompleted \/ SingleCompleted
  <2>1. call \in CallRecord /\ call.item \in Item /\ call # NoCall /\ lost' = lost
    BY <1>8, <1>c DEF TakeCompleted, StepCompleted, SingleCompleted, At, auxVars
  <2>2. CASE call.item \in Single
    BY <1>8, <2>1, <2>2, <1>s, ClaimReturned DEF TakeCompleted, StepCompleted, SingleCompleted, Return
  <2>3. CASE call.item \notin Single
    <3>1. row' = [row EXCEPT ![call.item].marker = call.done \cup {call.now[2]}]
      BY <1>8, <2>3 DEF TakeCompleted, StepCompleted, SingleCompleted
    <3>2. \A j \in Item : row'[j].status = row[j].status
      BY <2>1, <3>1 DEF RecoveryTypeOK
    <3>3. call' = [call EXCEPT !.at = "checkpoint", !.done = call.done \cup {call.now[2]}]
      BY <1>8, <2>3 DEF TakeCompleted, StepCompleted, SingleCompleted
    <3>4. call'.item = call.item
      BY ONLY <2>1, <3>3 DEF CallRecord
    <3>5. call' # NoCall
      <4>1. call.now[2] \in Step
        BY <1>8, UnitParts DEF TakeCompleted, StepCompleted, SingleCompleted, RecoveryTypeOK, Sent
      <4>2. call' \in CallRecord
        BY ONLY <2>1, <3>3, <4>1 DEF CallRecord, Phase
      <4> QED
        BY <4>2, RecoveryAssumption
    <3> QED
      BY <2>1, <3>2, <3>4, <3>5 DEF ClaimInv, ClaimsAreReleased
  <2> QED
    BY <2>2, <2>3
<1>9. CASE SaveCheckpoint
  <2>1. call \in CallRecord /\ call # NoCall /\ row' = row /\ lost' = lost
    BY <1>9, <1>c DEF SaveCheckpoint, At, auxVars
  <2>2. call' = [call EXCEPT !.at = "step", !.idx = call.idx + 1] /\ call.idx + 1 \in Nat
    BY <1>9, <2>1, CallFields DEF SaveCheckpoint
  <2>3. call' \in CallRecord /\ call'.item = call.item
    BY ONLY <2>1, <2>2 DEF CallRecord, Phase
  <2> QED
    BY <2>1, <2>3, CallFields DEF ClaimInv, ClaimsAreReleased
<1>10. CASE AllStepsDone
  BY <1>10, <1>s, ClaimReturned DEF AllStepsDone, At, Return, auxVars
<1>11. CASE StepFails
  BY <1>11, <1>s, ClaimReturned DEF StepFails, At, Return
<1>12. ASSUME NEW st \in {"COMPLETED", "FAILED"}, NEW f \in FileState, WorkerRuns(st, f)
       PROVE ClaimInv'
  BY <1>12, ClaimFrame DEF WorkerRuns
<1>13. CASE CallLost
  BY <1>13 DEF CallLost, Return, ClaimInv, ClaimsAreReleased
<1>14. CASE SupervisorDies
  BY <1>14 DEF SupervisorDies, Return, ClaimInv, ClaimsAreReleased
<1>15. CASE WorkerExits
  BY <1>15, ClaimFrame DEF WorkerExits, auxVars
<1>16. CASE HeadMoves
  BY <1>16, ClaimFrame DEF HeadMoves, auxVars
<1>17. ASSUME NEW p \in Path, ArtifactLost(p) PROVE ClaimInv'
  BY <1>17, ClaimFrame DEF ArtifactLost
<1>18. ASSUME NEW u \in Command, NEW st \in {"APPROVED", "REJECTED", "EXPIRED"}, Decide(u, st)
       PROVE ClaimInv'
  BY <1>18, ClaimFrame DEF Decide
<1>19. CASE ReapLateResult
  BY <1>19, ClaimFrame DEF ReapLateResult, auxVars
<1>20. ASSUME NEW b \in BOOLEAN, ReconcileTeamAfterCrash(b) PROVE ClaimInv'
  BY <1>20 DEF ReconcileTeamAfterCrash, ClaimInv, ClaimsAreReleased, RecoveryTypeOK
<1>21. ASSUME NEW i \in Item, NEW st \in {"PENDING", "COMPLETED", "FAILED"},
              ReconcileAmbiguousTask(i, st)
       PROVE ClaimInv'
  BY <1>21, <1>s, StatusKeepsType DEF ReconcileAmbiguousTask, ClaimInv, ClaimsAreReleased
<1>22. CASE UNCHANGED vars
  BY <1>22, ClaimFrame DEF vars, auxVars
<1> QED
  BY <1>1, <1>2, <1>3, <1>4, <1>5, <1>6, <1>7, <1>8, <1>9, <1>10, <1>11, <1>12, <1>13,
     <1>14, <1>15, <1>16, <1>17, <1>18, <1>19, <1>20, <1>21, <1>22 DEF Next, ResumeStep

-----------------------------------------------------------------------------
(* Where a resume is after each of the steps that move it on.              *)

LEMMA MarkMoves ==
  ASSUME NEW i \in Item, MarkTaskResuming(i)
  PROVE  /\ call' \in CallRecord /\ call' # NoCall
         /\ call'.item = i /\ call'.at = "worker" /\ call'.done = {}
<1>1. call' \in CallRecord
  BY DEF MarkTaskResuming, CallRecord, Phase
<1> QED
  BY <1>1, CallFields DEF MarkTaskResuming

LEMMA ReadyMoves ==
  ASSUME RecoveryTypeOK, WorkerReady
  PROVE  /\ call \in CallRecord /\ call.at = "worker"
         /\ call' \in CallRecord /\ call' # NoCall
         /\ call'.item = call.item /\ call'.at = "audit" /\ call'.done = call.done
<1>1. call \in CallRecord /\ call.at = "worker"
  BY DEF RecoveryTypeOK, WorkerReady, At
<1>2. call' = [call EXCEPT !.at = "audit"]
  BY DEF WorkerReady
<1>3. /\ call' \in CallRecord
      /\ call'.item = call.item /\ call'.at = "audit" /\ call'.done = call.done
  BY ONLY <1>1, <1>2 DEF CallRecord, Phase
<1> QED
  BY <1>1, <1>3, CallFields

LEMMA PreflightMoves ==
  ASSUME RecoveryTypeOK, Preflight, call' # NoCall
  PROVE  /\ call' \in CallRecord
         /\ call'.item = call.item /\ call'.at = "step" /\ call'.done = call.done
         /\ call'.idx = call.idx
<1>1. call \in CallRecord /\ call' = [call EXCEPT !.at = "step"]
  BY PreflightCases
<1> QED
  BY ONLY <1>1 DEF CallRecord, Phase

LEMMA DispatchMoves ==
  ASSUME RecoveryTypeOK, NEW u \in Unit, DispatchStep(u)
  PROVE  /\ call \in CallRecord /\ call.at = "step"
         /\ u[1] = call.item /\ u[2] \notin call.done
         /\ call' \in CallRecord /\ call' # NoCall
         /\ call'.item = call.item /\ call'.at = "wait" /\ call'.done = call.done
         /\ call'.now = u /\ call'.idx = call.idx
<1>1. call \in CallRecord /\ call.at = "step"
  BY DEF RecoveryTypeOK, DispatchStep, At
<1>2. call' = [call EXCEPT !.at = "wait", !.now = u]
  BY DEF DispatchStep
<1>3. /\ call' \in CallRecord
      /\ call'.item = call.item /\ call'.at = "wait" /\ call'.done = call.done
      /\ call'.now = u /\ call'.idx = call.idx
  BY ONLY <1>1, <1>2, u \in Unit DEF CallRecord, Phase
<1>4. u[1] = call.item /\ u[2] \notin call.done
  BY <1>1, UpcomingIs DEF DispatchStep
<1> QED
  BY <1>1, <1>3, <1>4, CallFields

\* The end of a step: of an item without steps, or of one of several.
LEMMA CompletedMoves ==
  ASSUME RecoveryTypeOK, StepCompleted \/ SingleCompleted
  PROVE  /\ call \in CallRecord /\ call.at = "wait" /\ call # NoCall /\ call.item \in Item
         /\ call.now \in Unit /\ call.now[1] = call.item /\ call.now[2] \in Step
         /\ \/ /\ call.item \in Single
               /\ SetStatus(call.item, "COMPLETED") /\ call' = NoCall
            \/ /\ call.item \notin Single
               /\ call' \in CallRecord /\ call' # NoCall
               /\ call'.item = call.item /\ call'.at = "checkpoint"
               /\ call'.done = call.done \cup {call.now[2]}
               /\ call'.now = call.now /\ call'.idx = call.idx
               /\ row' = [row EXCEPT ![call.item].marker = call.done \cup {call.now[2]}]
<1>1. call \in CallRecord /\ call.at = "wait" /\ call # NoCall /\ call.item \in Item
  BY CallFields DEF RecoveryTypeOK, TakeCompleted, StepCompleted, SingleCompleted, At
<1>2. call.now \in Unit /\ call.now[1] = call.item /\ call.now[2] \in Step
  BY UnitParts DEF RecoveryTypeOK, TakeCompleted, StepCompleted, SingleCompleted, Sent
<1>3. CASE call.item \in Single
  BY <1>1, <1>2, <1>3 DEF TakeCompleted, StepCompleted, SingleCompleted, Return
<1>4. CASE call.item \notin Single
  <2>1. /\ call' = [call EXCEPT !.at = "checkpoint", !.done = call.done \cup {call.now[2]}]
        /\ row' = [row EXCEPT ![call.item].marker = call.done \cup {call.now[2]}]
    BY <1>4 DEF TakeCompleted, StepCompleted, SingleCompleted
  <2>2. /\ call' \in CallRecord
        /\ call'.item = call.item /\ call'.at = "checkpoint"
        /\ call'.done = call.done \cup {call.now[2]}
        /\ call'.now = call.now /\ call'.idx = call.idx
    BY ONLY <1>1, <1>2, <2>1 DEF CallRecord, Phase
  <2> QED
    BY <1>1, <1>2, <1>4, <2>1, <2>2, CallFields
<1> QED
  BY <1>3, <1>4

LEMMA SaveMoves ==
  ASSUME RecoveryTypeOK, SaveCheckpoint
  PROVE  /\ call \in CallRecord /\ call.at = "checkpoint" /\ call # NoCall
         /\ call' \in CallRecord /\ call' # NoCall
         /\ call'.item = call.item /\ call'.at = "step" /\ call'.done = call.done
         /\ call'.idx = call.idx + 1
<1>1. call \in CallRecord /\ call.at = "checkpoint" /\ call # NoCall
  BY DEF RecoveryTypeOK, SaveCheckpoint, At
<1>2. call' = [call EXCEPT !.at = "step", !.idx = call.idx + 1] /\ call.idx + 1 \in Nat
  BY <1>1, CallFields DEF SaveCheckpoint
<1>3. /\ call' \in CallRecord
      /\ call'.item = call.item /\ call'.at = "step" /\ call'.done = call.done
      /\ call'.idx = call.idx + 1
  BY ONLY <1>1, <1>2 DEF CallRecord, Phase
<1> QED
  BY <1>1, <1>3, CallFields

\* An audit that goes on to the steps: nothing done without a checkpoint of this
\* item, and no marker without one either.
LEMMA AuditMoves ==
  ASSUME RecoveryTypeOK, AuditCheckpoint, call' # NoCall
  PROVE  /\ call \in CallRecord /\ call.at = "audit" /\ call.item \in Item
         /\ call' \in CallRecord /\ call'.item = call.item
         /\ call'.at \in {"step", "preflight"}
         /\ row' = row
         /\ \/ /\ row[call.item].marker = {} /\ call'.done = {} /\ call'.idx = 0
            \/ /\ call.item \notin Single
               /\ \E n \in DOMAIN cps :
                    /\ Latest(n) /\ cps[n] \in Checkpoint /\ cps[n].item = call.item
                    /\ call'.idx = cps[n].idx /\ call'.done \subseteq cps[n].done
                    /\ \/ call'.done = Verified(cps[n], call.item)
                       \/ \A s \in StepOf(call.item) : <<call.item, s>> \in owed'
<1>1. PICK done \in SUBSET Step, idx \in Nat, again \in BOOLEAN, valid \in BOOLEAN :
        /\ call \in CallRecord /\ call.item \in Item
        /\ valid => /\ call.item \notin Single
                    /\ \E n \in DOMAIN cps :
                         /\ Latest(n) /\ cps[n] \in Checkpoint /\ cps[n].item = call.item
                         /\ idx = cps[n].idx /\ done \subseteq cps[n].done
                         /\ ~again => done = Verified(cps[n], call.item)
        /\ ~valid => done = {} /\ idx = 0
        /\ row[call.item].marker = {} \/ valid
        /\ row' = row
        /\ \E at \in {"step", "preflight"} :
             call' = [call EXCEPT !.at = at, !.done = done, !.idx = idx, !.commit = head]
        /\ owed' = owed \cup
             (IF again THEN {<<call.item, s>> : s \in StepOf(call.item)} ELSE {})
  BY AuditCases, ZenonT(60)
<1>2. head \in Nat
  BY DEF RecoveryTypeOK
<1>3. PICK at \in {"step", "preflight"} :
        call' = [call EXCEPT !.at = at, !.done = done, !.idx = idx, !.commit = head]
  BY <1>1
<1>4. /\ call' \in CallRecord /\ call'.item = call.item
      /\ call'.at \in {"step", "preflight"} /\ call'.done = done /\ call'.idx = idx
  BY ONLY <1>1, <1>2, <1>3 DEF CallRecord, Phase
<1>5. call.at = "audit"
  BY DEF AuditCheckpoint, At
<1>6. again => \A s \in StepOf(call.item) : <<call.item, s>> \in owed'
  BY <1>1
<1>7. CASE valid
  BY <1>1, <1>4, <1>5, <1>6, <1>7
<1>8. CASE ~valid
  BY <1>1, <1>4, <1>5, <1>8
<1> QED
  BY <1>7, <1>8

-----------------------------------------------------------------------------
(***************************************************************************)
(* The worker.  An answer is of a step that was run; a resume that is not  *)
(* waiting has a worker without work, one that is waits for its own step.  *)
(***************************************************************************)
WorkInv ==
  /\ answer # "none" => work \in ran
  /\ call # NoCall /\ call.at \in {"audit", "preflight", "step", "checkpoint"} => work = NoWork
  /\ call # NoCall /\ call.at = "wait" => work \in {NoWork, call.now}

LEMMA WorkFrame == WorkInv /\ UNCHANGED <<call, work, answer, ran>> => WorkInv'
BY DEF WorkInv

LEMMA WorkReturned == WorkInv /\ call' = NoCall /\ UNCHANGED <<work, answer, ran>> => WorkInv'
BY DEF WorkInv

LEMMA WorkNext == RecoveryTypeOK /\ WorkInv /\ [Next]_vars => WorkInv'
<1> SUFFICES ASSUME RecoveryTypeOK, WorkInv, [Next]_vars PROVE WorkInv'
  OBVIOUS
<1>1. ASSUME NEW i \in Item, MarkTaskResuming(i) PROVE WorkInv'
  BY <1>1, MarkMoves DEF MarkTaskResuming, WorkInv, workerVars, auxVars
<1>2. CASE WorkerReady
  BY <1>2, ReadyMoves DEF WorkerReady, WorkInv, workerVars, auxVars
<1>3. CASE WorkerNotSafe
  BY <1>3, WorkReturned DEF WorkerNotSafe, Return, workerVars, auxVars
<1>4. CASE AuditCheckpoint
  <2>1. UNCHANGED <<work, answer, ran>>
    BY <1>4 DEF AuditCheckpoint, workerVars
  <2>2. CASE call' = NoCall
    BY <2>1, <2>2, WorkReturned
  <2>3. CASE call' # NoCall
    BY <1>4, <2>1, <2>3, AuditMoves, CallFields DEF WorkInv
  <2> QED
    BY <2>2, <2>3
<1>5. CASE Preflight
  <2>1. UNCHANGED <<work, answer, ran>>
    BY <1>5 DEF Preflight, workerVars, auxVars
  <2>2. CASE call' = NoCall
    BY <2>1, <2>2, WorkReturned
  <2>3. CASE call' # NoCall
    BY <1>5, <2>1, <2>3, PreflightMoves, PreflightCases, CallFields DEF WorkInv
  <2> QED
    BY <2>2, <2>3
<1>6. CASE NoAuthority
  BY <1>6, WorkReturned DEF NoAuthority, Return, workerVars, auxVars
<1>7. ASSUME NEW u \in Unit, DispatchStep(u) PROVE WorkInv'
  <2>1. work = NoWork /\ work' = u /\ answer' = answer /\ ran' = ran
    BY <1>7 DEF DispatchStep, auxVars
  <2>2. answer = "none"
    BY <2>1, RecoveryAssumption DEF WorkInv, RecoveryTypeOK
  <2> QED
    BY <1>7, <2>1, <2>2, DispatchMoves DEF WorkInv
<1>8. CASE StepCompleted \/ SingleCompleted
  BY <1>8, CompletedMoves DEF TakeCompleted, StepCompleted, SingleCompleted, WorkInv
<1>9. CASE SaveCheckpoint
  BY <1>9, SaveMoves DEF SaveCheckpoint, WorkInv, workerVars, auxVars
<1>10. CASE AllStepsDone
  BY <1>10, WorkReturned DEF AllStepsDone, Return, workerVars, auxVars
<1>11. CASE StepFails
  BY <1>11 DEF StepFails, Return, WorkInv
<1>12. ASSUME NEW st \in {"COMPLETED", "FAILED"}, NEW f \in FileState, WorkerRuns(st, f)
       PROVE WorkInv'
  BY <1>12 DEF WorkerRuns, WorkInv
<1>13. CASE CallLost
  BY <1>13, WorkReturned DEF CallLost, Return, workerVars
<1>14. CASE SupervisorDies
  BY <1>14, WorkReturned DEF SupervisorDies, Return
<1>15. CASE WorkerExits
  BY <1>15 DEF WorkerExits, WorkInv, auxVars
<1>16. CASE HeadMoves
  BY <1>16, WorkFrame DEF HeadMoves, workerVars, auxVars
<1>17. ASSUME NEW p \in Path, ArtifactLost(p) PROVE WorkInv'
  BY <1>17, WorkFrame DEF ArtifactLost, workerVars
<1>18. ASSUME NEW u \in Command, NEW st \in {"APPROVED", "REJECTED", "EXPIRED"}, Decide(u, st)
       PROVE WorkInv'
  BY <1>18, WorkFrame DEF Decide, workerVars
<1>19. CASE ReapLateResult
  BY <1>19 DEF ReapLateResult, WorkInv, auxVars
<1>20. ASSUME NEW b \in BOOLEAN, ReconcileTeamAfterCrash(b) PROVE WorkInv'
  BY <1>20, WorkFrame DEF ReconcileTeamAfterCrash
<1>21. ASSUME NEW i \in Item, NEW st \in {"PENDING", "COMPLETED", "FAILED"},
              ReconcileAmbiguousTask(i, st)
       PROVE WorkInv'
  BY <1>21, WorkFrame DEF ReconcileAmbiguousTask, workerVars
<1>22. CASE UNCHANGED vars
  BY <1>22, WorkFrame DEF vars, workerVars, auxVars
<1> QED
  BY <1>1, <1>2, <1>3, <1>4, <1>5, <1>6, <1>7, <1>8, <1>9, <1>10, <1>11, <1>12, <1>13,
     <1>14, <1>15, <1>16, <1>17, <1>18, <1>19, <1>20, <1>21, <1>22 DEF Next, ResumeStep

-----------------------------------------------------------------------------
(***************************************************************************)
(* The approvals.  The approval of a command at the worker is consumed, or *)
(* forgotten, until the command has run: neither the deadline nor another  *)
(* resume can touch it in between.                                         *)
(***************************************************************************)
ApprovalInv ==
  /\ \A u \in Command : ticket[u] = "APPROVED" => u \in licensed
  /\ work \in Command /\ answer = "none" =>
       work \in licensed /\ ticket[work] \in {"CONSUMED", "none"}

LEMMA ApprovalFrame == ApprovalInv /\ UNCHANGED <<ticket, licensed, work, answer>> => ApprovalInv'
BY DEF ApprovalInv

LEMMA ApprovalIdle ==
  ASSUME ApprovalInv, UNCHANGED <<ticket, licensed>>, work' = NoWork
  PROVE  ApprovalInv'
BY RecoveryAssumption DEF ApprovalInv

LEMMA ApprovalNext == RecoveryTypeOK /\ WorkInv /\ ApprovalInv /\ [Next]_vars => ApprovalInv'
<1> SUFFICES ASSUME RecoveryTypeOK, WorkInv, ApprovalInv, [Next]_vars PROVE ApprovalInv'
  OBVIOUS
<1>u. Command \subseteq Unit /\ NoWork \notin Command
  BY RecoveryAssumption
<1>1. ASSUME NEW i \in Item, MarkTaskResuming(i) PROVE ApprovalInv'
  BY <1>1, ApprovalFrame DEF MarkTaskResuming, workerVars, auxVars
<1>2. CASE WorkerReady
  BY <1>2, ApprovalFrame, ApprovalIdle DEF WorkerReady, workerVars, auxVars
<1>3. CASE WorkerNotSafe
  BY <1>3, ApprovalFrame DEF WorkerNotSafe, workerVars, auxVars
<1>4. CASE AuditCheckpoint
  BY <1>4, ApprovalFrame DEF AuditCheckpoint, workerVars
<1>5. CASE Preflight
  <2>1. work = NoWork /\ UNCHANGED <<work, licensed>>
    BY <1>5, PreflightCases, CallFields DEF Preflight, WorkInv, workerVars, auxVars
  <2>2. \A u \in Unit : ticket'[u] \in {ticket[u], "BLOCKED"}
    BY <1>5, PreflightCases
  <2> QED
    BY <1>u, <2>1, <2>2 DEF ApprovalInv
<1>6. CASE NoAuthority
  BY <1>6, ApprovalFrame DEF NoAuthority, workerVars, auxVars
<1>7. ASSUME NEW u \in Unit, DispatchStep(u) PROVE ApprovalInv'
  <2>1. work' = u /\ licensed' = licensed /\ TicketIssued(u)
    BY <1>7 DEF DispatchStep, auxVars
  <2>2. CASE u \in Command
    <3>1. ticket[u] = "APPROVED" /\ ticket' = [ticket EXCEPT ![u] = "CONSUMED"]
      BY <2>1, <2>2 DEF TicketIssued
    <3> QED
      BY <1>u, <2>1, <2>2, <3>1 DEF ApprovalInv, RecoveryTypeOK
  <2>3. CASE u \notin Command
    BY <2>1, <2>3 DEF ApprovalInv, TicketIssued
  <2> QED
    BY <2>2, <2>3
<1>8. CASE StepCompleted \/ SingleCompleted
  BY <1>8, ApprovalIdle DEF TakeCompleted, StepCompleted, SingleCompleted, auxVars
<1>9. CASE SaveCheckpoint
  BY <1>9, ApprovalFrame DEF SaveCheckpoint, workerVars, auxVars
<1>10. CASE AllStepsDone
  BY <1>10, ApprovalFrame DEF AllStepsDone, workerVars, auxVars
<1>11. CASE StepFails
  BY <1>11, ApprovalFrame, ApprovalIdle DEF StepFails
<1>12. ASSUME NEW st \in {"COMPLETED", "FAILED"}, NEW f \in FileState, WorkerRuns(st, f)
       PROVE ApprovalInv'
  BY <1>12, <1>u DEF WorkerRuns, ApprovalInv
<1>13. CASE CallLost
  BY <1>13, ApprovalFrame DEF CallLost, workerVars
<1>14. CASE SupervisorDies
  BY <1>14, <1>u DEF SupervisorDies, ApprovalInv
<1>15. CASE WorkerExits
  BY <1>15, ApprovalIdle DEF WorkerExits, auxVars
<1>16. CASE HeadMoves
  BY <1>16, ApprovalFrame DEF HeadMoves, workerVars, auxVars
<1>17. ASSUME NEW p \in Path, ArtifactLost(p) PROVE ApprovalInv'
  BY <1>17, ApprovalFrame DEF ArtifactLost, workerVars
<1>18. ASSUME NEW u \in Command, NEW st \in {"APPROVED", "REJECTED", "EXPIRED"}, Decide(u, st)
       PROVE ApprovalInv'
  BY <1>18, <1>u DEF Decide, ApprovalInv, RecoveryTypeOK, workerVars
<1>19. CASE ReapLateResult
  BY <1>19, ApprovalIdle DEF ReapLateResult, auxVars
<1>20. ASSUME NEW b \in BOOLEAN, ReconcileTeamAfterCrash(b) PROVE ApprovalInv'
  BY <1>20, ApprovalFrame DEF ReconcileTeamAfterCrash
<1>21. ASSUME NEW i \in Item, NEW st \in {"PENDING", "COMPLETED", "FAILED"},
              ReconcileAmbiguousTask(i, st)
       PROVE ApprovalInv'
  BY <1>21, ApprovalFrame DEF ReconcileAmbiguousTask, workerVars
<1>22. CASE UNCHANGED vars
  BY <1>22, ApprovalFrame DEF vars, workerVars, auxVars
<1> QED
  BY <1>1, <1>2, <1>3, <1>4, <1>5, <1>6, <1>7, <1>8, <1>9, <1>10, <1>11, <1>12, <1>13,
     <1>14, <1>15, <1>16, <1>17, <1>18, <1>19, <1>20, <1>21, <1>22 DEF Next, ResumeStep

-----------------------------------------------------------------------------
(***************************************************************************)
(* What is taken for done has been run: in the checkpoints of any resume,  *)
(* and in completed_steps of the one under way.                            *)
(***************************************************************************)
DoneInv ==
  /\ \A n \in DOMAIN cps : \A s \in cps[n].done : <<cps[n].item, s>> \in ran
  /\ call # NoCall => \A s \in call.done : <<call.item, s>> \in ran
  /\ CompletedMeansRun

\* The checkpoint a resume is about to save.
NewCheckpoint == [item |-> call.item, idx |-> call.idx + 1, done |-> call.done,
                  commit |-> call.commit]

LEMMA SavedRows ==
  ASSUME RecoveryTypeOK, SaveCheckpoint
  PROVE  /\ DOMAIN cps \subseteq DOMAIN cps'
         /\ \A n \in DOMAIN cps' :
              cps'[n] = NewCheckpoint \/ (n \in DOMAIN cps /\ cps'[n] = cps[n])
         /\ \E n \in DOMAIN cps' : cps'[n] = NewCheckpoint
<1> DEFINE same == {n \in DOMAIN cps : cps[n].item = call.item /\ cps[n].idx = NewCheckpoint.idx}
<1>1. cps' = IF same = {} THEN Append(cps, NewCheckpoint)
             ELSE [n \in DOMAIN cps |-> IF n \in same THEN NewCheckpoint ELSE cps[n]]
  BY DEF SaveCheckpoint, NewCheckpoint
<1>2. cps \in Seq(Checkpoint)
  BY DEF RecoveryTypeOK
<1>3. same \subseteq DOMAIN cps
  OBVIOUS
<1> HIDE DEF same, NewCheckpoint
<1>4. CASE same = {}
  <2>1. /\ cps' = Append(cps, NewCheckpoint)
        /\ Len(cps) \in Nat /\ DOMAIN cps = 1 .. Len(cps)
    BY <1>1, <1>2, <1>4
  <2>2. /\ DOMAIN cps' = 1 .. (Len(cps) + 1)
        /\ cps'[Len(cps) + 1] = NewCheckpoint
        /\ \A n \in 1 .. Len(cps) : cps'[n] = cps[n]
    BY <1>2, <2>1
  <2> QED
    BY <2>1, <2>2
<1>5. CASE same # {}
  BY <1>1, <1>3, <1>5
<1> QED
  BY <1>4, <1>5

\* Steps that run nothing and finish no item by themselves.
LEMMA DoneFrame ==
  ASSUME DoneInv, UNCHANGED <<cps, row, vouched>>, ran \subseteq ran',
         call' = NoCall \/ call' = call
  PROVE  DoneInv'
BY DEF DoneInv, CompletedMeansRun

LEMMA DoneReturned ==
  ASSUME RecoveryTypeOK, DoneInv, call # NoCall, NEW st \in Status, SetStatus(call.item, st),
         st = "COMPLETED" => \A s \in StepOf(call.item) : <<call.item, s>> \in ran,
         call' = NoCall, UNCHANGED <<cps, ran, vouched>>
  PROVE  DoneInv'
<1>1. call.item \in Item
  BY CallFields DEF RecoveryTypeOK
<1> QED
  BY <1>1, StatusKeepsType DEF DoneInv, CompletedMeansRun

\* A payload without a list of steps has one.
LEMMA SingleStep ==
  ASSUME NEW i \in Single \cap Item, NEW s \in StepOf(i), NEW t \in StepOf(i)
  PROVE  s = t
<1>1. StepsOf[i] \in Seq(Step) /\ Len(StepsOf[i]) = 1
  BY RecoveryAssumption
<1> QED
  BY <1>1 DEF StepOf, ToSet

LEMMA DoneNext == RecoveryTypeOK /\ WorkInv /\ DoneInv /\ [Next]_vars => DoneInv'
<1> SUFFICES ASSUME RecoveryTypeOK, WorkInv, DoneInv, [Next]_vars PROVE DoneInv'
  OBVIOUS
<1>c. call # NoCall => call \in CallRecord /\ call.item \in Item
  BY CallFields DEF RecoveryTypeOK
<1>s. {"PENDING", "DISPATCHED", "RUNNING", "COMPLETED", "FAILED"} \subseteq Status
  BY DEF Status
<1>1. ASSUME NEW i \in Item, MarkTaskResuming(i) PROVE DoneInv'
  <2>1. UNCHANGED <<cps, ran, vouched>> /\ SetStatus(i, "RUNNING")
    BY <1>1 DEF MarkTaskResuming, auxVars
  <2> QED
    BY <1>1, <2>1, <1>s, MarkMoves, StatusKeepsType DEF DoneInv, CompletedMeansRun
<1>2. CASE WorkerReady
  BY <1>2, ReadyMoves, CallFields DEF WorkerReady, DoneInv, CompletedMeansRun, auxVars
<1>3. CASE WorkerNotSafe
  BY <1>3, <1>s, DoneReturned DEF WorkerNotSafe, At, Return, auxVars
<1>4. CASE AuditCheckpoint
  <2>1. UNCHANGED <<cps, ran, vouched>> /\ call # NoCall
    BY <1>4 DEF AuditCheckpoint, At
  <2>2. CASE call' = NoCall
    <3>1. PICK done \in SUBSET Step, idx \in Nat, again \in BOOLEAN, valid \in BOOLEAN :
            /\ call \in CallRecord /\ call.item \in Item
            /\ valid => \E n \in DOMAIN cps : cps[n].item = call.item /\ done \subseteq cps[n].done
            /\ ~valid => done = {}
            /\ \/ StepOf(call.item) \subseteq done /\ SetStatus(call.item, "COMPLETED")
               \/ SetStatus(call.item, "DISPATCHED")
               \/ row' = row
      BY <1>4, AuditCases
    <3>2. \A s \in done : <<call.item, s>> \in ran
      BY <3>1 DEF DoneInv
    <3>3. CASE row' = row
      BY <2>1, <2>2, <3>3, DoneFrame
    <3>4. CASE StepOf(call.item) \subseteq done /\ SetStatus(call.item, "COMPLETED")
      BY <2>1, <2>2, <3>2, <3>4, <1>s, DoneReturned
    <3>5. CASE SetStatus(call.item, "DISPATCHED")
      BY <2>1, <2>2, <3>5, <1>s, DoneReturned
    <3> QED
      BY <3>1, <3>3, <3>4, <3>5
  <2>3. CASE call' # NoCall
    <3>1. /\ call'.item = call.item /\ row' = row
          /\ \/ call'.done = {}
             \/ \E n \in DOMAIN cps : cps[n].item = call.item /\ call'.done \subseteq cps[n].done
      BY <1>4, <2>3, AuditMoves
    <3> QED
      BY <2>1, <3>1 DEF DoneInv, CompletedMeansRun
  <2> QED
    BY <2>2, <2>3
<1>5. CASE Preflight
  <2>1. UNCHANGED <<cps, ran, vouched>> /\ call # NoCall
    BY <1>5 DEF Preflight, At, auxVars
  <2>2. CASE call' = NoCall
    <3>1. SetStatus(call.item, "RUNNING") \/ SetStatus(call.item, "DISPATCHED")
      BY <1>5, PreflightCases
    <3> QED
      BY <2>1, <2>2, <3>1, <1>s, DoneReturned
  <2>3. CASE call' # NoCall
    <3>1. call'.item = call.item /\ call'.done = call.done
      BY <1>5, <2>3, PreflightMoves
    <3>2. SetStatus(call.item, "RUNNING") /\ call.item \in Item
      BY <1>5, <2>3, PreflightCases
    <3> QED
      BY <2>1, <3>1, <3>2, <1>s, StatusKeepsType DEF DoneInv, CompletedMeansRun
  <2> QED
    BY <2>2, <2>3
<1>6. CASE NoAuthority
  BY <1>6, <1>s, DoneReturned DEF NoAuthority, At, Return, auxVars
<1>7. ASSUME NEW u \in Unit, DispatchStep(u) PROVE DoneInv'
  <2>1. UNCHANGED <<cps, row, ran, vouched>> /\ call # NoCall
    BY <1>7 DEF DispatchStep, At, auxVars
  <2>2. call'.item = call.item /\ call'.done = call.done
    BY <1>7, DispatchMoves
  <2> QED
    BY <2>1, <2>2 DEF DoneInv, CompletedMeansRun
<1>8. CASE StepCompleted \/ SingleCompleted
  <2>1. UNCHANGED <<cps, ran, vouched>> /\ answer = "COMPLETED"
    BY <1>8 DEF TakeCompleted, StepCompleted, SingleCompleted, auxVars
  <2>2. call.now \in ran /\ call.now = <<call.item, call.now[2]>>
    <3>1. work \in ran /\ work # NoWork
      BY <2>1, RecoveryAssumption DEF WorkInv, RecoveryTypeOK
    <3>2. work = call.now
      BY <1>8, <3>1, CompletedMoves DEF WorkInv
    <3> QED
      BY <1>8, <3>1, <3>2, CompletedMoves, UnitParts
  <2>3. CASE call.item \in Single
    <3>1. \A s \in StepOf(call.item) : <<call.item, s>> \in ran
      <4>1. call.now[2] \in StepOf(call.item) /\ call.item \in Item
        BY <1>8, CompletedMoves, UnitParts
      <4> QED
        BY <2>2, <2>3, <4>1, SingleStep
    <3>2. SetStatus(call.item, "COMPLETED") /\ call' = NoCall /\ call # NoCall
      BY <1>8, <2>3, CompletedMoves
    <3> QED
      BY <2>1, <3>1, <3>2, <1>s, DoneReturned
  <2>4. CASE call.item \notin Single
    <3>1. /\ call # NoCall /\ call.item \in Item
          /\ call'.item = call.item /\ call'.done = call.done \cup {call.now[2]}
          /\ row' = [row EXCEPT ![call.item].marker = call.done \cup {call.now[2]}]
      BY <1>8, <2>4, CompletedMoves
    <3>2. \A j \in Item : row'[j].status = row[j].status
      BY <3>1 DEF RecoveryTypeOK
    <3> QED
      BY <2>1, <2>2, <3>1, <3>2 DEF DoneInv, CompletedMeansRun
  <2> QED
    BY <2>3, <2>4
<1>9. CASE SaveCheckpoint
  <2>1. UNCHANGED <<row, ran, vouched>>
    BY <1>9 DEF SaveCheckpoint, auxVars
  <2>2. NewCheckpoint.item = call.item /\ NewCheckpoint.done = call.done
    BY DEF NewCheckpoint
  <2>3. \A n \in DOMAIN cps' :
          cps'[n] = NewCheckpoint \/ (n \in DOMAIN cps /\ cps'[n] = cps[n])
    BY <1>9, SavedRows
  <2>4. call # NoCall /\ call'.item = call.item /\ call'.done = call.done
    BY <1>9, SaveMoves
  <2> QED
    BY <2>1, <2>2, <2>3, <2>4 DEF DoneInv, CompletedMeansRun
<1>10. CASE AllStepsDone
  <2>1. call \in CallRecord /\ call # NoCall
    BY <1>10, <1>c DEF AllStepsDone, At
  <2>2. \A s \in StepOf(call.item) : s \in call.done
    BY <1>10 DEF AllStepsDone, Remaining, StepOf, ToSet
  <2> QED
    BY <1>10, <2>1, <2>2, <1>s, DoneReturned DEF AllStepsDone, Return, DoneInv, auxVars
<1>11. CASE StepFails
  BY <1>11, <1>s, DoneReturned DEF StepFails, At, Return
<1>12. ASSUME NEW st \in {"COMPLETED", "FAILED"}, NEW f \in FileState, WorkerRuns(st, f)
       PROVE DoneInv'
  BY <1>12, DoneFrame DEF WorkerRuns
<1>13. CASE CallLost
  BY <1>13, DoneFrame DEF CallLost, Return
<1>14. CASE SupervisorDies
  BY <1>14, DoneFrame DEF SupervisorDies, Return
<1>15. CASE WorkerExits
  BY <1>15, DoneFrame DEF WorkerExits, auxVars
<1>16. CASE HeadMoves
  BY <1>16, DoneFrame DEF HeadMoves, auxVars
<1>17. ASSUME NEW p \in Path, ArtifactLost(p) PROVE DoneInv'
  BY <1>17, DoneFrame DEF ArtifactLost
<1>18. ASSUME NEW u \in Command, NEW st \in {"APPROVED", "REJECTED", "EXPIRED"}, Decide(u, st)
       PROVE DoneInv'
  BY <1>18, DoneFrame DEF Decide
<1>19. CASE ReapLateResult
  BY <1>19, DoneFrame DEF ReapLateResult, auxVars
<1>20. ASSUME NEW b \in BOOLEAN, ReconcileTeamAfterCrash(b) PROVE DoneInv'
  BY <1>20 DEF ReconcileTeamAfterCrash, DoneInv, CompletedMeansRun, RecoveryTypeOK
<1>21. ASSUME NEW i \in Item, NEW st \in {"PENDING", "COMPLETED", "FAILED"},
              ReconcileAmbiguousTask(i, st)
       PROVE DoneInv'
  BY <1>21, <1>s, StatusKeepsType DEF ReconcileAmbiguousTask, DoneInv, CompletedMeansRun
<1>22. CASE UNCHANGED vars
  BY <1>22, DoneFrame DEF vars, auxVars
<1> QED
  BY <1>1, <1>2, <1>3, <1>4, <1>5, <1>6, <1>7, <1>8, <1>9, <1>10, <1>11, <1>12, <1>13,
     <1>14, <1>15, <1>16, <1>17, <1>18, <1>19, <1>20, <1>21, <1>22 DEF Next, ResumeStep

-----------------------------------------------------------------------------
(***************************************************************************)
(* Replays.  A step that is not owed has left a trace every later resume   *)
(* respects: its artifact is there; the newest checkpoint of its item      *)
(* lists it, and the marker blocks a resume that cannot use that           *)
(* checkpoint; the row of an item without steps is COMPLETED.  A resume    *)
(* under way counts it as done.  Its step_idx is above every checkpoint of *)
(* its item, so that what it saves is the newest.                          *)
(***************************************************************************)
Newest(n, i) ==
  cps[n].item = i /\ \A m \in DOMAIN cps : cps[m].item = i => cps[m].idx <= cps[n].idx

Recorded(u) ==
  IF u[1] \in Single THEN row[u[1]].status = "COMPLETED"
  ELSE /\ u[2] \in row[u[1]].marker
       /\ \A n \in DOMAIN cps : Newest(n, u[1]) => u[2] \in cps[n].done

Started == call # NoCall /\ call.at \in {"preflight", "step", "wait", "checkpoint"}

ArtifactsThere == \A u \in Unit \ owed : PathOf[u] = NoPath \/ file[PathOf[u]] = "full"
TracesLeft == \A u \in Unit : u \in owed \/ u \in Undecided \/ Recorded(u)
DoneCounted ==
  Started => \A u \in Unit \ owed :
    u[1] = call.item /\ ~(call.at = "wait" /\ u = call.now) => u[2] \in call.done
IndexAbove ==
  Started => \A n \in DOMAIN cps : cps[n].item = call.item => cps[n].idx <= call.idx
MarkerFirst == \A n \in DOMAIN cps : row[cps[n].item].marker # {}
AtCheckpoint ==
  call # NoCall /\ call.at = "checkpoint" =>
    /\ call.item \notin Single
    /\ call.now[2] \in call.done
    /\ row[call.item].marker = call.done

ReplayInv ==
  /\ ReplaysAreOwed
  /\ ArtifactsThere
  /\ TracesLeft
  /\ DoneCounted
  /\ IndexAbove
  /\ MarkerFirst
  /\ AtCheckpoint

\* Steps that run nothing and leave rows, checkpoints and the resume as they are.
LEMMA ReplayFrame ==
  ASSUME ReplayInv, UNCHANGED <<row, cps, file, call, owed>>,
         work' = NoWork \/ UNCHANGED <<work, answer>>
  PROVE  ReplayInv'
<1>1. UNCHANGED Undecided
  BY DEF Undecided, At
<1>2. \A u \in Unit : Recorded(u)' = Recorded(u)
  BY DEF Recorded, Newest
<1> QED
  BY <1>1, <1>2 DEF ReplayInv, ReplaysAreOwed, ArtifactsThere, TracesLeft, DoneCounted,
     IndexAbove, MarkerFirst, AtCheckpoint, Started

\* A change of the status of one item that takes no COMPLETED away.
LEMMA TracesOfStatus ==
  ASSUME RecoveryTypeOK, TracesLeft, NEW i \in Item, NEW st \in Status, SetStatus(i, st),
         cps' = cps, row[i].status # "COMPLETED",
         owed \cup Undecided \subseteq owed' \cup Undecided'
  PROVE  TracesLeft'
<1>1. /\ \A j \in Item : row'[j].marker = row[j].marker
      /\ \A j \in Item : j # i => row'[j] = row[j]
  BY StatusKeepsType
<1>2. ASSUME NEW u \in Unit, Recorded(u) PROVE Recorded(u)'
  <2>1. u[1] \in Item
    BY UnitParts
  <2>2. \A n : Newest(n, u[1])' = Newest(n, u[1])
    BY DEF Newest
  <2> QED
    BY <1>1, <1>2, <2>1, <2>2 DEF Recorded
<1> QED
  BY <1>2 DEF TracesLeft

\* A resume that returns, its undecided step being owed from then on.
LEMMA ReplayReturned ==
  ASSUME RecoveryTypeOK, ClaimInv, ReplayInv, call # NoCall,
         NEW st \in Status, SetStatus(call.item, st), call' = NoCall,
         UNCHANGED <<cps, file>>, owed \cup Undecided \subseteq owed',
         work' = NoWork \/ UNCHANGED <<work, answer>>
  PROVE  ReplayInv'
<1>1. call.item \in Item /\ row[call.item].status = "RUNNING"
  BY CallFields DEF RecoveryTypeOK, ClaimInv
<1>2. TracesLeft'
  BY <1>1, TracesOfStatus DEF ReplayInv
<1>3. MarkerFirst'
  <2>1. \A n \in DOMAIN cps : cps[n].item \in Item
    BY CheckpointFields
  <2> QED
    BY <1>1, <2>1, StatusKeepsType DEF ReplayInv, MarkerFirst
<1> QED
  BY <1>2, <1>3 DEF ReplayInv, ReplaysAreOwed, ArtifactsThere, DoneCounted,
     IndexAbove, AtCheckpoint, Started

\* A resume that dies with its row as it is.
LEMMA ReplayLost ==
  ASSUME ReplayInv, call' = NoCall, UNCHANGED <<row, cps, file, work, answer>>,
         owed' = owed \cup Undecided
  PROVE  ReplayInv'
<1>1. \A u \in Unit : Recorded(u)' = Recorded(u)
  BY DEF Recorded, Newest
<1> QED
  BY <1>1 DEF ReplayInv, ReplaysAreOwed, ArtifactsThere, TracesLeft, DoneCounted,
     IndexAbove, MarkerFirst, AtCheckpoint, Started

LEMMA ReplayMark ==
  ASSUME RecoveryTypeOK, ReplayInv, NEW i \in Item, MarkTaskResuming(i)
  PROVE  ReplayInv'
<1>1. /\ call = NoCall /\ row[i].status # "COMPLETED" /\ SetStatus(i, "RUNNING")
      /\ UNCHANGED <<cps, file, work, answer, owed>>
  BY DEF MarkTaskResuming, worldVars, workerVars, auxVars
<1>2. "RUNNING" \in Status
  BY DEF Status
<1>3. Undecided = {}
  BY <1>1 DEF Undecided, At
<1>4. TracesLeft'
  BY <1>1, <1>2, <1>3, TracesOfStatus DEF ReplayInv
<1>5. MarkerFirst'
  <2>1. \A n \in DOMAIN cps : cps[n].item \in Item
    BY CheckpointFields
  <2> QED
    BY <1>1, <1>2, <2>1, StatusKeepsType DEF ReplayInv, MarkerFirst
<1>6. ~Started' /\ AtCheckpoint'
  BY MarkMoves DEF Started, AtCheckpoint
<1> QED
  BY <1>1, <1>4, <1>5, <1>6 DEF ReplayInv, ReplaysAreOwed, ArtifactsThere, DoneCounted, IndexAbove

LEMMA ReplayReady ==
  ASSUME RecoveryTypeOK, ReplayInv, WorkerReady
  PROVE  ReplayInv'
<1>1. /\ UNCHANGED <<row, cps, file, owed>>
      /\ work' = NoWork \/ UNCHANGED <<work, answer>>
  BY DEF WorkerReady, worldVars, workerVars, auxVars
<1>2. call.at = "worker" /\ call'.at = "audit"
  BY ReadyMoves
<1>3. Undecided = {} /\ Undecided' = {}
  BY <1>2 DEF Undecided, At
<1>4. \A u \in Unit : Recorded(u)' = Recorded(u)
  BY <1>1 DEF Recorded, Newest
<1> QED
  BY <1>1, <1>2, <1>3, <1>4 DEF ReplayInv, ReplaysAreOwed, ArtifactsThere, TracesLeft,
     DoneCounted, IndexAbove, MarkerFirst, AtCheckpoint, Started

LEMMA ReplayAudit ==
  ASSUME RecoveryTypeOK, ClaimInv, ReplayInv, AuditCheckpoint
  PROVE  ReplayInv'
<1>1. /\ UNCHANGED <<cps, file, work, answer>> /\ call # NoCall /\ call.at = "audit"
      /\ owed \subseteq owed'
  BY DEF AuditCheckpoint, Owe, At, worldVars, workerVars
<1>2. Undecided = {}
  BY <1>1 DEF Undecided, At
<1>3. CASE call' = NoCall
  <2>1. \/ SetStatus(call.item, "COMPLETED") \/ SetStatus(call.item, "DISPATCHED")
        \/ row' = row
    BY AuditCases
  <2>2. CASE row' = row
    <3>1. \A u \in Unit : Recorded(u)' = Recorded(u)
      BY <1>1, <2>2 DEF Recorded, Newest
    <3> QED
      BY <1>1, <1>2, <1>3, <2>2, <3>1 DEF ReplayInv, ReplaysAreOwed, ArtifactsThere,
         TracesLeft, DoneCounted, IndexAbove, MarkerFirst, AtCheckpoint, Started
  <2>3. {"COMPLETED", "DISPATCHED"} \subseteq Status
    BY DEF Status
  <2> QED
    BY <1>1, <1>2, <1>3, <2>1, <2>2, <2>3, ReplayReturned
<1>4. CASE call' # NoCall
  <2>1. /\ call \in CallRecord /\ call.item \in Item
        /\ call' \in CallRecord /\ call'.item = call.item
        /\ call'.at \in {"step", "preflight"}
        /\ row' = row
    BY <1>4, AuditMoves
  <2>2. ASSUME row[call.item].marker = {}, call'.done = {}, call'.idx = 0
        PROVE  DoneCounted' /\ IndexAbove'
    <3>1. \A u \in Unit \ owed : u[1] # call.item
      BY <1>1, <1>2, <2>2 DEF ReplayInv, TracesLeft, Recorded, ClaimInv
    <3>2. \A n \in DOMAIN cps : cps[n].item # call.item
      BY <2>2 DEF ReplayInv, MarkerFirst
    <3>3. DoneCounted' /\ IndexAbove'
      BY <1>1, <2>1, <3>1, <3>2 DEF DoneCounted, IndexAbove
    <3> QED
      BY <3>3
  <2>3. ASSUME call.item \notin Single,
               \E n \in DOMAIN cps :
                 /\ Latest(n) /\ cps[n].item = call.item /\ call'.idx = cps[n].idx
                 /\ \/ call'.done = Verified(cps[n], call.item)
                    \/ \A s \in StepOf(call.item) : <<call.item, s>> \in owed'
        PROVE  DoneCounted' /\ IndexAbove'
    <3>1. PICK n \in DOMAIN cps :
            /\ Latest(n) /\ cps[n].item = call.item /\ call'.idx = cps[n].idx
            /\ \/ call'.done = Verified(cps[n], call.item)
               \/ \A s \in StepOf(call.item) : <<call.item, s>> \in owed'
      BY <2>3
    <3>2. call.item \notin Single
      BY <2>3
    <3>3. \A m \in DOMAIN cps : cps[m].idx <= cps[n].idx
      BY <3>1, CheckpointFields DEF Latest
    <3>4. Newest(n, call.item)
      BY <3>1, <3>3 DEF Newest
    <3>5. ASSUME NEW u \in Unit \ owed', u[1] = call.item PROVE u[2] \in call'.done
      <4>1. u = <<call.item, u[2]>> /\ u[2] \in StepOf(call.item) /\ u \notin owed
        BY <1>1, <3>5, UnitParts
      <4>2. call'.done = Verified(cps[n], call.item)
        BY <3>1, <3>5, <4>1
      <4>3. u[2] \in cps[n].done
        BY <1>2, <3>2, <3>4, <3>5, <4>1 DEF ReplayInv, TracesLeft, Recorded
      <4>4. Present(u, {"full"})
        BY <3>5, <4>1 DEF ReplayInv, ArtifactsThere, Present
      <4> QED
        BY <4>1, <4>2, <4>3, <4>4 DEF Verified
    <3>6. DoneCounted'
      BY <2>1, <3>5 DEF DoneCounted
    <3>7. IndexAbove'
      BY <1>1, <2>1, <3>1, <3>3 DEF IndexAbove
    <3> QED
      BY <3>6, <3>7
  <2>4. DoneCounted' /\ IndexAbove'
    BY <1>4, <2>2, <2>3, AuditMoves
  <2>5. Undecided' = {}
    BY <2>1 DEF Undecided, At
  <2>6. \A u \in Unit : Recorded(u)' = Recorded(u)
    BY <1>1, <2>1 DEF Recorded, Newest
  <2> QED
    BY <1>1, <1>2, <2>1, <2>4, <2>5, <2>6 DEF ReplayInv, ReplaysAreOwed, ArtifactsThere,
       TracesLeft, MarkerFirst, AtCheckpoint
<1> QED
  BY <1>3, <1>4

LEMMA ReplayPreflight ==
  ASSUME RecoveryTypeOK, ClaimInv, ReplayInv, Preflight
  PROVE  ReplayInv'
<1>1. /\ UNCHANGED <<cps, file, work, answer, owed>>
      /\ call # NoCall /\ call.at = "preflight" /\ call.item \in Item
  BY PreflightCases DEF Preflight, At, worldVars, workerVars, auxVars
<1>2. Undecided = {}
  BY <1>1 DEF Undecided, At
<1>3. {"RUNNING", "DISPATCHED"} \subseteq Status
  BY DEF Status
<1>4. CASE call' = NoCall
  BY <1>1, <1>2, <1>3, <1>4, PreflightCases, ReplayReturned
<1>5. CASE call' # NoCall
  <2>1. /\ call'.item = call.item /\ call'.at = "step" /\ call'.done = call.done
        /\ call'.idx = call.idx
    BY <1>5, PreflightMoves
  <2>2. SetStatus(call.item, "RUNNING")
    BY <1>5, PreflightCases
  <2>3. Undecided' = {}
    BY <2>1 DEF Undecided, At
  <2>4. TracesLeft'
    BY <1>1, <1>2, <1>3, <2>2, <2>3, TracesOfStatus DEF ReplayInv, ClaimInv
  <2>5. MarkerFirst'
    BY <1>1, <1>3, <2>2, CheckpointFields, StatusKeepsType DEF ReplayInv, MarkerFirst
  <2>6. DoneCounted'
    BY <1>1, <1>5, <2>1 DEF ReplayInv, DoneCounted, Started
  <2> QED
    BY <1>1, <1>5, <2>1, <2>4, <2>5, <2>6 DEF ReplayInv, ReplaysAreOwed, ArtifactsThere,
       IndexAbove, AtCheckpoint, Started
<1> QED
  BY <1>4, <1>5

LEMMA ReplayDispatch ==
  ASSUME RecoveryTypeOK, ReplayInv, NEW u \in Unit, DispatchStep(u)
  PROVE  ReplayInv'
<1>1. /\ UNCHANGED <<row, cps, file, owed>> /\ work' = u
      /\ call # NoCall
  BY DEF DispatchStep, At, worldVars, auxVars
<1>2. /\ call.at = "step" /\ u[1] = call.item /\ u[2] \notin call.done
      /\ call' # NoCall /\ call'.item = call.item /\ call'.at = "wait"
      /\ call'.done = call.done /\ call'.now = u /\ call'.idx = call.idx
  BY DispatchMoves
<1>3. u \in owed
  BY <1>1, <1>2 DEF ReplayInv, DoneCounted, Started
<1>4. Undecided = {}
  BY <1>2 DEF Undecided, At
<1>5. \A v \in Unit : Recorded(v)' = Recorded(v)
  BY <1>1 DEF Recorded, Newest
<1>6. TracesLeft'
  BY <1>1, <1>4, <1>5 DEF ReplayInv, TracesLeft
<1>7. DoneCounted'
  BY <1>1, <1>2 DEF ReplayInv, DoneCounted, Started
<1> QED
  BY <1>1, <1>2, <1>3, <1>6, <1>7 DEF ReplayInv, ReplaysAreOwed, ArtifactsThere,
     IndexAbove, MarkerFirst, AtCheckpoint, Started

LEMMA ReplayCompleted ==
  ASSUME RecoveryTypeOK, ClaimInv, ReplayInv, StepCompleted \/ SingleCompleted
  PROVE  ReplayInv'
<1>1. UNCHANGED <<cps, file, owed>> /\ work' = NoWork
  BY DEF TakeCompleted, StepCompleted, SingleCompleted, worldVars, auxVars
<1>2. /\ call # NoCall /\ call.at = "wait" /\ call.item \in Item
      /\ call.now \in Unit /\ call.now[1] = call.item /\ call.now[2] \in Step
  BY CompletedMoves
<1>3. Undecided = {call.now}
  BY <1>2 DEF Undecided, At
<1>4. CASE call.item \in Single
  <2>1. SetStatus(call.item, "COMPLETED") /\ call' = NoCall
    BY <1>4, CompletedMoves
  <2>2. /\ row'[call.item].status = "COMPLETED"
        /\ \A j \in Item : row'[j].marker = row[j].marker
        /\ \A j \in Item : j # call.item => row'[j] = row[j]
    BY <1>2, <2>1, StatusKeepsType DEF Status
  <2>3. TracesLeft'
    <3> SUFFICES ASSUME NEW u \in Unit, u \notin owed PROVE Recorded(u)'
      BY <1>1 DEF TracesLeft
    <3>1. u[1] \in Item
      BY UnitParts
    <3>2. CASE u[1] = call.item
      BY <1>4, <2>2, <3>2 DEF Recorded
    <3>3. CASE u[1] # call.item
      <4>1. Recorded(u)
        BY <1>2, <1>3, <3>3 DEF ReplayInv, TracesLeft
      <4> QED
        BY <1>1, <2>2, <3>1, <3>3, <4>1 DEF Recorded, Newest
    <3> QED
      BY <3>2, <3>3
  <2>4. MarkerFirst'
    BY <1>1, <2>2, CheckpointFields DEF ReplayInv, MarkerFirst
  <2> QED
    BY <1>1, <2>1, <2>3, <2>4 DEF ReplayInv, ReplaysAreOwed, ArtifactsThere, DoneCounted,
       IndexAbove, AtCheckpoint, Started
<1>5. CASE call.item \notin Single
  <2>1. /\ call' # NoCall /\ call'.item = call.item /\ call'.at = "checkpoint"
        /\ call'.done = call.done \cup {call.now[2]}
        /\ call'.now = call.now /\ call'.idx = call.idx
        /\ row' = [row EXCEPT ![call.item].marker = call.done \cup {call.now[2]}]
    BY <1>5, CompletedMoves
  <2>2. /\ row'[call.item].marker = call.done \cup {call.now[2]}
        /\ \A j \in Item : row'[j].status = row[j].status
        /\ \A j \in Item : j # call.item => row'[j] = row[j]
    BY <1>2, <2>1 DEF RecoveryTypeOK
  <2>3. Undecided' = {call.now}
    BY <2>1 DEF Undecided, At
  <2>4. DoneCounted'
    <3> SUFFICES ASSUME NEW u \in Unit \ owed, u[1] = call.item PROVE u[2] \in call'.done
      BY <1>1, <2>1 DEF DoneCounted
    <3>1. u # call.now => u[2] \in call.done
      BY <1>2 DEF ReplayInv, DoneCounted, Started
    <3> QED
      BY <2>1, <3>1
  <2>5. TracesLeft'
    <3> SUFFICES ASSUME NEW u \in Unit, u \notin owed, u # call.now PROVE Recorded(u)'
      BY <1>1, <2>3 DEF TracesLeft
    <3>1. u[1] \in Item /\ Recorded(u)
      BY <1>3, UnitParts DEF ReplayInv, TracesLeft
    <3>2. u[1] = call.item => u[2] \in call.done
      BY <1>2 DEF ReplayInv, DoneCounted, Started
    <3> QED
      BY <1>1, <2>2, <3>1, <3>2 DEF Recorded, Newest
  <2>6. MarkerFirst'
    BY <1>1, <1>2, <2>2, CheckpointFields DEF ReplayInv, MarkerFirst
  <2>7. AtCheckpoint' /\ IndexAbove'
    BY <1>1, <1>2, <1>5, <2>1, <2>2 DEF AtCheckpoint, IndexAbove, ReplayInv, Started
  <2> QED
    BY <1>1, <2>4, <2>5, <2>6, <2>7 DEF ReplayInv, ReplaysAreOwed, ArtifactsThere
<1> QED
  BY <1>4, <1>5

LEMMA ReplaySave ==
  ASSUME RecoveryTypeOK, ReplayInv, SaveCheckpoint
  PROVE  ReplayInv'
<1>1. UNCHANGED <<row, file, owed, work, answer>>
  BY DEF SaveCheckpoint, worldVars, workerVars, auxVars
<1>2. /\ call \in CallRecord /\ call.at = "checkpoint" /\ call # NoCall
      /\ call' # NoCall /\ call'.item = call.item /\ call'.at = "step"
      /\ call'.done = call.done /\ call'.idx = call.idx + 1
  BY SaveMoves
<1>3. call.idx \in Nat /\ call.item \in Item
  BY <1>2, CallFields
<1>4. /\ NewCheckpoint.item = call.item /\ NewCheckpoint.idx = call.idx + 1
      /\ NewCheckpoint.done = call.done
  BY DEF NewCheckpoint
<1>5. /\ DOMAIN cps \subseteq DOMAIN cps'
      /\ \A n \in DOMAIN cps' :
           cps'[n] = NewCheckpoint \/ (n \in DOMAIN cps /\ cps'[n] = cps[n])
      /\ \E n \in DOMAIN cps' : cps'[n] = NewCheckpoint
  BY SavedRows
<1>6. \A n \in DOMAIN cps : cps[n].item = call.item => cps[n].idx <= call.idx
  BY <1>2 DEF ReplayInv, IndexAbove, Started
<1>7. /\ call.item \notin Single /\ call.now[2] \in call.done
      /\ row[call.item].marker = call.done
  BY <1>2 DEF ReplayInv, AtCheckpoint
<1>8. call.now \in Unit /\ call.now[1] = call.item /\ Undecided = {call.now}
  BY <1>2 DEF RecoveryTypeOK, Sent, Undecided, At
<1>9. \A u \in Unit \ owed : u[1] = call.item => u[2] \in call.done
  BY <1>2 DEF ReplayInv, DoneCounted, Started
<1>10. \A n \in DOMAIN cps : cps[n].idx \in Nat
  BY CheckpointFields
<1> HIDE DEF NewCheckpoint
\* No checkpoint of another item is overwritten.
<1>11. \A n \in DOMAIN cps : cps[n].item # call.item => cps'[n] = cps[n]
  <2> SUFFICES ASSUME NEW n \in DOMAIN cps, cps[n].item # call.item PROVE cps'[n] = cps[n]
    OBVIOUS
  <2>1. \/ cps' = Append(cps, NewCheckpoint)
        \/ cps'[n] = cps[n]
    BY DEF SaveCheckpoint, NewCheckpoint
  <2> QED
    BY <2>1 DEF RecoveryTypeOK
<1>12. \A n \in DOMAIN cps' : Newest(n, call.item)' => cps'[n] = NewCheckpoint
  <2> SUFFICES ASSUME NEW n \in DOMAIN cps', Newest(n, call.item)', cps'[n] # NewCheckpoint
               PROVE  FALSE
    OBVIOUS
  <2>1. n \in DOMAIN cps /\ cps'[n] = cps[n]
    BY <1>5
  <2>2. cps[n].item = call.item /\ call.idx + 1 <= cps[n].idx
    <3>1. PICK m \in DOMAIN cps' : cps'[m] = NewCheckpoint
      BY <1>5
    <3> QED
      BY <1>2, <1>4, <2>1, <3>1 DEF Newest
  <2> QED
    BY <1>3, <1>6, <1>10, <2>1, <2>2
<1>13. TracesLeft'
  <2> SUFFICES ASSUME NEW u \in Unit, u \notin owed PROVE Recorded(u)'
    BY <1>1 DEF TracesLeft
  <2>1. CASE u[1] = call.item
    BY <1>1, <1>2, <1>4, <1>7, <1>9, <1>12, <2>1 DEF Recorded, Newest
  <2>2. CASE u[1] # call.item
    <3>1. Recorded(u)
      BY <1>8, <2>2 DEF ReplayInv, TracesLeft
    <3>2. ASSUME NEW n \in DOMAIN cps', Newest(n, u[1])'
          PROVE  n \in DOMAIN cps /\ cps'[n] = cps[n] /\ Newest(n, u[1])
      <4>1. n \in DOMAIN cps /\ cps'[n] = cps[n]
        BY <1>4, <1>5, <2>2, <3>2 DEF Newest
      <4>2. \A m \in DOMAIN cps : cps[m].item = u[1] => cps'[m] = cps[m] /\ m \in DOMAIN cps'
        BY <1>5, <1>11, <2>2
      <4> QED
        BY <3>2, <4>1, <4>2 DEF Newest
    <3> QED
      BY <1>1, <3>1, <3>2 DEF Recorded
  <2> QED
    BY <2>1, <2>2
<1>14. DoneCounted'
  BY <1>1, <1>2, <1>9 DEF DoneCounted
<1>15. IndexAbove'
  BY <1>2, <1>3, <1>4, <1>5, <1>6, <1>10 DEF IndexAbove
<1>16. MarkerFirst'
  BY <1>1, <1>4, <1>5, <1>7 DEF ReplayInv, MarkerFirst
<1> QED
  BY <1>1, <1>2, <1>13, <1>14, <1>15, <1>16 DEF ReplayInv, ReplaysAreOwed, ArtifactsThere,
     AtCheckpoint

LEMMA ReplayRuns ==
  ASSUME RecoveryTypeOK, WorkInv, ReplayInv, NEW st \in {"COMPLETED", "FAILED"},
         NEW f \in FileState, WorkerRuns(st, f)
  PROVE  ReplayInv'
<1>1. UNCHANGED <<row, cps, call>> /\ answer' # "none" /\ work \in Unit
  BY DEF WorkerRuns, RecoveryTypeOK
<1>2. UNCHANGED Undecided
  BY <1>1 DEF Undecided, At
<1>3. \A u \in Unit : u \in owed /\ u \notin owed' =>
        call # NoCall /\ call.at = "wait" /\ u = call.now /\ u \in Undecided
  BY RecoveryAssumption DEF WorkerRuns, WorkInv, At, Undecided
<1>4. \A u \in Unit : Recorded(u)' = Recorded(u)
  BY <1>1 DEF Recorded, Newest
<1>5. TracesLeft'
  BY <1>2, <1>3, <1>4 DEF ReplayInv, TracesLeft
<1>6. DoneCounted'
  BY <1>1, <1>3 DEF ReplayInv, DoneCounted, Started
<1>7. ArtifactsThere'
  <2> SUFFICES ASSUME NEW u \in Unit, u \notin owed', PathOf[u] # NoPath
               PROVE  file'[PathOf[u]] = "full"
    BY DEF ArtifactsThere
  <2>1. PathOf[u] \in Path
    BY RecoveryAssumption
  <2>2. CASE PathOf[work] = PathOf[u]
    <3>1. f = "full"
      BY <2>2 DEF WorkerRuns, Declaring
    <3> QED
      BY <2>1, <2>2, <3>1 DEF WorkerRuns, RecoveryTypeOK
  <2>3. CASE PathOf[work] # PathOf[u]
    <3>1. u # work /\ u \notin owed
      BY <2>3 DEF WorkerRuns
    <3>2. file[PathOf[u]] = "full"
      BY <3>1 DEF ReplayInv, ArtifactsThere
    <3> QED
      BY <2>1, <2>3, <3>2 DEF WorkerRuns, RecoveryTypeOK
  <2> QED
    BY <2>2, <2>3
<1> QED
  BY <1>1, <1>5, <1>6, <1>7 DEF ReplayInv, ReplaysAreOwed, IndexAbove, MarkerFirst,
     AtCheckpoint, Started

\* An artifact vanishes between resumes: the steps that declare it are owed.
LEMMA ReplayArtifactLost ==
  ASSUME RecoveryTypeOK, ReplayInv, NEW p \in Path, ArtifactLost(p)
  PROVE  ReplayInv'
<1>1. /\ UNCHANGED <<row, cps, call, work, answer>> /\ call = NoCall
      /\ owed' = owed \cup Declaring(p)
      /\ \E f \in {"absent", "empty"} : file' = [file EXCEPT ![p] = f]
  BY DEF ArtifactLost, Owe, workerVars
<1>2. \A u \in Unit : Recorded(u)' = Recorded(u)
  BY <1>1 DEF Recorded, Newest
<1>3. Undecided = {}
  BY <1>1 DEF Undecided, At
<1>4. ArtifactsThere'
  BY <1>1, RecoveryAssumption DEF ReplayInv, ArtifactsThere, Declaring, RecoveryTypeOK
<1> QED
  BY <1>1, <1>2, <1>3, <1>4 DEF ReplayInv, ReplaysAreOwed, TracesLeft, DoneCounted,
     IndexAbove, MarkerFirst, AtCheckpoint, Started

\* Reconciliations change the status of items that are not COMPLETED.
LEMMA ReplayReconciled ==
  ASSUME RecoveryTypeOK, ReplayInv, call = NoCall,
         UNCHANGED <<cps, file, work, answer, call, owed>>,
         \A j \in Item : /\ row'[j].marker = row[j].marker
                         /\ row[j].status = "COMPLETED" => row'[j].status = "COMPLETED"
  PROVE  ReplayInv'
<1>1. \A u \in Unit : Recorded(u) => Recorded(u)'
  BY UnitParts DEF Recorded, Newest
<1>2. Undecided = {}
  BY DEF Undecided, At
<1>3. MarkerFirst'
  BY CheckpointFields DEF ReplayInv, MarkerFirst
<1> QED
  BY <1>1, <1>2, <1>3 DEF ReplayInv, ReplaysAreOwed, ArtifactsThere, TracesLeft, DoneCounted,
     IndexAbove, AtCheckpoint, Started

LEMMA ReplayNext ==
  RecoveryTypeOK /\ ClaimInv /\ WorkInv /\ ReplayInv /\ [Next]_vars => ReplayInv'
<1> SUFFICES ASSUME RecoveryTypeOK, ClaimInv, WorkInv, ReplayInv, [Next]_vars PROVE ReplayInv'
  OBVIOUS
<1>s. {"PENDING", "DISPATCHED", "RUNNING", "COMPLETED", "FAILED"} \subseteq Status
  BY DEF Status
<1>1. ASSUME NEW i \in Item, MarkTaskResuming(i) PROVE ReplayInv'
  BY <1>1, ReplayMark
<1>2. CASE WorkerReady
  BY <1>2, ReplayReady
<1>3. CASE WorkerNotSafe
  BY <1>3, <1>s, ReplayReturned
  DEF WorkerNotSafe, At, Return, Undecided, worldVars, workerVars, auxVars
<1>4. CASE AuditCheckpoint
  BY <1>4, ReplayAudit
<1>5. CASE Preflight
  BY <1>5, ReplayPreflight
<1>6. CASE NoAuthority
  BY <1>6, <1>s, ReplayReturned
  DEF NoAuthority, At, Return, Undecided, worldVars, workerVars, auxVars
<1>7. ASSUME NEW u \in Unit, DispatchStep(u) PROVE ReplayInv'
  BY <1>7, ReplayDispatch
<1>8. CASE StepCompleted \/ SingleCompleted
  BY <1>8, ReplayCompleted
<1>9. CASE SaveCheckpoint
  BY <1>9, ReplaySave
<1>10. CASE AllStepsDone
  BY <1>10, <1>s, ReplayReturned
  DEF AllStepsDone, At, Return, Undecided, worldVars, workerVars, auxVars
<1>11. CASE StepFails
  <2>1. /\ call # NoCall /\ SetStatus(call.item, "FAILED") /\ call' = NoCall
        /\ UNCHANGED <<cps, file>> /\ owed' = owed \cup Undecided
        /\ work' = NoWork \/ UNCHANGED <<work, answer>>
    BY <1>11 DEF StepFails, At, Return, Owe, worldVars
  <2> QED
    BY <2>1, <1>s, ReplayReturned
<1>12. ASSUME NEW st \in {"COMPLETED", "FAILED"}, NEW f \in FileState, WorkerRuns(st, f)
       PROVE ReplayInv'
  BY <1>12, ReplayRuns
<1>13. CASE CallLost
  BY <1>13, ReplayLost DEF CallLost, Return, Owe, worldVars, workerVars
<1>14. CASE SupervisorDies
  BY <1>14, ReplayLost DEF SupervisorDies, Return, Owe, worldVars
<1>15. CASE WorkerExits
  BY <1>15, ReplayFrame DEF WorkerExits, worldVars, auxVars
<1>16. CASE HeadMoves
  BY <1>16, ReplayFrame DEF HeadMoves, workerVars, auxVars
<1>17. ASSUME NEW p \in Path, ArtifactLost(p) PROVE ReplayInv'
  BY <1>17, ReplayArtifactLost
<1>18. ASSUME NEW u \in Command, NEW st \in {"APPROVED", "REJECTED", "EXPIRED"}, Decide(u, st)
       PROVE ReplayInv'
  BY <1>18, ReplayFrame DEF Decide, worldVars, workerVars
<1>19. CASE ReapLateResult
  BY <1>19, ReplayFrame DEF ReapLateResult, worldVars, auxVars
<1>20. ASSUME NEW b \in BOOLEAN, ReconcileTeamAfterCrash(b) PROVE ReplayInv'
  <2>1. /\ call = NoCall /\ UNCHANGED <<cps, file, work, answer, call, owed>>
        /\ \A j \in Item : /\ row'[j].marker = row[j].marker
                           /\ row[j].status = "COMPLETED" => row'[j].status = "COMPLETED"
    BY <1>20 DEF ReconcileTeamAfterCrash, RecoveryTypeOK, worldVars
  <2> QED
    BY <2>1, ReplayReconciled
<1>21. ASSUME NEW i \in Item, NEW st \in {"PENDING", "COMPLETED", "FAILED"},
              ReconcileAmbiguousTask(i, st)
       PROVE ReplayInv'
  <2>1. /\ call = NoCall /\ UNCHANGED <<cps, file, work, answer, call, owed>>
        /\ row[i].status # "COMPLETED" /\ SetStatus(i, st)
    BY <1>21 DEF ReconcileAmbiguousTask, worldVars, workerVars
  <2>2. \A j \in Item : /\ row'[j].marker = row[j].marker
                        /\ row[j].status = "COMPLETED" => row'[j].status = "COMPLETED"
    BY <2>1, <1>s, StatusKeepsType
  <2> QED
    BY <2>1, <2>2, ReplayReconciled
<1>22. CASE UNCHANGED vars
  BY <1>22, ReplayFrame DEF vars, worldVars, workerVars, auxVars
<1> QED
  BY <1>1, <1>2, <1>3, <1>4, <1>5, <1>6, <1>7, <1>8, <1>9, <1>10, <1>11, <1>12, <1>13,
     <1>14, <1>15, <1>16, <1>17, <1>18, <1>19, <1>20, <1>21, <1>22 DEF Next, ResumeStep

-----------------------------------------------------------------------------
(***************************************************************************)
(* RecoveryTypes: resume, reconciliation and faults keep the types of the  *)
(* rows, checkpoints and worktree, and a resume knows the step it sent.    *)
(***************************************************************************)
THEOREM RecoveryTypes == Spec => []RecoveryTypeOK
<1> QED
  BY TypeInit, TypeNext, PTL DEF Spec

(***************************************************************************)
(* ResumeReleasesClaims: every return of resume_task_from_checkpoint gives *)
(* the item back; only a resume that died leaves it RUNNING.               *)
(***************************************************************************)
THEOREM ResumeReleasesClaims == Spec => []ClaimsAreReleased
<1>1. Init => ClaimInv
  BY DEF Init, ClaimInv, ClaimsAreReleased
<1>2. ClaimInv => ClaimsAreReleased
  BY DEF ClaimInv
<1> QED
  BY <1>1, <1>2, TypeInit, TypeNext, ClaimNext, PTL DEF Spec

(***************************************************************************)
(* NoFalseCompletion: no checkpoint of another dispatch, lost resume or    *)
(* other commit makes resume_task_from_checkpoint complete an item whose   *)
(* steps have not all been run.                                            *)
(***************************************************************************)
THEOREM NoFalseCompletion == Spec => []CompletedMeansRun
<1>1. Init => WorkInv /\ DoneInv
  BY DEF Init, WorkInv, DoneInv, CompletedMeansRun
<1>2. DoneInv => CompletedMeansRun
  BY DEF DoneInv
<1> QED
  BY <1>1, <1>2, TypeInit, TypeNext, WorkNext, DoneNext, PTL DEF Spec

(***************************************************************************)
(* CommandRunsAreApproved: the approval consumed when a command step is    *)
(* dispatched licenses that one run, whatever deadlines pass and resumes   *)
(* or supervisors come and go before the worker gets to it.                *)
(***************************************************************************)
THEOREM CommandRunsAreApproved == Spec => []EveryRunApproved
<1>1. Init => WorkInv /\ ApprovalInv
  BY RecoveryAssumption DEF Init, WorkInv, ApprovalInv
<1>2. ApprovalInv => EveryRunApproved
  BY DEF ApprovalInv, EveryRunApproved
<1> QED
  BY <1>1, <1>2, TypeInit, TypeNext, WorkNext, ApprovalNext, PTL DEF Spec

(***************************************************************************)
(* NoGratuitousReplay: marker and checkpoints together keep every step     *)
(* from being sent again, unless its resume ended before its checkpoint,   *)
(* its artifact is gone or the finished task shows no evidence.            *)
(***************************************************************************)
THEOREM NoGratuitousReplay == Spec => []ReplaysAreOwed
<1>1. Init => WorkInv /\ ClaimInv
  BY DEF Init, WorkInv, ClaimInv, ClaimsAreReleased
<1>2. Init => ReplayInv
  BY DEF Init, ReplayInv, ReplaysAreOwed, ArtifactsThere, TracesLeft, DoneCounted,
     IndexAbove, MarkerFirst, AtCheckpoint, Started
<1>3. ReplayInv => ReplaysAreOwed
  BY DEF ReplayInv
<1> QED
  BY <1>1, <1>2, <1>3, TypeInit, TypeNext, WorkNext, ClaimNext, ReplayNext, PTL DEF Spec
=============================================================================
