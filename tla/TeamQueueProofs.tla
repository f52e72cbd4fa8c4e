--------------------------- MODULE TeamQueueProofs ---------------------------
(***************************************************************************)
(* Proofs about the durable work queue, for any number of supervisors,     *)
(* workers, items, keys and notes, and any mix of calls.                   *)
(***************************************************************************)
EXTENDS TeamQueue, TLAPS

-----------------------------------------------------------------------------
(***************************************************************************)
(* The inductive invariant.  HandoffOnce and CompletionIsEvidenced say     *)
(* nothing of the rows the supervisors hold and have yet to save, nor of   *)
(* the items they are about to finalize: a stale row may be saved at any   *)
(* time, so it must be as good as the stored ones.                         *)
(***************************************************************************)
\* Work in flight has been started.
FlightStarted == \A i \in Item : Exists(i) /\ row[i].status \in InFlight => i \in started

\* What the call of c is about to write keeps the invariant.
CallSound(c) ==
  /\ Doing(c, "finalize") \/ Doing(c, "insert") =>
       Exists(call[c].item) /\ call[c].item \in started
  /\ Doing(c, "save") => \A i \in DOMAIN call[c].rows :
       call[c].rows[i].status = "COMPLETED" => handoff[i] = "result" \/ i \in vouched

QInv ==
  /\ QueueTypeOK
  /\ FlightStarted
  /\ \A c \in Caller : CallSound(c)
  /\ HandoffOnce
  /\ CompletionIsEvidenced

-----------------------------------------------------------------------------
(* The calls in progress.                                                  *)

\* The operation of a call in progress decides its fields.
LEMMA CallFields ==
  ASSUME NEW x \in InProgress
  PROVE  /\ x.op = "save" => x.rows \in HeldRows
         /\ x.op \in {"fail", "list"} =>
              /\ x.worker \in Worker
              /\ x.how \in {"interrupt", "fail", "quarantine"}
              /\ x.notes \in SUBSET Note
         /\ x.op \in {"finalize", "insert"} =>
              x.item \in Item /\ x.kind \in {"result", "fixture"}
         /\ x.op = "resume" => x.item \in Item /\ x.row \in Row /\ x.ran \in BOOLEAN
BY DEF InProgress

\* Held rows are rows of items.
LEMMA HeldRowsAre ==
  ASSUME NEW f \in HeldRows
  PROVE  DOMAIN f \subseteq Item /\ \A i \in DOMAIN f : f[i] \in Row
BY DEF HeldRows

\* Rows of some items can be held.
LEMMA RowsCanBeHeld ==
  ASSUME NEW S \in SUBSET Item, NEW g \in [S -> Row]
  PROVE  Holding(g) \in InProgress \cup {Idle}
<1>1. g \in HeldRows
  BY DEF HeldRows
<1> QED
  BY <1>1 DEF Holding, InProgress

\* A supervisor that holds rows holds exactly the given ones.
LEMMA HoldingHolds ==
  ASSUME NEW g, Holding(g) # Idle
  PROVE  Holding(g).op = "save" /\ Holding(g).rows = g
BY DEF Holding

-----------------------------------------------------------------------------
(* What every step has in common.                                          *)

\* A step keeps the invariant when it writes at most one row, a completed one
\* only with its evidence, takes no evidence back, accepts no second handoff,
\* and leaves every call sound.
LEMMA StepKeeps ==
  ASSUME QInv,
         session' \in [Worker -> WorkerStatus],
         alive' \subseteq Worker,
         vouched \subseteq vouched', vouched' \subseteq Item,
         handoff' \in [Item -> {"none", "result", "fixture"}],
         accepted' \in [Item -> Nat],
         HandoffOnce',
         \A i \in Item : handoff[i] = "result" => handoff'[i] = "result",
         call' \in [Caller -> InProgress \cup {Idle}],
         \A c \in Caller : call'[c] = call[c] \/ CallSound(c)',
         \/ UNCHANGED <<row, started>>
         \/ \E i \in Item, r \in Row :
              /\ Write(i, r)
              /\ r.status = "COMPLETED" => handoff'[i] = "result" \/ i \in vouched'
  PROVE  QInv'
<1>1. /\ row' \in [Item -> Row \cup {NoItem}]
      /\ started \subseteq started' /\ started' \subseteq Item
      /\ \A i \in Item : Exists(i) => Exists(i)'
  BY QueueAssumption DEF QInv, QueueTypeOK, Write, Exists
<1>2. QueueTypeOK'
  BY <1>1 DEF QueueTypeOK
<1>3. FlightStarted'
  BY QueueAssumption DEF QInv, QueueTypeOK, Write, Exists, FlightStarted
<1>4. CompletionIsEvidenced'
  BY QueueAssumption DEF QInv, QueueTypeOK, Write, Exists, CompletionIsEvidenced
<1>5. ASSUME NEW c \in Caller, call'[c] = call[c]
      PROVE  CallSound(c)'
  <2>1. CallSound(c)
    BY DEF QInv
  <2>2. CASE call[c] = Idle
    BY <1>5, <2>2 DEF CallSound, Doing
  <2>3. CASE call[c] # Idle
    <3>1. call[c] \in InProgress
      BY <2>3 DEF QInv, QueueTypeOK
    <3>2. (Doing(c, "finalize") \/ Doing(c, "insert"))' =>
            Exists(call[c].item)' /\ call[c].item \in started'
      BY <1>1, <1>5, <2>1, <3>1, CallFields DEF CallSound, Doing
    <3>3. Doing(c, "save")' => \A i \in DOMAIN call[c].rows :
            call[c].rows[i].status = "COMPLETED" => handoff'[i] = "result" \/ i \in vouched'
      <4>1. Doing(c, "save") => DOMAIN call[c].rows \subseteq Item
        BY <3>1, CallFields, HeldRowsAre DEF Doing
      <4> QED
        BY <1>5, <2>1, <4>1 DEF CallSound, Doing
    <3> QED
      BY <1>5, <3>2, <3>3 DEF CallSound, Doing
  <2> QED
    BY <2>2, <2>3
<1> QED
  BY <1>2, <1>3, <1>4, <1>5 DEF QInv

\* Most steps leave the handoffs alone.
LEMMA QuietStepKeeps ==
  ASSUME QInv,
         session' \in [Worker -> WorkerStatus],
         alive' \subseteq Worker,
         vouched \subseteq vouched', vouched' \subseteq Item,
         UNCHANGED <<handoff, accepted>>,
         call' \in [Caller -> InProgress \cup {Idle}],
         \A c \in Caller : call'[c] = call[c] \/ CallSound(c)',
         \/ UNCHANGED <<row, started>>
         \/ \E i \in Item, r \in Row :
              /\ Write(i, r)
              /\ r.status = "COMPLETED" => handoff'[i] = "result" \/ i \in vouched'
  PROVE  QInv'
<1>1. started \subseteq started'
  BY DEF Write
<1>2. HandoffOnce'
  BY <1>1 DEF QInv, HandoffOnce
<1> QED
  BY <1>2, StepKeeps DEF QInv, QueueTypeOK

-----------------------------------------------------------------------------
(* The calls, one lemma each.                                              *)

\* A transaction that rewrites one row and completes nothing.
LEMMA TransactionKeeps ==
  ASSUME QInv, NEW i \in Item, NEW r \in Row, r.status # "COMPLETED", Write(i, r),
         UNCHANGED <<handoff, session, alive, call, vouched, accepted>>
  PROVE  QInv'
<1>1. /\ session \in [Worker -> WorkerStatus] /\ alive \subseteq Worker
      /\ vouched \subseteq Item /\ call \in [Caller -> InProgress \cup {Idle}]
  BY DEF QInv, QueueTypeOK
<1> QED
  BY <1>1, QuietStepKeeps

\* insert_queue_item_once adds a PENDING row.
LEMMA DispatchKeeps ==
  ASSUME QInv, NEW c \in Caller, NEW i \in Item, NEW w \in Worker, NEW k \in Key \cup {NoKey},
         DispatchTask(c, i, w, k)
  PROVE  QInv'
<1> DEFINE r == [worker |-> w, key |-> k, status |-> "PENDING", notes |-> {}]
<1>1. r \in Row /\ r.status # "COMPLETED"
  BY DEF Row, Status
<1> QED
  BY <1>1, TransactionKeeps DEF DispatchTask

\* steer_queue_item_once changes the notes of an active row.
LEMMA SteerKeeps ==
  ASSUME QInv, NEW c \in Caller, NEW i \in Item, NEW n \in Note, SteerTask(c, i, n)
  PROVE  QInv'
<1> DEFINE r == [row[i] EXCEPT !.notes = @ \cup {n}]
<1>1. row[i] \in Row
  BY DEF QInv, QueueTypeOK, SteerTask, Exists
<1>2. r \in Row /\ r.status # "COMPLETED"
  BY <1>1 DEF SteerTask, Row, Active, InFlight
<1> QED
  BY <1>2, TransactionKeeps DEF SteerTask

\* cancel_active_queue_item closes an active row.
LEMMA CancelKeeps ==
  ASSUME QInv, NEW c \in Caller, NEW i \in Item, NEW reason \in Reason, CancelTask(c, i, reason)
  PROVE  QInv'
<1> DEFINE r == [row[i] EXCEPT !.status = "CANCELLED", !.notes = @ \cup reason]
<1>1. row[i] \in Row /\ reason \subseteq Note
  BY DEF QInv, QueueTypeOK, CancelTask, Exists, Reason
<1>2. r \in Row /\ r.status # "COMPLETED"
  BY <1>1 DEF Row, Status
<1> QED
  BY <1>2, TransactionKeeps DEF CancelTask

\* A call goes on, and touches nothing but sessions and processes.
LEMMA CallStepKeeps ==
  ASSUME QInv, NEW c \in Caller, NEW x \in InProgress \cup {Idle},
         call' = [call EXCEPT ![c] = x],
         CallSound(c)',
         session' \in [Worker -> WorkerStatus],
         alive' \subseteq Worker,
         vouched \subseteq vouched', vouched' \subseteq Item,
         UNCHANGED <<row, handoff, started, accepted>>
  PROVE  QInv'
<1>1. /\ call' \in [Caller -> InProgress \cup {Idle}]
      /\ \A d \in Caller : call'[d] = call[d] \/ CallSound(d)'
  BY DEF QInv, QueueTypeOK
<1> QED
  BY <1>1, QuietStepKeeps

\* A call is sound when it holds rows of which none is COMPLETED without evidence.
LEMMA HoldingIsSound ==
  ASSUME QInv, NEW c \in Caller, NEW g,
         call' = [call EXCEPT ![c] = Holding(g)],
         \A i \in DOMAIN g : g[i].status = "COMPLETED" => handoff'[i] = "result" \/ i \in vouched'
  PROVE  CallSound(c)'
<1>1. call'[c] = Holding(g)
  BY DEF QInv, QueueTypeOK
<1>2. CASE Holding(g) = Idle
  BY <1>1, <1>2 DEF CallSound, Doing
<1>3. CASE Holding(g) # Idle
  BY <1>1, <1>3, HoldingHolds DEF CallSound, Doing
<1> QED
  BY <1>2, <1>3

\* update_queue_status loads a row and changes its status in memory.
LEMMA UpdateKeeps ==
  ASSUME QInv, NEW c \in Caller, NEW i \in Item, NEW s \in Status, UpdateQueueStatus(c, i, s)
  PROVE  QInv'
<1> DEFINE g == [j \in {i} |-> InStatus(row[i], s)]
<1>1. row[i] \in Row
  BY DEF QInv, QueueTypeOK, UpdateQueueStatus, Exists
<1>2. InStatus(row[i], s) \in Row /\ InStatus(row[i], s).status = s
  BY <1>1 DEF InStatus, Row
<1>3. vouched \subseteq vouched' /\ vouched' \subseteq Item /\ (s = "COMPLETED" => i \in vouched')
  BY DEF UpdateQueueStatus, QInv, QueueTypeOK
<1>4. Holding(g) \in InProgress \cup {Idle}
  BY <1>2, RowsCanBeHeld
<1>5. call' = [call EXCEPT ![c] = Holding(g)]
  BY DEF UpdateQueueStatus
<1>6. CallSound(c)'
  <2>1. \A j \in DOMAIN g : g[j].status = "COMPLETED" => handoff'[j] = "result" \/ j \in vouched'
    BY <1>2, <1>3
  <2> QED
    BY <1>5, <2>1, HoldingIsSound
<1> QED
  BY <1>3, <1>4, <1>5, <1>6, CallStepKeeps DEF UpdateQueueStatus, QInv, QueueTypeOK

\* reconcile_ambiguous_task completes in memory only what the operator vouches for.
LEMMA ReconcileItemKeeps ==
  ASSUME QInv, NEW c \in Caller, NEW i \in Item, NEW resolution \in DOMAIN Resolved,
         ReconcileAmbiguousTask(c, i, resolution)
  PROVE  QInv'
<1> DEFINE s == Resolved[resolution]
           g == [j \in {i} |-> InStatus(row[i], s)]
<1>1. row[i] \in Row
  BY DEF QInv, QueueTypeOK, ReconcileAmbiguousTask, Exists
<1>2. s \in Status /\ (s = "COMPLETED" => resolution = "MARK_COMPLETED")
  BY DEF Resolved, Status
<1>3. InStatus(row[i], s) \in Row /\ InStatus(row[i], s).status = s
  BY <1>1, <1>2 DEF InStatus, Row
<1>4. Holding(g) \in InProgress \cup {Idle}
  BY <1>3, RowsCanBeHeld
<1>5. call' = [call EXCEPT ![c] = Holding(g)]
  BY DEF ReconcileAmbiguousTask
<1>6. vouched \subseteq vouched' /\ vouched' \subseteq Item /\ (s = "COMPLETED" => i \in vouched')
  BY <1>2 DEF ReconcileAmbiguousTask, QInv, QueueTypeOK
<1>7. CallSound(c)'
  <2>1. \A j \in DOMAIN g : g[j].status = "COMPLETED" => handoff'[j] = "result" \/ j \in vouched'
    BY <1>3, <1>6
  <2> QED
    BY <1>5, <2>1, HoldingIsSound
<1> QED
  BY <1>4, <1>5, <1>6, <1>7, CallStepKeeps DEF ReconcileAmbiguousTask, QInv, QueueTypeOK

\* The call moves on to something other than saving or finalizing.
LEMMA OtherCallIsSound ==
  ASSUME QInv, NEW c \in Caller, NEW x, call' = [call EXCEPT ![c] = x],
         x = Idle \/ x.op \in {"fail", "list", "resume"}
  PROVE  CallSound(c)'
BY DEF QInv, QueueTypeOK, CallSound, Doing

\* interrupt_worker begins with the session.
LEMMA InterruptKeeps ==
  ASSUME QInv, NEW c \in Caller, NEW w \in Worker, NEW reason \in Reason,
         InterruptWorker(c, w, reason)
  PROVE  QInv'
<1> DEFINE x == [op |-> "list", worker |-> w, how |-> "interrupt", notes |-> reason]
<1>1. x \in InProgress /\ x.op = "list"
  BY DEF InProgress, Reason
<1>2. session' \in [Worker -> WorkerStatus]
  BY DEF QInv, QueueTypeOK, InterruptWorker, WorkerStatus
<1>3. call' = [call EXCEPT ![c] = x] /\ UNCHANGED <<row, handoff, alive, started, vouched, accepted>>
  BY DEF InterruptWorker
<1>4. CallSound(c)'
  BY <1>1, <1>3, OtherCallIsSound
<1> QED
  BY <1>1, <1>2, <1>3, <1>4, CallStepKeeps DEF QInv, QueueTypeOK

\* reconcile_team_after_crash finds the worker dead.
LEMMA ReconcileTeamKeeps ==
  ASSUME QInv, NEW c \in Caller, NEW w \in Worker, NEW how \in {"fail", "quarantine"},
         ReconcileTeamAfterCrash(c, w, how)
  PROVE  QInv'
<1> DEFINE x == [op |-> "fail", worker |-> w, how |-> how, notes |-> {}]
<1>1. x \in InProgress /\ x.op = "fail"
  BY DEF InProgress
<1>2. /\ call' = [call EXCEPT ![c] = x]
      /\ UNCHANGED <<row, handoff, session, alive, started, vouched, accepted>>
  BY DEF ReconcileTeamAfterCrash
<1>3. CallSound(c)'
  BY <1>1, <1>2, OtherCallIsSound
<1> QED
  BY <1>1, <1>2, <1>3, CallStepKeeps DEF QInv, QueueTypeOK

\* reconcile_team_after_crash marks the session FAILED.
LEMMA MarkFailedKeeps ==
  ASSUME QInv, NEW c \in Caller, MarkWorkerFailed(c)
  PROVE  QInv'
<1> DEFINE x == [call[c] EXCEPT !.op = "list"]
<1>1. call[c] \in InProgress /\ call[c].op = "fail"
  BY DEF QInv, QueueTypeOK, MarkWorkerFailed, Doing
<1>2. x \in InProgress /\ x.op = "list"
  BY <1>1 DEF InProgress
<1>3. session' \in [Worker -> WorkerStatus]
  BY DEF QInv, QueueTypeOK, MarkWorkerFailed, WorkerStatus
<1>4. call' = [call EXCEPT ![c] = x] /\ UNCHANGED <<row, handoff, alive, started, vouched, accepted>>
  BY DEF MarkWorkerFailed
<1>5. CallSound(c)'
  BY <1>2, <1>4, OtherCallIsSound
<1> QED
  BY <1>2, <1>3, <1>4, <1>5, CallStepKeeps DEF QInv, QueueTypeOK

\* The rows a worker loses are changed in memory, none to COMPLETED.
LEMMA ListKeeps ==
  ASSUME QInv, NEW c \in Caller, ListQueue(c)
  PROVE  QInv'
<1> DEFINE mine == {i \in Item : /\ Exists(i)
                                /\ row[i].worker = call[c].worker
                                /\ row[i].status \in Active}
           out(i) == [row[i] EXCEPT !.status = TakenOut(call[c].how, @),
                                    !.notes = @ \cup call[c].notes]
           g == [i \in mine |-> out(i)]
<1>1. call[c] \in InProgress /\ call[c].op = "list"
  BY DEF QInv, QueueTypeOK, ListQueue, Doing
<1>2. call[c].notes \subseteq Note
  BY <1>1, CallFields
<1>3. ASSUME NEW i \in mine
      PROVE  out(i) \in Row /\ out(i).status # "COMPLETED"
  <2>1. row[i] \in Row
    BY DEF QInv, QueueTypeOK, Exists
  <2>2. /\ TakenOut(call[c].how, row[i].status) \in Status
        /\ TakenOut(call[c].how, row[i].status) # "COMPLETED"
    BY DEF TakenOut, Status
  <2> QED
    BY <1>2, <2>1, <2>2 DEF Row
<1>4. g \in [mine -> Row] /\ \A i \in DOMAIN g : g[i].status # "COMPLETED"
  BY <1>3
<1>5. /\ call' = [call EXCEPT ![c] = Holding(g)]
      /\ UNCHANGED <<row, handoff, session, alive, started, vouched, accepted>>
  BY DEF ListQueue
<1> HIDE DEF g
<1>6. Holding(g) \in InProgress \cup {Idle}
  BY <1>4, RowsCanBeHeld
<1>7. CallSound(c)'
  BY <1>4, <1>5, HoldingIsSound
<1> QED
  BY <1>5, <1>6, <1>7, CallStepKeeps DEF QInv, QueueTypeOK

\* save_queue_item writes a held row, however stale it is.
LEMMA SaveKeeps ==
  ASSUME QInv, NEW c \in Caller, NEW i \in Item, SaveQueueItem(c, i)
  PROVE  QInv'
<1> DEFINE held == call[c].rows
           g == Restrict(held, DOMAIN held \ {i})
<1>1. call[c] \in InProgress /\ call[c].op = "save" /\ i \in DOMAIN held
  BY DEF QInv, QueueTypeOK, SaveQueueItem, Doing
<1>2. DOMAIN held \subseteq Item /\ \A j \in DOMAIN held : held[j] \in Row
  BY <1>1, CallFields, HeldRowsAre
<1>3. \A j \in DOMAIN held : held[j].status = "COMPLETED" => handoff[j] = "result" \/ j \in vouched
  BY DEF QInv, CallSound, SaveQueueItem
<1>4. g \in [DOMAIN held \ {i} -> Row] /\ \A j \in DOMAIN g : g[j] = held[j]
  BY <1>2 DEF Restrict
<1>5. /\ call' = [call EXCEPT ![c] = Holding(g)]
      /\ Write(i, held[i])
      /\ UNCHANGED <<handoff, session, alive, vouched, accepted>>
  BY DEF SaveQueueItem
<1> HIDE DEF g
<1>6. Holding(g) \in InProgress \cup {Idle}
  BY <1>2, <1>4, RowsCanBeHeld
<1>7. CallSound(c)'
  <2>1. \A j \in DOMAIN g : g[j].status = "COMPLETED" => handoff'[j] = "result" \/ j \in vouched'
    BY <1>3, <1>4, <1>5
  <2> QED
    BY <1>5, <2>1, HoldingIsSound
<1>8. /\ call' \in [Caller -> InProgress \cup {Idle}]
      /\ \A d \in Caller : call'[d] = call[d] \/ CallSound(d)'
  BY <1>5, <1>6, <1>7 DEF QInv, QueueTypeOK
<1>9. held[i] \in Row /\ (held[i].status = "COMPLETED" => handoff'[i] = "result" \/ i \in vouched')
  BY <1>1, <1>2, <1>3, <1>5
<1>10. \E j \in Item, r \in Row :
         Write(j, r) /\ (r.status = "COMPLETED" => handoff'[j] = "result" \/ j \in vouched')
  BY <1>5, <1>9
<1>11. /\ session' \in [Worker -> WorkerStatus] /\ alive' \subseteq Worker
       /\ vouched \subseteq vouched' /\ vouched' \subseteq Item /\ UNCHANGED <<handoff, accepted>>
  BY <1>5 DEF QInv, QueueTypeOK
<1> QED
  BY <1>8, <1>10, <1>11, QuietStepKeeps

\* set_worker_status touches the session only.
LEMMA SetWorkerKeeps ==
  ASSUME QInv, NEW c \in Caller, NEW w \in Worker, NEW s \in Marks, SetWorkerStatus(c, w, s)
  PROVE  QInv'
<1>1. session' \in [Worker -> WorkerStatus]
  BY QueueAssumption DEF QInv, QueueTypeOK, SetWorkerStatus
<1> QED
  BY <1>1, QuietStepKeeps DEF QInv, QueueTypeOK, SetWorkerStatus

\* submit_worker_handoff goes on only for work in flight.
LEMMA SubmitKeeps ==
  ASSUME QInv, NEW c \in Caller, NEW i \in Item, NEW kind \in {"result", "fixture"},
         SubmitWorkerHandoff(c, i, kind)
  PROVE  QInv'
<1> DEFINE x == [op |-> "finalize", item |-> i, kind |-> kind]
<1>1. x \in InProgress /\ x.op = "finalize" /\ x.item = i
  BY DEF InProgress
<1>2. /\ call' = [call EXCEPT ![c] = x]
      /\ UNCHANGED <<row, handoff, session, alive, started, vouched, accepted>>
  BY DEF SubmitWorkerHandoff
<1>3. Exists(i) /\ i \in started
  BY DEF SubmitWorkerHandoff, HandoffAllowed, QInv, FlightStarted
<1>4. CallSound(c)'
  <2>1. call'[c] = x
    BY <1>2 DEF QInv, QueueTypeOK
  <2> QED
    BY <1>1, <1>2, <1>3, <2>1 DEF CallSound, Doing, Exists
<1> QED
  BY <1>1, <1>2, <1>4, CallStepKeeps DEF QInv, QueueTypeOK

\* The SELECTs of finalize_handoff_transaction.
LEMMA FinalizeChecksKeeps ==
  ASSUME QInv, NEW c \in Caller, FinalizeChecks(c)
  PROVE  QInv'
<1> DEFINE x == [call[c] EXCEPT !.op = "insert"]
<1>1. call[c] \in InProgress /\ call[c].op = "finalize"
  BY DEF QInv, QueueTypeOK, FinalizeChecks, Doing
<1>2. x \in InProgress /\ x.op = "insert" /\ x.item = call[c].item
  BY <1>1 DEF InProgress
<1>3. /\ call' = [call EXCEPT ![c] = x]
      /\ UNCHANGED <<row, handoff, session, alive, started, vouched, accepted>>
  BY DEF FinalizeChecks
<1>4. Exists(call[c].item) /\ call[c].item \in started
  BY DEF FinalizeChecks, QInv, CallSound
<1>5. CallSound(c)'
  <2>1. call'[c] = x
    BY <1>3 DEF QInv, QueueTypeOK
  <2> HIDE DEF x
  <2> QED
    BY <1>2, <1>3, <1>4, <2>1 DEF CallSound, Doing, Exists
<1> QED
  BY <1>2, <1>3, <1>5, CallStepKeeps DEF QInv, QueueTypeOK

\* The transaction of finalize_handoff_transaction inserts the first handoff.
LEMMA FinalizeWritesKeeps ==
  ASSUME QInv, NEW c \in Caller, FinalizeWrites(c)
  PROVE  QInv'
<1> DEFINE i == call[c].item
<1>1. call[c] \in InProgress /\ call[c].op = "insert"
  BY DEF QInv, QueueTypeOK, FinalizeWrites, Doing
<1>2. i \in Item /\ call[c].kind \in {"result", "fixture"}
  BY <1>1, CallFields
<1>3. i \in started /\ row[i] \in Row
  BY <1>2 DEF FinalizeWrites, QInv, QueueTypeOK, CallSound, Exists
<1>4. /\ handoff[i] = "none"
      /\ handoff' = [handoff EXCEPT ![i] = call[c].kind]
      /\ accepted' = [accepted EXCEPT ![i] = @ + 1]
      /\ session' = [session EXCEPT ![row[i].worker] = "IDLE"]
      /\ call' = [call EXCEPT ![c] = Idle]
      /\ UNCHANGED <<alive, vouched>>
  BY DEF FinalizeWrites, HandoffInserts, Done
<1>5. \/ UNCHANGED <<row, started>>
      \/ call[c].kind = "result" /\ Write(i, InStatus(row[i], "COMPLETED"))
  BY DEF FinalizeWrites
<1>6. InStatus(row[i], "COMPLETED") \in Row
  BY <1>3 DEF InStatus, Row, Status
<1>7. /\ handoff' \in [Item -> {"none", "result", "fixture"}]
      /\ accepted' \in [Item -> Nat]
      /\ session' \in [Worker -> WorkerStatus]
      /\ alive' \subseteq Worker
      /\ vouched \subseteq vouched' /\ vouched' \subseteq Item
      /\ call' \in [Caller -> InProgress \cup {Idle}]
      /\ \A j \in Item : handoff[j] = "result" => handoff'[j] = "result"
  <2>1. handoff' \in [Item -> {"none", "result", "fixture"}]
    BY <1>2, <1>4 DEF QInv, QueueTypeOK
  <2>2. accepted' \in [Item -> Nat]
    BY <1>2, <1>4 DEF QInv, QueueTypeOK
  <2>3. session' \in [Worker -> WorkerStatus]
    BY <1>4 DEF QInv, QueueTypeOK, WorkerStatus
  <2>4. call' \in [Caller -> InProgress \cup {Idle}]
    BY <1>4 DEF QInv, QueueTypeOK
  <2>5. \A j \in Item : handoff[j] = "result" => handoff'[j] = "result"
    BY <1>2, <1>4 DEF QInv, QueueTypeOK
  <2> QED
    BY <1>4, <2>1, <2>2, <2>3, <2>4, <2>5 DEF QInv, QueueTypeOK
<1>8. HandoffOnce'
  <2>1. started \subseteq started'
    BY <1>5 DEF Write
  <2> QED
    BY <1>2, <1>3, <1>4, <2>1 DEF QInv, QueueTypeOK, HandoffOnce
<1>9. CallSound(c)'
  BY <1>4, OtherCallIsSound
<1>10. \A d \in Caller : call'[d] = call[d] \/ CallSound(d)'
  BY <1>4, <1>9 DEF QInv, QueueTypeOK
<1>11. \/ UNCHANGED <<row, started>>
       \/ \E j \in Item, r \in Row :
            Write(j, r) /\ (r.status = "COMPLETED" => handoff'[j] = "result" \/ j \in vouched')
  <2>1. CASE call[c].kind = "result" /\ Write(i, InStatus(row[i], "COMPLETED"))
    <3>1. handoff'[i] = "result"
      BY <1>2, <1>4, <2>1 DEF QInv, QueueTypeOK
    <3> QED
      BY <1>2, <1>6, <2>1, <3>1
  <2> QED
    BY <1>5, <2>1
<1> HIDE DEF i
<1> QED
  BY <1>7, <1>8, <1>10, <1>11, StepKeeps

\* mark_task_resuming puts the item in flight.
LEMMA ResumeClaimKeeps ==
  ASSUME QInv, NEW c \in Caller, NEW i \in Item, MarkTaskResuming(c, i)
  PROVE  QInv'
<1> DEFINE x == [op |-> "resume", item |-> i, row |-> row[i], ran |-> FALSE]
           r == InStatus(row[i], "RUNNING")
<1>1. row[i] \in Row
  BY DEF QInv, QueueTypeOK, MarkTaskResuming, Exists
<1>2. r \in Row /\ r.status # "COMPLETED"
  BY <1>1 DEF InStatus, Row, Status
<1>3. x \in InProgress /\ x.op = "resume"
  BY <1>1 DEF InProgress
<1>4. /\ Write(i, r) /\ call' = [call EXCEPT ![c] = x]
      /\ UNCHANGED <<handoff, session, alive, vouched, accepted>>
  BY DEF MarkTaskResuming
<1>5. CallSound(c)'
  BY <1>3, <1>4, OtherCallIsSound
<1>6. /\ call' \in [Caller -> InProgress \cup {Idle}]
      /\ \A d \in Caller : call'[d] = call[d] \/ CallSound(d)'
  BY <1>3, <1>4, <1>5 DEF QInv, QueueTypeOK
<1>7. \E j \in Item, q \in Row :
        Write(j, q) /\ (q.status = "COMPLETED" => handoff'[j] = "result" \/ j \in vouched')
  BY <1>2, <1>4
<1>8. /\ session' \in [Worker -> WorkerStatus] /\ alive' \subseteq Worker
      /\ vouched \subseteq vouched' /\ vouched' \subseteq Item /\ UNCHANGED <<handoff, accepted>>
  BY <1>4 DEF QInv, QueueTypeOK
<1> QED
  BY <1>6, <1>7, <1>8, QuietStepKeeps

\* A resume starts or reuses the worker.
LEMMA ResumeWorkerKeeps ==
  ASSUME QInv, NEW c \in Caller, ResumeWorker(c)
  PROVE  QInv'
<1>1. call[c] \in InProgress /\ call[c].op = "resume"
  BY DEF QInv, QueueTypeOK, ResumeWorker, Doing
<1>2. call[c].row.worker \in Worker
  BY <1>1, CallFields DEF Row
<1>3. session' \in [Worker -> WorkerStatus] /\ alive' \subseteq Worker
  BY <1>2 DEF QInv, QueueTypeOK, ResumeWorker, WorkerStatus
<1> QED
  BY <1>3, QuietStepKeeps DEF QInv, QueueTypeOK, ResumeWorker

\* Both ways a resume goes on after a save.
LEMMA ResumeSaveKeeps ==
  ASSUME QInv, NEW c \in Caller, NEW s \in Status, NEW x \in InProgress \cup {Idle},
         ResumeSave(c, s),
         call' = [call EXCEPT ![c] = x],
         x = Idle \/ x.op = "resume",
         vouched' = IF s = "COMPLETED" THEN vouched \cup {call[c].item} ELSE vouched
  PROVE  QInv'
<1> DEFINE i == call[c].item
           r == InStatus(call[c].row, s)
<1>1. call[c] \in InProgress /\ call[c].op = "resume"
  BY DEF QInv, QueueTypeOK, ResumeSave, Doing
<1>2. i \in Item /\ call[c].row \in Row
  BY <1>1, CallFields
<1>3. r \in Row /\ r.status = s
  BY <1>2 DEF InStatus, Row
<1>4. Write(i, r) /\ UNCHANGED <<handoff, session, alive, accepted>>
  BY DEF ResumeSave
<1>5. CallSound(c)'
  BY OtherCallIsSound
<1>6. /\ call' \in [Caller -> InProgress \cup {Idle}]
      /\ \A d \in Caller : call'[d] = call[d] \/ CallSound(d)'
  BY <1>5 DEF QInv, QueueTypeOK
<1>7. vouched \subseteq vouched' /\ vouched' \subseteq Item /\ (s = "COMPLETED" => i \in vouched')
  BY <1>2 DEF QInv, QueueTypeOK
<1>8. \E j \in Item, q \in Row :
        Write(j, q) /\ (q.status = "COMPLETED" => handoff'[j] = "result" \/ j \in vouched')
  <2> HIDE DEF i, r
  <2> QED
    BY <1>2, <1>3, <1>4, <1>7
<1>9. /\ session' \in [Worker -> WorkerStatus] /\ alive' \subseteq Worker
      /\ UNCHANGED <<handoff, accepted>>
  BY <1>4 DEF QInv, QueueTypeOK
<1> HIDE DEF i, r
<1> QED
  BY <1>6, <1>7, <1>8, <1>9, QuietStepKeeps

\* A resume works on.
LEMMA ResumeGoesOnKeeps ==
  ASSUME QInv, NEW c \in Caller, ResumeGoesOn(c)
  PROVE  QInv'
<1> DEFINE x == [call[c] EXCEPT !.ran = TRUE]
<1>1. call[c] \in InProgress /\ call[c].op = "resume"
  BY DEF QInv, QueueTypeOK, ResumeGoesOn, ResumeSave, Doing
<1>2. x \in InProgress /\ x.op = "resume"
  BY <1>1 DEF InProgress
<1> QED
  BY <1>2, ResumeSaveKeeps DEF ResumeGoesOn, Status

\* A resume ends, and vouches for what it completes.
LEMMA ResumeStopsKeeps ==
  ASSUME QInv, NEW c \in Caller, NEW s \in {"DISPATCHED", "FAILED", "COMPLETED"},
         ResumeStops(c, s)
  PROVE  QInv'
BY ResumeSaveKeeps DEF ResumeStops, Done, Status

\* A supervisor dies in the middle of a call.
LEMMA CallLostKeeps ==
  ASSUME QInv, NEW c \in Caller, CallLost(c)
  PROVE  QInv'
<1>1. CallSound(c)'
  BY OtherCallIsSound DEF CallLost, Done
<1> QED
  BY <1>1, CallStepKeeps DEF CallLost, Done, QInv, QueueTypeOK

\* A worker process dies.
LEMMA WorkerDiesKeeps ==
  ASSUME QInv, NEW w \in Worker, WorkerDies(w)
  PROVE  QInv'
<1>1. alive' \subseteq Worker
  BY DEF QInv, QueueTypeOK, WorkerDies
<1> QED
  BY <1>1, QuietStepKeeps DEF QInv, QueueTypeOK, WorkerDies

-----------------------------------------------------------------------------
(* The invariant, and what follows.                                        *)

\* The empty queue satisfies the invariant.
LEMMA QueueInitially == Init => QInv
<1> SUFFICES ASSUME Init PROVE QInv
  OBVIOUS
<1>1. QueueTypeOK
  BY DEF Init, QueueTypeOK, WorkerStatus
<1>2. \A i \in Item : ~Exists(i)
  BY DEF Init, Exists
<1>3. \A c \in Caller : CallSound(c)
  BY DEF Init, CallSound, Doing
<1> QED
  BY <1>1, <1>2, <1>3 DEF Init, QInv, FlightStarted, HandoffOnce, CompletionIsEvidenced

\* Every step of every supervisor and every worker keeps it.
LEMMA QueueNextKeeps == QInv /\ [Next]_vars => QInv'
<1> SUFFICES ASSUME QInv, [Next]_vars PROVE QInv'
  OBVIOUS
<1>1. ASSUME NEW c \in Caller, NEW i \in Item, ItemCall(c, i)
      PROVE  QInv'
  BY <1>1, DispatchKeeps, SteerKeeps, CancelKeeps, UpdateKeeps, ReconcileItemKeeps, SubmitKeeps,
     ResumeClaimKeeps, SaveKeeps DEF ItemCall
<1>2. ASSUME NEW c \in Caller, NEW w \in Worker, WorkerCall(c, w)
      PROVE  QInv'
  BY <1>2, InterruptKeeps, ReconcileTeamKeeps, SetWorkerKeeps DEF WorkerCall
<1>3. ASSUME NEW c \in Caller, CallGoesOn(c)
      PROVE  QInv'
  BY <1>3, MarkFailedKeeps, ListKeeps, FinalizeChecksKeeps, FinalizeWritesKeeps,
     ResumeWorkerKeeps, ResumeGoesOnKeeps, ResumeStopsKeeps, CallLostKeeps DEF CallGoesOn
<1>4. ASSUME NEW w \in Worker, WorkerDies(w)
      PROVE  QInv'
  BY <1>4, WorkerDiesKeeps
<1>5. CASE UNCHANGED vars
  <2>1. /\ session' \in [Worker -> WorkerStatus] /\ alive' \subseteq Worker
        /\ vouched' \subseteq Item /\ call' \in [Caller -> InProgress \cup {Idle}]
    BY <1>5 DEF vars, QInv, QueueTypeOK
  <2> QED
    BY <1>5, <2>1, QuietStepKeeps DEF vars
<1> QED
  BY <1>1, <1>2, <1>3, <1>4, <1>5 DEF Next

\* The inductive invariant holds in every reachable state of the queue.
THEOREM QueueInvariance == Spec => []QInv
BY QueueInitially, QueueNextKeeps, PTL DEF Spec

\* The tables and the calls of TeamStore keep their types: no call finds a row
\* missing that it has read before.
THEOREM QueueTypeCorrect == Spec => []QueueTypeOK
<1>1. QInv => QueueTypeOK
  BY DEF QInv
<1> QED
  BY <1>1, QueueInvariance, PTL

\* finalize_handoff_transaction acknowledges at most one handoff of a dispatch,
\* and only of work that was in flight, though its checks run outside the
\* transaction: the primary key of simpul_handoffs decides.
THEOREM OneHandoffPerDispatch == Spec => []HandoffOnce
<1>1. QInv => HandoffOnce
  BY DEF QInv
<1> QED
  BY <1>1, QueueInvariance, PTL

\* No crash, interleaving or stale save_queue_item completes an item without a
\* handed-over result, the word of a lead or an operator, or a resumed worker's report.
THEOREM NoUnevidencedCompletion == Spec => []CompletionIsEvidenced
<1>1. QInv => CompletionIsEvidenced
  BY DEF QInv
<1> QED
  BY <1>1, QueueInvariance, PTL

-----------------------------------------------------------------------------
(***************************************************************************)
(* Calls that do not overlap.  With two supervisors a stale row undoes a   *)
(* steering, a cancel or a deduplication: run queue_late_handoff shows one *)
(* such case.  With one caller, whose calls may still be cut off anywhere, *)
(* the three properties of queue_serial hold for any number of items,      *)
(* workers, keys and notes.                                                *)
(***************************************************************************)
OneCaller == \A c, d \in Caller : c = d

\* The calls that bring failed work back without the deduplication check.
RevivingCalls == {"reconcile_ambiguous_task", "resume_task_from_checkpoint"}

\* A caller of update_queue_status does not complete what is cancelled or interrupted.
UpdatesLeaveClosed ==
  <<"CANCELLED", "COMPLETED">> \notin Updates /\ <<"INTERRUPTED", "COMPLETED">> \notin Updates

\* No call and no update brings failed or cancelled work back.
ForwardOnly ==
  /\ Calls \cap RevivingCalls = {}
  /\ \A s \in Retryable, t \in Status \ Retryable : <<s, t>> \notin Updates

\* A row that may take the place of another one of the same item.
Follows(old, new) ==
  /\ new.key = old.key
  /\ old.notes \subseteq new.notes
  /\ old.status \in {"CANCELLED", "INTERRUPTED"} /\ new.status = "COMPLETED" =>
       <<old.status, new.status>> \in Updates
  /\ old.status \in Retryable /\ new.status \notin Retryable =>
       <<old.status, new.status>> \in Updates \/ Calls \cap RevivingCalls # {}

\* What the call of c has read is still so: nobody else writes.
CallFresh(c) ==
  /\ Doing(c, "save") => \A i \in DOMAIN call[c].rows :
       Exists(i) /\ Follows(row[i], call[c].rows[i])
  /\ Doing(c, "finalize") \/ Doing(c, "insert") => row[call[c].item].status \in InFlight
  /\ Doing(c, "resume") =>
       /\ Exists(call[c].item)
       /\ row[call[c].item] = InStatus(call[c].row, "RUNNING")

SerialInv == \A c \in Caller : CallFresh(c)

\* Every row stays or is followed, and none appears.
RowsFollow ==
  \A j \in Item :
    /\ Exists(j) => row'[j] # NoItem /\ Follows(row[j], row'[j])
    /\ row'[j] # NoItem => Exists(j)

\* What a step of the only caller must do.
SerialStep ==
  /\ SerialInv'
  /\ \/ RowsFollow
     \/ \E c \in Caller, i \in Item, w \in Worker, k \in Key \cup {NoKey} :
          DispatchTask(c, i, w, k)

\* A row may stay as it is.
LEMMA RowsStay ==
  ASSUME UNCHANGED row
  PROVE  RowsFollow
BY DEF RowsFollow, Follows, Exists, Retryable

\* Writing one row that follows the stored one.
LEMMA WriteFollows ==
  ASSUME QInv, NEW i \in Item, NEW r \in Row, Exists(i), Follows(row[i], r), Write(i, r)
  PROVE  RowsFollow
<1>1. row' = [row EXCEPT ![i] = r] /\ r # NoItem /\ DOMAIN row = Item
  BY QueueAssumption DEF Write, QInv, QueueTypeOK
<1>2. row'[i] = r /\ \A j \in Item : j # i => row'[j] = row[j]
  BY <1>1
<1>3. \A j \in Item : Follows(row[j], row[j])
  BY DEF Follows, Retryable
<1> QED
  BY <1>1, <1>2, <1>3 DEF RowsFollow, Exists

\* The stored row of an item that exists.
LEMMA StoredRow ==
  ASSUME QInv, NEW i \in Item, Exists(i)
  PROVE  row[i] \in Row
BY DEF QInv, QueueTypeOK, Exists

\* The only caller has no call under way after the step.
LEMMA NothingHeld ==
  ASSUME OneCaller, NEW c \in Caller, call'[c] = Idle
  PROVE  SerialInv'
<1>1. \A d \in Caller : d = c
  BY DEF OneCaller
<1> QED
  BY <1>1 DEF SerialInv, CallFresh, Doing

\* The only caller holds rows that follow the stored ones.
LEMMA RowsHeld ==
  ASSUME QInv, OneCaller, NEW c \in Caller, NEW g,
         call' = [call EXCEPT ![c] = Holding(g)],
         \A i \in DOMAIN g : row'[i] # NoItem /\ Follows(row'[i], g[i])
  PROVE  SerialInv'
<1>1. call'[c] = Holding(g)
  BY DEF QInv, QueueTypeOK
<1>2. CASE Holding(g) = Idle
  BY <1>1, <1>2, NothingHeld
<1>3. CASE Holding(g) # Idle
  <2>1. call'[c].op = "save" /\ call'[c].rows = g
    BY <1>1, <1>3, HoldingHolds
  <2>2. CallFresh(c)'
    BY <2>1 DEF CallFresh, Doing, Exists
  <2> QED
    BY <2>2 DEF SerialInv, OneCaller
<1> QED
  BY <1>2, <1>3

\* A step that moves the only caller's call and leaves the rows alone.
LEMMA OtherCallFresh ==
  ASSUME QInv, OneCaller, NEW c \in Caller, NEW x, call' = [call EXCEPT ![c] = x],
         x.op \in {"fail", "list"}
  PROVE  SerialInv'
<1>1. call'[c] = x
  BY DEF QInv, QueueTypeOK
<1>2. CallFresh(c)'
  BY <1>1 DEF CallFresh, Doing
<1> QED
  BY <1>2 DEF SerialInv, OneCaller

\* A transaction leaves the caller without a call, and its row follows the old one.
LEMMA TransactionSerial ==
  ASSUME QInv, OneCaller, NEW c \in Caller, call[c] = Idle, UNCHANGED call,
         NEW i \in Item, NEW r \in Row, Exists(i), Follows(row[i], r), Write(i, r)
  PROVE  SerialStep
BY NothingHeld, WriteFollows DEF SerialStep

-----------------------------------------------------------------------------
(* The calls of the only caller, one lemma each.                           *)

\* insert_queue_item_once: the one step that adds a row.
LEMMA DispatchSerial ==
  ASSUME QInv, OneCaller, NEW c \in Caller, NEW i \in Item, NEW w \in Worker,
         NEW k \in Key \cup {NoKey}, DispatchTask(c, i, w, k)
  PROVE  SerialStep
<1>1. call'[c] = Idle
  BY DEF DispatchTask, Free
<1> QED
  BY <1>1, NothingHeld DEF SerialStep

\* steer_queue_item_once adds to the notes.
LEMMA SteerSerial ==
  ASSUME QInv, OneCaller, NEW c \in Caller, NEW i \in Item, NEW n \in Note, SteerTask(c, i, n)
  PROVE  SerialStep
<1> DEFINE r == [row[i] EXCEPT !.notes = @ \cup {n}]
<1>1. row[i] \in Row /\ Exists(i)
  BY StoredRow DEF SteerTask
<1>2. r \in Row /\ Follows(row[i], r)
  BY <1>1 DEF Row, Follows, Retryable
<1>3. call[c] = Idle /\ UNCHANGED call /\ Write(i, r)
  BY DEF SteerTask, Free
<1> QED
  BY <1>1, <1>2, <1>3, TransactionSerial

\* cancel_active_queue_item closes active work and keeps its notes.
LEMMA CancelSerial ==
  ASSUME QInv, OneCaller, NEW c \in Caller, NEW i \in Item, NEW reason \in Reason,
         CancelTask(c, i, reason)
  PROVE  SerialStep
<1> DEFINE r == [row[i] EXCEPT !.status = "CANCELLED", !.notes = @ \cup reason]
<1>1. row[i] \in Row /\ Exists(i) /\ reason \subseteq Note
  BY StoredRow DEF CancelTask, Reason
<1>2. r \in Row /\ Follows(row[i], r)
  BY <1>1 DEF Row, Follows, Retryable, Status
<1>3. call[c] = Idle /\ UNCHANGED call /\ Write(i, r)
  BY DEF CancelTask, Free
<1> QED
  BY <1>1, <1>2, <1>3, TransactionSerial

\* One row is loaded, its status changed in memory.
LEMMA LoadSerial ==
  ASSUME QInv, OneCaller, NEW c \in Caller, NEW i \in Item, NEW s \in Status, Exists(i),
         Follows(row[i], InStatus(row[i], s)), UNCHANGED row,
         call' = [call EXCEPT ![c] = Holding([j \in {i} |-> InStatus(row[i], s)])]
  PROVE  SerialStep
<1> DEFINE g == [j \in {i} |-> InStatus(row[i], s)]
<1>1. \A j \in DOMAIN g : row'[j] # NoItem /\ Follows(row'[j], g[j])
  BY DEF Exists
<1> QED
  BY <1>1, RowsHeld, RowsStay DEF SerialStep

\* update_queue_status changes a status as Updates says.
LEMMA UpdateSerial ==
  ASSUME QInv, OneCaller, NEW c \in Caller, NEW i \in Item, NEW s \in Status,
         UpdateQueueStatus(c, i, s)
  PROVE  SerialStep
<1>1. row[i] \in Row /\ Exists(i) /\ <<row[i].status, s>> \in Updates
  BY StoredRow DEF UpdateQueueStatus
<1>2. Follows(row[i], InStatus(row[i], s))
  BY <1>1 DEF Row, Follows, InStatus
<1> QED
  BY <1>1, <1>2, LoadSerial DEF UpdateQueueStatus

\* reconcile_ambiguous_task may revive failed work: it is a reviving call.
LEMMA ReconcileItemSerial ==
  ASSUME QInv, OneCaller, NEW c \in Caller, NEW i \in Item, NEW resolution \in DOMAIN Resolved,
         ReconcileAmbiguousTask(c, i, resolution)
  PROVE  SerialStep
<1>1. row[i] \in Row /\ Exists(i) /\ row[i].status \in {"AMBIGUOUS", "FAILED", "DISPATCHED"}
  BY StoredRow DEF ReconcileAmbiguousTask
<1>2. Resolved[resolution] \in Status
  BY DEF Resolved, Status
<1>3. Calls \cap RevivingCalls # {}
  BY DEF ReconcileAmbiguousTask, Free, RevivingCalls
<1>4. Follows(row[i], InStatus(row[i], Resolved[resolution]))
  BY <1>1, <1>2, <1>3 DEF Row, Follows, InStatus
<1> QED
  BY <1>1, <1>2, <1>4, LoadSerial DEF ReconcileAmbiguousTask

\* interrupt_worker and reconcile_team_after_crash begin with the session.
LEMMA InterruptSerial ==
  ASSUME QInv, OneCaller, NEW c \in Caller, NEW w \in Worker, NEW reason \in Reason,
         InterruptWorker(c, w, reason)
  PROVE  SerialStep
BY OtherCallFresh, RowsStay DEF InterruptWorker, SerialStep

LEMMA ReconcileTeamSerial ==
  ASSUME QInv, OneCaller, NEW c \in Caller, NEW w \in Worker, NEW how \in {"fail", "quarantine"},
         ReconcileTeamAfterCrash(c, w, how)
  PROVE  SerialStep
BY OtherCallFresh, RowsStay DEF ReconcileTeamAfterCrash, SerialStep

LEMMA MarkFailedSerial ==
  ASSUME QInv, OneCaller, NEW c \in Caller, MarkWorkerFailed(c)
  PROVE  SerialStep
<1> DEFINE x == [call[c] EXCEPT !.op = "list"]
<1>1. call[c] \in InProgress /\ call[c].op = "fail"
  BY DEF QInv, QueueTypeOK, MarkWorkerFailed, Doing
<1>2. x.op = "list"
  BY <1>1 DEF InProgress
<1>3. call' = [call EXCEPT ![c] = x] /\ UNCHANGED row
  BY DEF MarkWorkerFailed
<1> QED
  BY <1>2, <1>3, OtherCallFresh, RowsStay DEF SerialStep

\* The rows a worker loses were active, and keep their key and notes.
LEMMA ListSerial ==
  ASSUME QInv, OneCaller, NEW c \in Caller, ListQueue(c)
  PROVE  SerialStep
<1> DEFINE mine == {i \in Item : /\ Exists(i)
                                /\ row[i].worker = call[c].worker
                                /\ row[i].status \in Active}
           out(i) == [row[i] EXCEPT !.status = TakenOut(call[c].how, @),
                                    !.notes = @ \cup call[c].notes]
           g == [i \in mine |-> out(i)]
<1>1. ASSUME NEW i \in mine
      PROVE  row'[i] # NoItem /\ Follows(row'[i], out(i))
  <2>1. row[i] \in Row /\ Exists(i) /\ row[i].status \in Active /\ UNCHANGED row
    BY StoredRow DEF ListQueue
  <2>2. /\ out(i).key = row[i].key
        /\ row[i].notes \subseteq out(i).notes
    BY <2>1 DEF Row
  <2> QED
    BY <2>1, <2>2 DEF Follows, Exists, Active, InFlight, Retryable
<1>2. \A i \in DOMAIN g : row'[i] # NoItem /\ Follows(row'[i], g[i])
  BY <1>1
<1>3. call' = [call EXCEPT ![c] = Holding(g)] /\ UNCHANGED row
  BY DEF ListQueue
<1> HIDE DEF g
<1> QED
  BY <1>2, <1>3, RowsHeld, RowsStay DEF SerialStep

\* save_queue_item writes one held row; the others still follow theirs.
LEMMA SaveSerial ==
  ASSUME QInv, OneCaller, SerialInv, NEW c \in Caller, NEW i \in Item, SaveQueueItem(c, i)
  PROVE  SerialStep
<1> DEFINE held == call[c].rows
           g == Restrict(held, DOMAIN held \ {i})
<1>1. call[c] \in InProgress /\ call[c].op = "save" /\ i \in DOMAIN held
  BY DEF QInv, QueueTypeOK, SaveQueueItem, Doing
<1>2. DOMAIN held \subseteq Item /\ \A j \in DOMAIN held : held[j] \in Row
  BY <1>1, CallFields, HeldRowsAre
<1>3. \A j \in DOMAIN held : Exists(j) /\ Follows(row[j], held[j])
  BY DEF SerialInv, CallFresh, SaveQueueItem
<1>4. DOMAIN g = DOMAIN held \ {i} /\ \A j \in DOMAIN g : g[j] = held[j]
  BY DEF Restrict
<1>5. call' = [call EXCEPT ![c] = Holding(g)] /\ Write(i, held[i])
  BY DEF SaveQueueItem
<1> HIDE DEF g
<1>6. \A j \in Item : j # i => row'[j] = row[j]
  BY <1>5 DEF Write, QInv, QueueTypeOK
<1>7. \A j \in DOMAIN g : row'[j] # NoItem /\ Follows(row'[j], g[j])
  BY <1>2, <1>3, <1>4, <1>6 DEF Exists
<1>8. SerialInv'
  BY <1>5, <1>7, RowsHeld
<1>9. RowsFollow
  BY <1>1, <1>2, <1>3, <1>5, WriteFollows
<1> QED
  BY <1>8, <1>9 DEF SerialStep

\* A step that leaves the rows and the calls alone.
LEMMA NothingMovedSerial ==
  ASSUME SerialInv, UNCHANGED <<row, call>>
  PROVE  SerialStep
<1>1. \A c \in Caller : CallFresh(c)'
  BY DEF SerialInv, CallFresh, Doing, Exists
<1> QED
  BY <1>1, RowsStay DEF SerialStep, SerialInv

\* submit_worker_handoff, and the SELECTs of finalize_handoff_transaction: the
\* item is in flight, and nobody takes it out of flight.
LEMMA SubmitSerial ==
  ASSUME QInv, OneCaller, NEW c \in Caller, NEW i \in Item, NEW kind \in {"result", "fixture"},
         SubmitWorkerHandoff(c, i, kind)
  PROVE  SerialStep
<1>1. call'[c] = [op |-> "finalize", item |-> i, kind |-> kind]
  BY DEF SubmitWorkerHandoff, QInv, QueueTypeOK
<1>2. row'[i].status \in InFlight /\ UNCHANGED row
  BY DEF SubmitWorkerHandoff, HandoffAllowed
<1>3. CallFresh(c)'
  BY <1>1, <1>2 DEF CallFresh, Doing
<1> QED
  BY <1>2, <1>3, RowsStay DEF SerialStep, SerialInv, OneCaller

LEMMA FinalizeChecksSerial ==
  ASSUME QInv, OneCaller, SerialInv, NEW c \in Caller, FinalizeChecks(c)
  PROVE  SerialStep
<1> DEFINE x == [call[c] EXCEPT !.op = "insert"]
<1>1. call[c] \in InProgress /\ call[c].op = "finalize"
  BY DEF QInv, QueueTypeOK, FinalizeChecks, Doing
<1>2. x.op = "insert" /\ x.item = call[c].item
  BY <1>1 DEF InProgress
<1>3. call'[c] = x /\ UNCHANGED row
  BY DEF FinalizeChecks, QInv, QueueTypeOK
<1>4. row[call[c].item].status \in InFlight
  BY DEF SerialInv, CallFresh, FinalizeChecks
<1>5. CallFresh(c)'
  BY <1>2, <1>3, <1>4 DEF CallFresh, Doing
<1> QED
  BY <1>3, <1>5, RowsStay DEF SerialStep, SerialInv, OneCaller

\* The transaction of a handoff completes work that is still in flight.
LEMMA FinalizeWritesSerial ==
  ASSUME QInv, OneCaller, SerialInv, NEW c \in Caller, FinalizeWrites(c)
  PROVE  SerialStep
<1> DEFINE i == call[c].item
           r == InStatus(row[i], "COMPLETED")
<1>1. call[c] \in InProgress /\ call[c].op = "insert" /\ i \in Item
  BY CallFields DEF QInv, QueueTypeOK, FinalizeWrites, Doing
<1>2. Exists(i) /\ row[i].status \in InFlight
  BY DEF SerialInv, CallFresh, FinalizeWrites, QInv, CallSound
<1>3. row[i] \in Row
  BY <1>1, <1>2, StoredRow
<1>4. r \in Row /\ Follows(row[i], r)
  BY <1>2, <1>3 DEF Row, InStatus, Follows, InFlight, Retryable, Status
<1>5. SerialInv'
  <2>1. call'[c] = Idle
    BY DEF FinalizeWrites, Done, QInv, QueueTypeOK
  <2> QED
    BY <2>1, NothingHeld
<1>6. Write(i, r) \/ UNCHANGED row
  BY DEF FinalizeWrites
<1>7. RowsFollow
  BY <1>1, <1>2, <1>4, <1>6, WriteFollows, RowsStay
<1> QED
  BY <1>5, <1>7 DEF SerialStep

\* mark_task_resuming claims the row: a reviving call.
LEMMA ResumeClaimSerial ==
  ASSUME QInv, OneCaller, NEW c \in Caller, NEW i \in Item, MarkTaskResuming(c, i)
  PROVE  SerialStep
<1> DEFINE r == InStatus(row[i], "RUNNING")
           x == [op |-> "resume", item |-> i, row |-> row[i], ran |-> FALSE]
<1>1. row[i] \in Row /\ Exists(i)
  BY StoredRow DEF MarkTaskResuming
<1>2. Calls \cap RevivingCalls # {}
  BY DEF MarkTaskResuming, Free, RevivingCalls
<1>3. r \in Row /\ Follows(row[i], r)
  BY <1>1, <1>2 DEF Row, InStatus, Follows, Status
<1>4. call'[c] = x /\ Write(i, r)
  BY DEF MarkTaskResuming, QInv, QueueTypeOK
<1>5. row'[i] = r /\ r # NoItem
  BY <1>3, <1>4, QueueAssumption DEF Write, QInv, QueueTypeOK
<1>6. CallFresh(c)'
  BY <1>4, <1>5 DEF CallFresh, Doing, Exists
<1>7. RowsFollow
  BY <1>1, <1>3, <1>4, WriteFollows
<1> QED
  BY <1>6, <1>7 DEF SerialStep, SerialInv, OneCaller

\* A resume writes back the row it was claimed with, which nobody has changed
\* since but for the claim.
LEMMA ResumeSaveFollows ==
  ASSUME QInv, SerialInv, NEW c \in Caller, NEW s \in Status, ResumeSave(c, s)
  PROVE  /\ RowsFollow
         /\ call[c] \in InProgress /\ call[c].op = "resume" /\ call[c].item \in Item
         /\ row'[call[c].item] = InStatus(call[c].row, s)
         /\ row'[call[c].item] # NoItem
<1> DEFINE i == call[c].item
           held == call[c].row
           r == InStatus(held, s)
<1>1. call[c] \in InProgress /\ call[c].op = "resume" /\ i \in Item /\ held \in Row
  BY CallFields DEF QInv, QueueTypeOK, ResumeSave, Doing
<1>2. Exists(i) /\ row[i] = InStatus(held, "RUNNING")
  BY DEF SerialInv, CallFresh, ResumeSave
<1>3. r \in Row /\ Follows(row[i], r)
  BY <1>1, <1>2 DEF Row, InStatus, Follows, Retryable
<1>4. Write(i, r)
  BY DEF ResumeSave
<1>5. RowsFollow
  BY <1>1, <1>2, <1>3, <1>4, WriteFollows
<1>6. row'[i] = r /\ r # NoItem
  BY <1>1, <1>3, <1>4, QueueAssumption DEF Write, QInv, QueueTypeOK
<1> QED
  BY <1>1, <1>5, <1>6

LEMMA ResumeGoesOnSerial ==
  ASSUME QInv, OneCaller, SerialInv, NEW c \in Caller, ResumeGoesOn(c)
  PROVE  SerialStep
<1> DEFINE x == [call[c] EXCEPT !.ran = TRUE]
<1>1. /\ RowsFollow
      /\ call[c] \in InProgress /\ call[c].op = "resume" /\ call[c].item \in Item
      /\ row'[call[c].item] = InStatus(call[c].row, "RUNNING")
      /\ row'[call[c].item] # NoItem
  BY ResumeSaveFollows DEF ResumeGoesOn, Status
<1>2. x.op = "resume" /\ x.item = call[c].item /\ x.row = call[c].row
  BY <1>1 DEF InProgress
<1>3. call'[c] = x
  BY DEF ResumeGoesOn, QInv, QueueTypeOK
<1>4. CallFresh(c)'
  BY <1>1, <1>2, <1>3 DEF CallFresh, Doing, Exists
<1> QED
  BY <1>1, <1>4 DEF SerialStep, SerialInv, OneCaller

LEMMA ResumeStopsSerial ==
  ASSUME QInv, OneCaller, SerialInv, NEW c \in Caller,
         NEW s \in {"DISPATCHED", "FAILED", "COMPLETED"}, ResumeStops(c, s)
  PROVE  SerialStep
<1>1. RowsFollow
  BY ResumeSaveFollows DEF ResumeStops, Status
<1>2. call'[c] = Idle
  BY DEF ResumeStops, Done, QInv, QueueTypeOK
<1> QED
  BY <1>1, <1>2, NothingHeld DEF SerialStep

\* A call that is cut off leaves nothing behind in memory.
LEMMA CallLostSerial ==
  ASSUME QInv, OneCaller, NEW c \in Caller, CallLost(c)
  PROVE  SerialStep
<1>1. call'[c] = Idle /\ UNCHANGED row
  BY DEF CallLost, Done, QInv, QueueTypeOK
<1> QED
  BY <1>1, NothingHeld, RowsStay DEF SerialStep

-----------------------------------------------------------------------------
(* The three properties of queue_serial.                                   *)

LEMMA SerialInitially == Init => SerialInv
BY DEF Init, SerialInv, CallFresh, Doing

\* Every step of the only caller, cut off or not, and every death of a worker.
LEMMA SerialNext ==
  ASSUME OneCaller, QInv, SerialInv, [Next]_vars
  PROVE  SerialStep
<1>1. ASSUME NEW c \in Caller, NEW i \in Item, ItemCall(c, i)
      PROVE  SerialStep
  BY <1>1, DispatchSerial, SteerSerial, CancelSerial, UpdateSerial, ReconcileItemSerial,
     SubmitSerial, ResumeClaimSerial, SaveSerial DEF ItemCall
<1>2. ASSUME NEW c \in Caller, NEW w \in Worker, WorkerCall(c, w)
      PROVE  SerialStep
  <2>1. ASSUME NEW s \in Marks, SetWorkerStatus(c, w, s)
        PROVE  SerialStep
    BY <2>1, NothingMovedSerial DEF SetWorkerStatus
  <2> QED
    BY <1>2, <2>1, InterruptSerial, ReconcileTeamSerial DEF WorkerCall
<1>3. ASSUME NEW c \in Caller, CallGoesOn(c)
      PROVE  SerialStep
  <2>1. CASE ResumeWorker(c)
    BY <2>1, NothingMovedSerial DEF ResumeWorker
  <2> QED
    BY <1>3, <2>1, MarkFailedSerial, ListSerial, FinalizeChecksSerial, FinalizeWritesSerial,
       ResumeGoesOnSerial, ResumeStopsSerial, CallLostSerial DEF CallGoesOn
<1>4. ASSUME NEW w \in Worker, WorkerDies(w)
      PROVE  SerialStep
  BY <1>4, NothingMovedSerial DEF WorkerDies
<1>5. CASE UNCHANGED vars
  BY <1>5, NothingMovedSerial DEF vars
<1> QED
  BY <1>1, <1>2, <1>3, <1>4, <1>5 DEF Next

\* What the only caller has read is never stale when it is used.
THEOREM SerialInvariance ==
  ASSUME OneCaller
  PROVE  Spec => []SerialInv
<1>1. QInv /\ SerialInv /\ [Next]_vars => SerialInv'
  BY SerialNext DEF SerialStep
<1> QED
  BY <1>1, SerialInitially, QueueInvariance, PTL DEF Spec

\* A stored row is not taken back by the step that adds one.
LEMMA DispatchLeavesOthers ==
  ASSUME QInv, NEW c \in Caller, NEW i \in Item, NEW w \in Worker, NEW k \in Key \cup {NoKey},
         DispatchTask(c, i, w, k)
  PROVE  \A j \in Item : Exists(j) => row'[j] = row[j]
BY DEF DispatchTask, Write, QInv, QueueTypeOK

\* Steering is append-only: with one supervisor no call, a resume and a call
\* that was cut off included, takes recorded guidance or reasons away.
THEOREM GuidanceSurvives ==
  ASSUME OneCaller
  PROVE  Spec => GuidanceKept
<1>1. ASSUME QInv, SerialInv, [Next]_vars, NEW i \in Item, Exists(i)
      PROVE  row'[i] # NoItem /\ row[i].notes \subseteq row'[i].notes
  <2>1. SerialStep
    BY <1>1, SerialNext
  <2> QED
    BY <1>1, <2>1, DispatchLeavesOthers DEF SerialStep, RowsFollow, Follows, Exists
<1>2. QInv /\ SerialInv /\ [Next]_vars =>
        [\A i \in Item : Exists(i) => row'[i] # NoItem /\ row[i].notes \subseteq row'[i].notes]_vars
  BY <1>1
<1> QED
  BY <1>2, QueueInvariance, SerialInvariance, PTL DEF Spec, GuidanceKept

\* submit_worker_handoff rejects late completions: with one supervisor no
\* cancelled or interrupted item becomes COMPLETED, by any call but a resume
\* that takes the item up first, or an explicit update_queue_status.
THEOREM LateCompletionRejected ==
  ASSUME OneCaller, UpdatesLeaveClosed
  PROVE  Spec => LateHandoffRejected
<1>1. ASSUME QInv, SerialInv, [Next]_vars, NEW i \in Item, Exists(i),
             row[i].status \in {"CANCELLED", "INTERRUPTED"}
      PROVE  row'[i].status # "COMPLETED"
  <2>1. SerialStep
    BY <1>1, SerialNext
  <2> QED
    BY <1>1, <2>1, DispatchLeavesOthers
       DEF SerialStep, RowsFollow, Follows, Exists, UpdatesLeaveClosed
<1>2. QInv /\ SerialInv /\ [Next]_vars =>
        [\A i \in Item : Exists(i) /\ row[i].status \in {"CANCELLED", "INTERRUPTED"} =>
           row'[i].status # "COMPLETED"]_vars
  BY <1>1
<1> QED
  BY <1>2, QueueInvariance, SerialInvariance, PTL DEF Spec, LateHandoffRejected

\* insert_queue_item_once deduplicates: with one supervisor, and no call that
\* revives failed work past its check, no key has two items that are neither
\* failed nor cancelled.
THEOREM DedupSound ==
  ASSUME OneCaller, ForwardOnly
  PROVE  Spec => []DedupHolds
<1>1. Init => DedupHolds
  BY DEF Init, DedupHolds, Exists
<1>2. ASSUME QInv, SerialInv, QInv', DedupHolds, [Next]_vars
      PROVE  DedupHolds'
  <2> SUFFICES ASSUME NEW i \in Item, NEW j \in Item, i # j,
                      row'[i] # NoItem, row'[j] # NoItem,
                      row'[i].key = row'[j].key, row'[i].key # NoKey,
                      row'[i].status \notin Retryable, row'[j].status \notin Retryable
               PROVE  FALSE
    BY DEF DedupHolds, Exists
  <2>1. SerialStep
    BY <1>2, SerialNext
  <2>2. CASE RowsFollow
    <3>1. ASSUME NEW x \in Item, row'[x] # NoItem, row'[x].status \notin Retryable
          PROVE  Exists(x) /\ row[x].key = row'[x].key /\ row[x].status \notin Retryable
      <4>1. Exists(x) /\ Follows(row[x], row'[x])
        BY <2>2, <3>1 DEF RowsFollow
      <4>2. row'[x] \in Row
        BY <1>2, <3>1 DEF QInv, QueueTypeOK
      <4>3. row'[x].status \in Status \ Retryable
        BY <3>1, <4>2 DEF Row
      <4> QED
        BY <4>1, <4>3 DEF Follows, ForwardOnly
    <3> QED
      BY <1>2, <3>1 DEF DedupHolds
  <2>3. ASSUME NEW c \in Caller, NEW n \in Item, NEW w \in Worker, NEW k \in Key \cup {NoKey},
               DispatchTask(c, n, w, k)
        PROVE  FALSE
    <3>1. /\ row'[n].key = k /\ ~Exists(n) /\ ~Duplicate(k)
          /\ \A x \in Item : x # n => row'[x] = row[x]
      BY <1>2, <2>3 DEF DispatchTask, Write, QInv, QueueTypeOK
    <3>2. CASE i # n /\ j # n
      BY <1>2, <3>1, <3>2 DEF DedupHolds, Exists
    <3>3. CASE i = n
      BY <3>1, <3>3 DEF Duplicate, Exists
    <3>4. CASE j = n
      BY <3>1, <3>4 DEF Duplicate, Exists
    <3> QED
      BY <3>2, <3>3, <3>4
  <2> QED
    BY <2>1, <2>2, <2>3 DEF SerialStep
<1>3. QInv /\ SerialInv /\ QInv' /\ DedupHolds /\ [Next]_vars => DedupHolds'
  BY <1>2
<1> QED
  BY <1>1, <1>3, QueueInvariance, SerialInvariance, PTL DEF Spec
=============================================================================
