------------------------------ MODULE TeamQueue ------------------------------
(***************************************************************************)
(* The durable work queue of a team: the tables simpul_queue, simpul_      *)
(* handoffs and the status of simpul_sessions, shared by several           *)
(* supervisors, each with its own SQLite connection:                       *)
(*   storage/team_store.py       TeamStore, the statements                 *)
(*   team/team_manager.py        TeamManager, the lead's and workers' calls*)
(*   recovery/crash_recovery.py  reconciliation and resume                 *)
(*                                                                         *)
(* A call written as BEGIN IMMEDIATE ... COMMIT is one step.  The others   *)
(* load rows, think, and save the whole rows back: between the statements  *)
(* other supervisors act, or the supervisor dies.  finalize_handoff_       *)
(* transaction reads outside its transaction too: Python's sqlite3 opens   *)
(* one only at the INSERT.                                                 *)
(*                                                                         *)
(* Calls that raise or return before they changed anything stutter and are *)
(* left out.  Identities (lead, team, worker) are taken to match: a call   *)
(* with others is refused.  Payloads and priorities decide no transition   *)
(* of a status and are left out.                                           *)
(***************************************************************************)
EXTENDS Naturals, Functions

CONSTANTS
  Item,      \* dispatch ids
  Worker,    \* the registered workers of the team
  Caller,    \* supervisors, one call of each at a time
  Key,       \* deduplication keys
  Note,      \* guidance of the lead, and reasons of a cancel or an interrupt
  Calls,     \* the calls the supervisors make
  Updates,   \* <<from, to>>: how a caller of update_queue_status moves items
  Marks,     \* the statuses callers give set_worker_status
  NoKey,     \* dedup_key is None
  NoItem,    \* no row
  Idle       \* no call under way

Status == {"PENDING", "DISPATCHED", "RUNNING", "INTERRUPTED", "COMPLETED", "CANCELLED",
           "FAILED", "AMBIGUOUS"}
InFlight == {"DISPATCHED", "RUNNING"}
Active == InFlight \cup {"PENDING"}
Retryable == {"FAILED", "CANCELLED"}
WorkerStatus == {"IDLE", "RUNNING", "PAUSED", "INTERRUPTED", "COMPLETED", "FAILED", "ARCHIVED"}

Row == [worker : Worker, key : Key \cup {NoKey}, status : Status, notes : SUBSET Note]

InStatus(r, s) == [r EXCEPT !.status = s]

ASSUME QueueAssumption ==
  /\ Updates \subseteq Status \X Status
  /\ Marks \subseteq WorkerStatus
  /\ NoItem \notin Row
  /\ NoKey \notin Key

VARIABLES
  row,       \* simpul_queue
  handoff,   \* simpul_handoffs: "none", "result" or "fixture"
  session,   \* simpul_sessions.status
  alive,     \* workers whose process runs
  call,      \* what each supervisor is in the middle of
  started,   \* auxiliary: items that were ever in flight
  vouched,   \* auxiliary: items a lead, an operator or a resumed worker declared completed
  accepted   \* auxiliary: handoffs acknowledged for each item

vars == <<row, handoff, session, alive, call, started, vouched, accepted>>

Init ==
  /\ row = [i \in Item |-> NoItem]
  /\ handoff = [i \in Item |-> "none"]
  /\ session = [w \in Worker |-> "IDLE"]
  /\ alive = Worker
  /\ call = [c \in Caller |-> Idle]
  /\ started = {}
  /\ vouched = {}
  /\ accepted = [i \in Item |-> 0]

-----------------------------------------------------------------------------
(* Pieces of the calls.                                                    *)

Free(c, name) == call[c] = Idle /\ name \in Calls
Doing(c, op) == call[c] # Idle /\ call[c].op = op
Done(c) == call' = [call EXCEPT ![c] = Idle]

Exists(i) == row[i] # NoItem

\* Write the row of an item.
Write(i, r) ==
  /\ row' = [row EXCEPT ![i] = r]
  /\ started' = IF r.status \in InFlight THEN started \cup {i} ELSE started

\* A supervisor holds the rows it has loaded, changed, and not yet saved.
Holding(rows) == IF DOMAIN rows = {} THEN Idle ELSE [op |-> "save", rows |-> rows]

\* A reason is optional.
Reason == {{}} \cup {{n} : n \in Note}

-----------------------------------------------------------------------------
(* Transactions.                                                           *)

\* (completed work forgotten)
DuplicateOfActive(k) ==
  k # NoKey /\ \E j \in Item : Exists(j) /\ row[j].key = k /\ row[j].status \in Active

\* insert_queue_item_once: the SELECT for active or finished work of the key.
Duplicate(k) ==
  k # NoKey /\ \E j \in Item : Exists(j) /\ row[j].key = k /\ row[j].status \notin Retryable

DispatchTask(c, i, w, k) ==
  /\ Free(c, "dispatch_task")
  /\ ~Exists(i)
  /\ ~Duplicate(k)
  /\ Write(i, [worker |-> w, key |-> k, status |-> "PENDING", notes |-> {}])
  /\ UNCHANGED <<handoff, session, alive, call, vouched, accepted>>

SteerTask(c, i, n) ==
  /\ Free(c, "steer_task")
  /\ Exists(i)
  /\ row[i].status \in Active
  /\ Write(i, [row[i] EXCEPT !.notes = @ \cup {n}])
  /\ UNCHANGED <<handoff, session, alive, call, vouched, accepted>>

\* (the reason takes the place of the guidance)
CancelTaskOverwrites(c, i, reason) ==
  /\ Free(c, "cancel_task")
  /\ Exists(i)
  /\ row[i].status \in Active
  /\ Write(i, [row[i] EXCEPT !.status = "CANCELLED", !.notes = reason])
  /\ UNCHANGED <<handoff, session, alive, call, vouched, accepted>>

CancelTask(c, i, reason) ==
  /\ Free(c, "cancel_task")
  /\ Exists(i)
  /\ row[i].status \in Active
  /\ Write(i, [row[i] EXCEPT !.status = "CANCELLED", !.notes = @ \cup reason])
  /\ UNCHANGED <<handoff, session, alive, call, vouched, accepted>>

-----------------------------------------------------------------------------
(* Load, change, save.                                                     *)

UpdateQueueStatus(c, i, s) ==
  /\ Free(c, "update_queue_status")
  /\ Exists(i)
  /\ <<row[i].status, s>> \in Updates
  /\ call' = [call EXCEPT ![c] = Holding([j \in {i} |-> InStatus(row[i], s)])]
  /\ vouched' = IF s = "COMPLETED" THEN vouched \cup {i} ELSE vouched
  /\ UNCHANGED <<row, handoff, session, alive, started, accepted>>

\* Where each resolution of an operator leads.
Resolved == [RETRY |-> "PENDING", MARK_COMPLETED |-> "COMPLETED", MARK_FAILED |-> "FAILED"]

ReconcileAmbiguousTask(c, i, resolution) ==
  /\ Free(c, "reconcile_ambiguous_task")
  /\ Exists(i)
  /\ row[i].status \in {"AMBIGUOUS", "FAILED", "DISPATCHED"}
  /\ call' = [call EXCEPT ![c] =
                Holding([j \in {i} |-> InStatus(row[i], Resolved[resolution])])]
  /\ vouched' = IF resolution = "MARK_COMPLETED" THEN vouched \cup {i} ELSE vouched
  /\ UNCHANGED <<row, handoff, session, alive, started, accepted>>

\* The two calls that take a worker out of service write its session first ...
InterruptWorker(c, w, reason) ==
  /\ Free(c, "interrupt_worker")
  /\ session' = [session EXCEPT ![w] = "INTERRUPTED"]
  /\ call' = [call EXCEPT ![c] =
                [op |-> "list", worker |-> w, how |-> "interrupt", notes |-> reason]]
  /\ UNCHANGED <<row, handoff, alive, started, vouched, accepted>>

ReconcileTeamAfterCrash(c, w, how) ==
  /\ Free(c, "reconcile_team_after_crash")
  /\ w \notin alive
  /\ session[w] \in {"RUNNING", "PAUSED", "IDLE"}
  /\ call' = [call EXCEPT ![c] = [op |-> "fail", worker |-> w, how |-> how, notes |-> {}]]
  /\ UNCHANGED <<row, handoff, session, alive, started, vouched, accepted>>

MarkWorkerFailed(c) ==
  /\ Doing(c, "fail")
  /\ session' = [session EXCEPT ![call[c].worker] = "FAILED"]
  /\ call' = [call EXCEPT ![c] = [@ EXCEPT !.op = "list"]]
  /\ UNCHANGED <<row, handoff, alive, started, vouched, accepted>>

\* (work of a dead worker taken for done)
TakenOutCompleted(how, s) == IF how = "interrupt" THEN "INTERRUPTED" ELSE "COMPLETED"

\* What becomes of an active item.
TakenOut(how, s) ==
  CASE how = "interrupt" -> "INTERRUPTED"
    [] how = "quarantine" /\ s \in InFlight -> "AMBIGUOUS"
    [] OTHER -> "FAILED"

\* ... then list the queue, change the worker's active items in memory ...
ListQueue(c) ==
  /\ Doing(c, "list")
  /\ LET mine == {i \in Item : /\ Exists(i)
                               /\ row[i].worker = call[c].worker
                               /\ row[i].status \in Active}
     IN call' = [call EXCEPT ![c] = Holding([i \in mine |->
                   [row[i] EXCEPT !.status = TakenOut(call[c].how, @),
                                  !.notes = @ \cup call[c].notes]])]
  /\ UNCHANGED <<row, handoff, session, alive, started, vouched, accepted>>

\* ... and save them one by one.  save_queue_item overwrites whatever is there.
SaveQueueItem(c, i) ==
  /\ Doing(c, "save")
  /\ i \in DOMAIN call[c].rows
  /\ Write(i, call[c].rows[i])
  /\ call' = [call EXCEPT ![c] = Holding(Restrict(@.rows, DOMAIN @.rows \ {i}))]
  /\ UNCHANGED <<handoff, session, alive, vouched, accepted>>

SetWorkerStatus(c, w, s) ==
  /\ Free(c, "set_worker_status")
  /\ session' = [session EXCEPT ![w] = s]
  /\ UNCHANGED <<row, handoff, alive, call, started, vouched, accepted>>

-----------------------------------------------------------------------------
(* Handoffs.                                                               *)

\* (whatever the item's status)
HandoffAllowedAnyStatus(i) ==
  /\ session[row[i].worker] # "INTERRUPTED"
  /\ handoff[i] = "none"

\* The checks of submit_worker_handoff on what it has loaded.
HandoffAllowed(i) ==
  /\ row[i].status \in InFlight
  /\ session[row[i].worker] # "INTERRUPTED"
  /\ handoff[i] = "none"

\* Artifacts, receipt and QA verdict are in order, or the call raises.
SubmitWorkerHandoff(c, i, kind) ==
  /\ Free(c, "submit_worker_handoff")
  /\ Exists(i)
  /\ HandoffAllowed(i)
  /\ call' = [call EXCEPT ![c] = [op |-> "finalize", item |-> i, kind |-> kind]]
  /\ UNCHANGED <<row, handoff, session, alive, started, vouched, accepted>>

\* finalize_handoff_transaction: the two SELECTs ...
FinalizeChecks(c) ==
  /\ Doing(c, "finalize")
  /\ row[call[c].item].status \notin {"COMPLETED", "CANCELLED"}
  /\ handoff[call[c].item] = "none"
  /\ call' = [call EXCEPT ![c] = [@ EXCEPT !.op = "insert"]]
  /\ UNCHANGED <<row, handoff, session, alive, started, vouched, accepted>>

\* (an upsert, as in save_handoff)
HandoffUpserts(i) == TRUE

\* The primary key of simpul_handoffs.
HandoffInserts(i) == handoff[i] = "none"

\* ... then, in one transaction, the INSERT and the two UPDATEs.
FinalizeWrites(c) ==
  LET i == call[c].item IN
  /\ Doing(c, "insert")
  /\ HandoffInserts(i)
  /\ handoff' = [handoff EXCEPT ![i] = call[c].kind]
  /\ accepted' = [accepted EXCEPT ![i] = @ + 1]
  /\ IF call[c].kind = "result"
     THEN Write(i, InStatus(row[i], "COMPLETED"))
     ELSE UNCHANGED <<row, started>>
  /\ session' = [session EXCEPT ![row[i].worker] = "IDLE"]
  /\ Done(c)
  /\ UNCHANGED <<alive, vouched>>

-----------------------------------------------------------------------------
(* resume_task_from_checkpoint.                                            *)

\* mark_task_resuming, a transaction.
MarkTaskResuming(c, i) ==
  /\ Free(c, "resume_task_from_checkpoint")
  /\ Exists(i)
  /\ row[i].status \notin {"RUNNING", "COMPLETED", "CANCELLED"}
  /\ Write(i, InStatus(row[i], "RUNNING"))
  /\ call' = [call EXCEPT ![c] = [op |-> "resume", item |-> i, row |-> row[i],
                                  ran |-> FALSE]]
  /\ UNCHANGED <<handoff, session, alive, vouched, accepted>>

\* The worker is gone: start another, or let the attached one go on.
ResumeWorker(c) ==
  /\ Doing(c, "resume")
  /\ ~call[c].ran
  /\ LET w == call[c].row.worker IN
       /\ session' = [session EXCEPT ![w] = "IDLE"]
       /\ alive' = alive \cup {w}
  /\ UNCHANGED <<row, handoff, call, started, vouched, accepted>>

\* From the claim on, every save writes the row that was loaded with it.
ResumeSave(c, s) ==
  /\ Doing(c, "resume")
  /\ Write(call[c].item, InStatus(call[c].row, s))
  /\ UNCHANGED <<handoff, session, alive, accepted>>

\* Before and after each step of the work.
ResumeGoesOn(c) ==
  /\ ResumeSave(c, "RUNNING")
  /\ call' = [call EXCEPT ![c] = [@ EXCEPT !.ran = TRUE]]
  /\ UNCHANGED vouched

\* Recovery is blocked or awaits an approval, before any work; a step failed;
\* every step is done, or was before.
ResumeStops(c, s) ==
  /\ ResumeSave(c, s)
  /\ s = "DISPATCHED" => ~call[c].ran
  /\ s = "FAILED" => call[c].ran
  /\ Done(c)
  /\ vouched' = IF s = "COMPLETED" THEN vouched \cup {call[c].item} ELSE vouched

-----------------------------------------------------------------------------
\* The supervisor dies, or a statement or a check in the middle of a call raises.
CallLost(c) ==
  /\ call[c] # Idle
  /\ Done(c)
  /\ UNCHANGED <<row, handoff, session, alive, started, vouched, accepted>>

WorkerDies(w) ==
  /\ w \in alive
  /\ alive' = alive \ {w}
  /\ UNCHANGED <<row, handoff, session, call, started, vouched, accepted>>

ItemCall(c, i) ==
  \/ \E w \in Worker, k \in Key \cup {NoKey} : DispatchTask(c, i, w, k)
  \/ \E n \in Note : SteerTask(c, i, n)
  \/ \E reason \in Reason : CancelTask(c, i, reason)
  \/ \E s \in Status : UpdateQueueStatus(c, i, s)
  \/ \E resolution \in DOMAIN Resolved : ReconcileAmbiguousTask(c, i, resolution)
  \/ \E kind \in {"result", "fixture"} : SubmitWorkerHandoff(c, i, kind)
  \/ MarkTaskResuming(c, i)
  \/ SaveQueueItem(c, i)

WorkerCall(c, w) ==
  \/ \E reason \in Reason : InterruptWorker(c, w, reason)
  \/ \E how \in {"fail", "quarantine"} : ReconcileTeamAfterCrash(c, w, how)
  \/ \E s \in Marks : SetWorkerStatus(c, w, s)

CallGoesOn(c) ==
  \/ MarkWorkerFailed(c)
  \/ ListQueue(c)
  \/ FinalizeChecks(c)
  \/ FinalizeWrites(c)
  \/ ResumeWorker(c)
  \/ ResumeGoesOn(c)
  \/ \E s \in {"DISPATCHED", "FAILED", "COMPLETED"} : ResumeStops(c, s)
  \/ CallLost(c)

Next ==
  \/ \E c \in Caller, i \in Item : ItemCall(c, i)
  \/ \E c \in Caller, w \in Worker : WorkerCall(c, w)
  \/ \E c \in Caller : CallGoesOn(c)
  \/ \E w \in Worker : WorkerDies(w)

Spec == Init /\ [][Next]_vars

-----------------------------------------------------------------------------
\* Loaded rows of some items.
HeldRows == UNION {[S -> Row] : S \in SUBSET Item}

\* The calls in progress.
InProgress ==
  [op : {"save"}, rows : HeldRows]
    \cup [op : {"fail", "list"}, worker : Worker, how : {"interrupt", "fail", "quarantine"},
          notes : SUBSET Note]
    \cup [op : {"finalize", "insert"}, item : Item, kind : {"result", "fixture"}]
    \cup [op : {"resume"}, item : Item, row : Row, ran : BOOLEAN]

\* Every variable has its type.
QueueTypeOK ==
  /\ row \in [Item -> Row \cup {NoItem}]
  /\ handoff \in [Item -> {"none", "result", "fixture"}]
  /\ session \in [Worker -> WorkerStatus]
  /\ alive \subseteq Worker
  /\ call \in [Caller -> InProgress \cup {Idle}]
  /\ started \subseteq Item
  /\ vouched \subseteq Item
  /\ accepted \in [Item -> Nat]

(***************************************************************************)
(* The docstring of finalize_handoff_transaction: "prevents duplicate      *)
(* finalization or replay across processes".  However the checks of        *)
(* several supervisors overlap, at most one handoff of a dispatch is ever  *)
(* acknowledged, and only for work that was in flight at some time.        *)
(***************************************************************************)
HandoffOnce ==
  \A i \in Item :
    /\ accepted[i] = IF handoff[i] = "none" THEN 0 ELSE 1
    /\ handoff[i] # "none" => i \in started

(***************************************************************************)
(* docs/OPERATIONAL_INCIDENT_RUNBOOK.md: "Never assume automatic           *)
(* completion".  Whatever crashes, and whichever stale rows are saved, an  *)
(* item is COMPLETED only on a handed-over result, on the word of a lead   *)
(* or an operator, or by the worker that resumed it; a contract fixture    *)
(* does not count.                                                         *)
(***************************************************************************)
CompletionIsEvidenced ==
  \A i \in Item : Exists(i) /\ row[i].status = "COMPLETED" =>
    handoff[i] = "result" \/ i \in vouched

(***************************************************************************)
(* The docstring of insert_queue_item_once: "Atomically deduplicate        *)
(* active/finished work".  A key never has two items that are neither      *)
(* failed nor cancelled.                                                   *)
(***************************************************************************)
DedupHolds ==
  \A i, j \in Item : i # j /\ Exists(i) /\ Exists(j) =>
    \/ row[i].key # row[j].key
    \/ row[i].key = NoKey
    \/ row[i].status \in Retryable
    \/ row[j].status \in Retryable

(***************************************************************************)
(* Steering is append-only (docs/public/PAR06_QUEUE_STEERING_SAFETY.md):   *)
(* no later call takes recorded guidance or reasons away.                  *)
(***************************************************************************)
GuidanceKept ==
  [][\A i \in Item : Exists(i) => row'[i] # NoItem /\ row[i].notes \subseteq row'[i].notes]_vars

(***************************************************************************)
(* tests/test_c04_interagent_control.py: "Once a task is CANCELLED or      *)
(* INTERRUPTED, late completion handoffs are strictly rejected."           *)
(***************************************************************************)
LateHandoffRejected ==
  [][\A i \in Item : Exists(i) /\ row[i].status \in {"CANCELLED", "INTERRUPTED"} =>
       row'[i].status # "COMPLETED"]_vars

(***************************************************************************)
(* docs/SIMPUL_STATUS.md: "Ambiguous external side effects require         *)
(* operator reconciliation before replay".  No resume runs the work of an  *)
(* item it found AMBIGUOUS.                                                *)
(***************************************************************************)
QuarantineHolds ==
  \A c \in Caller : Doing(c, "resume") /\ call[c].ran => call[c].row.status # "AMBIGUOUS"
=============================================================================
