----------------------------- MODULE Coordinator -----------------------------
(***************************************************************************)
(* The supervised PM / Developer / QA task lifecycle:                      *)
(*   team/coordinator.py   SupervisedCoordinator, one per run              *)
(*   domain/engine.py      TaskAggregate, one per task                     *)
(*   domain/registry.py    ReceiptIssuerRegistry, receipts and evidence    *)
(*   qa/adjudication.py    QaEvidenceGate                                  *)
(* composed with the budget ledger that every run of a host shares.        *)
(*                                                                         *)
(* A coordinator is called by one thread (execute_lifecycle drives a run), *)
(* except release_dispatch, which the code declares thread-safe.  Runs, on *)
(* the other hand, interleave freely, and begin() is not atomic: it looks  *)
(* at a snapshot of the ledger, dispatches, and only then reserves.  So    *)
(* begin is two steps here, and another run's reserve may come between.    *)
(*                                                                         *)
(* A call made with a principal of the wrong role, or that fails a check,  *)
(* raises and changes nothing: it is a stuttering step and is left out.    *)
(* QA_VERIFIED is passed through inside qa_review and never observed.      *)
(***************************************************************************)
EXTENDS BudgetLedger

CONSTANTS
  Task,               \* the tasks of all runs
  Run,                \* the runs, each with its coordinator
  RunOf,              \* the run a task belongs to
  Deps,               \* the frozen DAG: the tasks a task depends on
  Key,                \* idempotency keys (they bound the attempts of a task)
  Tree,               \* git tree SHAs
  InitTree,           \* the tree every run starts from
  MaxReceipts,        \* bound: receipts the executor issues
  ConfiguredWorkers,  \* max_workers of the ledger object the coordinators hold
  NoDispatch,         \* active_dispatch is None, no entry in _active_ids
  NoTree,             \* verified_tree_sha is None
  NoVerdict,          \* qa_verdict is None
  Idle                \* no begin() in progress

FixRoundCap == 3

Receipt == [task : Task, dispatch : DispatchId, tree : Tree, exit : {0, 1}]
Verdict == [task : Task, dispatch : DispatchId, tree : Tree,
            receipts : SUBSET Receipt]
Report == [dispatch : DispatchId, tree : Tree]
Beginning == [task : Task, allowance : Allowance]

ASSUME CoordinatorAssumption ==
  /\ RunOf \in [Task -> Run]
  /\ Deps \in [Task -> SUBSET Task]
  /\ InitTree \in Tree
  /\ NoTree \notin Tree
  /\ DispatchId = Task \X Key
  /\ NoDispatch \notin DispatchId
  /\ ConfiguredWorkers \in Nat \ {0}
  /\ MaxReceipts \in Nat
  /\ Idle \notin Beginning
  /\ NoVerdict \notin Verdict

TaskState == {"CREATED", "FROZEN", "DISPATCHED", "PROCESS_SUCCEEDED",
              "VERIFIED", "BLOCKED", "RECOVERY_REQUIRED"}

VARIABLES
  state,         \* TaskAggregate._state
  tree,          \* TaskAggregate.task.tree_sha
  dispatch,      \* TaskAggregate.active_dispatch: its id
  dispatchTree,  \* TaskAggregate.active_dispatch: its tree_sha
  usedKeys,      \* TaskAggregate._used_keys
  verdict,       \* TaskAggregate.qa_verdict
  verifiedTree,  \* TaskAggregate.verified_tree_sha
  fixRounds,     \* SupervisedCoordinator._fix_rounds
  activeId,      \* SupervisedCoordinator._active_ids
  beginning,     \* the begin() of a run between dispatch and reserve
  receipts,      \* ReceiptIssuerRegistry._receipts
  evidence,      \* ReceiptIssuerRegistry._evidence: the receipts promoted
  crashed,       \* runs whose process has died
  admitted,      \* auxiliary: dispatches that ever obtained a reservation
  stranded,      \* auxiliary: reservations nobody will ever release
  lastReport     \* auxiliary: what the last accepted developer report named

aggVars == <<state, tree, dispatch, dispatchTree, usedKeys, verdict, verifiedTree>>
registryVars == <<receipts, evidence>>
auxVars == <<admitted, stranded, lastReport>>
vars == <<aggVars, fixRounds, activeId, beginning, registryVars, crashed,
          auxVars, ledgerVars>>

TasksOf(r) == {t \in Task : RunOf[t] = r}

\* The run's caller is between two calls of its coordinator.
Ready(t) == RunOf[t] \notin crashed /\ beginning[RunOf[t]] = Idle

Init ==
  /\ LedgerInit
  /\ state = [t \in Task |-> "CREATED"]
  /\ tree = [t \in Task |-> InitTree]
  /\ dispatch = [t \in Task |-> NoDispatch]
  /\ dispatchTree = [t \in Task |-> NoTree]
  /\ usedKeys = [t \in Task |-> {}]
  /\ verdict = [t \in Task |-> NoVerdict]
  /\ verifiedTree = [t \in Task |-> NoTree]
  /\ fixRounds = [t \in Task |-> 0]
  /\ activeId = [t \in Task |-> NoDispatch]
  /\ beginning = [r \in Run |-> Idle]
  /\ receipts = {}
  /\ evidence = {}
  /\ crashed = {}
  /\ admitted = {}
  /\ stranded = {}
  /\ lastReport = [t \in Task |-> NoDispatch]

-----------------------------------------------------------------------------
(* Pieces of the handlers.                                                 *)

(***************************************************************************)
(* Pop the task's entry of _active_ids and release the reservation, with   *)
(* no refund.  An exception of the ledger is swallowed: the entry is gone  *)
(* all the same and the row stays.                                         *)
(***************************************************************************)
FreeSlot(t) ==
  /\ activeId' = [activeId EXCEPT ![t] = NoDispatch]
  /\ \/ /\ activeId[t] = NoDispatch
        /\ UNCHANGED <<ledgerVars, stranded>>
     \/ /\ activeId[t] # NoDispatch
        /\ Release(activeId[t], NoRefund)
        /\ UNCHANGED stranded
     \/ /\ activeId[t] # NoDispatch
        /\ stranded' = stranded \cup {activeId[t]}
        /\ UNCHANGED ledgerVars

KeepSlot == UNCHANGED <<activeId, ledgerVars, stranded>>

\* TaskAggregate.block, or .recover_unknown: drop the verdict, keep the dispatch.
Demote(t, s) ==
  /\ state' = [state EXCEPT ![t] = s]
  /\ verdict' = [verdict EXCEPT ![t] = NoVerdict]
  /\ verifiedTree' = [verifiedTree EXCEPT ![t] = NoTree]
  /\ UNCHANGED <<tree, dispatch, dispatchTree, usedKeys>>

-----------------------------------------------------------------------------
(* The PM's operations.                                                    *)

Freeze(t) ==
  /\ Ready(t)
  /\ state[t] \in {"CREATED", "BLOCKED"}
  /\ state' = [state EXCEPT ![t] = "FROZEN"]
  /\ UNCHANGED <<tree, dispatch, dispatchTree, usedKeys, verdict, verifiedTree,
                 fixRounds, activeId, beginning, registryVars, crashed,
                 auxVars, ledgerVars>>

\* begin, up to and including TaskAggregate.dispatch.
BeginDispatch(t, k, a) ==
  /\ Ready(t)
  /\ state[t] = "FROZEN"
  /\ \A d \in Deps[t] : state[d] = "VERIFIED"
  /\ Cardinality(reservations) < ConfiguredWorkers
  /\ a.tokens <= tokens
  /\ a.cost <= cost
  /\ k \notin usedKeys[t]
  /\ usedKeys' = [usedKeys EXCEPT ![t] = @ \cup {k}]
  /\ dispatch' = [dispatch EXCEPT ![t] = <<t, k>>]
  /\ dispatchTree' = [dispatchTree EXCEPT ![t] = tree[t]]
  /\ state' = [state EXCEPT ![t] = "DISPATCHED"]
  /\ beginning' = [beginning EXCEPT ![RunOf[t]] = [task |-> t, allowance |-> a]]
  /\ UNCHANGED <<tree, verdict, verifiedTree, fixRounds, activeId, registryVars,
                 crashed, auxVars, ledgerVars>>

\* begin, from reserve on: the reservation is admitted ...
BeginReserve(r) ==
  /\ r \notin crashed
  /\ beginning[r] # Idle
  /\ LET t == beginning[r].task IN
       /\ Reserve(dispatch[t], beginning[r].allowance)
       /\ activeId' = [activeId EXCEPT ![t] = dispatch[t]]
       /\ admitted' = admitted \cup {dispatch[t]}
  /\ beginning' = [beginning EXCEPT ![r] = Idle]
  /\ UNCHANGED <<aggVars, fixRounds, registryVars, crashed, stranded, lastReport>>

\* (a refused reservation that forgets to take the dispatch back)
BeginRefusedKeepsDispatch(r) ==
  /\ r \notin crashed
  /\ beginning[r] # Idle
  /\ beginning' = [beginning EXCEPT ![r] = Idle]
  /\ UNCHANGED <<aggVars, fixRounds, activeId, registryVars, crashed, auxVars,
                 ledgerVars>>

\* ... or the ledger raises: another run was faster, its ceilings are lower
\* than the configured ones, or the database is locked.
BeginRefused(r) ==
  /\ r \notin crashed
  /\ beginning[r] # Idle
  /\ Demote(beginning[r].task, "RECOVERY_REQUIRED")
  /\ beginning' = [beginning EXCEPT ![r] = Idle]
  /\ UNCHANGED <<fixRounds, activeId, registryVars, crashed, auxVars, ledgerVars>>

\* (a reconciliation that keeps the reservation of the lost dispatch)
ReconcileWithoutRelease(t, new) ==
  /\ Ready(t)
  /\ state[t] = "RECOVERY_REQUIRED"
  /\ tree' = [tree EXCEPT ![t] = new]
  /\ state' = [state EXCEPT ![t] = "FROZEN"]
  /\ dispatch' = [dispatch EXCEPT ![t] = NoDispatch]
  /\ dispatchTree' = [dispatchTree EXCEPT ![t] = NoTree]
  /\ verdict' = [verdict EXCEPT ![t] = NoVerdict]
  /\ verifiedTree' = [verifiedTree EXCEPT ![t] = NoTree]
  /\ UNCHANGED <<usedKeys, fixRounds, beginning, registryVars, crashed, admitted,
                 lastReport, activeId, ledgerVars, stranded>>

\* reconcile_recovery; new is the task's own tree when the PM gives none.
ReconcileRecovery(t, new) ==
  /\ Ready(t)
  /\ state[t] = "RECOVERY_REQUIRED"
  /\ FreeSlot(t)
  /\ tree' = [tree EXCEPT ![t] = new]
  /\ state' = [state EXCEPT ![t] = "FROZEN"]
  /\ dispatch' = [dispatch EXCEPT ![t] = NoDispatch]
  /\ dispatchTree' = [dispatchTree EXCEPT ![t] = NoTree]
  /\ verdict' = [verdict EXCEPT ![t] = NoVerdict]
  /\ verifiedTree' = [verifiedTree EXCEPT ![t] = NoTree]
  /\ UNCHANGED <<usedKeys, fixRounds, beginning, registryVars, crashed, admitted,
                 lastReport>>

-----------------------------------------------------------------------------
(* update_tree: every task of the run, in one call.                        *)

Stale(r, new) == {t \in TasksOf(r) : tree[t] # new}
InFlight(t) == state[t] \in {"DISPATCHED", "PROCESS_SUCCEEDED"}

\* The tasks that take the new tree; in flight and in recovery, the old SHA stays.
Moved(r, new) == {t \in Stale(r, new) : ~InFlight(t) /\ state[t] # "RECOVERY_REQUIRED"}
\* Of those, the ones TaskAggregate.change_tree sends back to FROZEN.
Revoked(r, new) == {t \in Moved(r, new) : state[t] # "CREATED"}

UpdateTree(r, new) ==
  LET lost == {t \in Stale(r, new) : InFlight(t)}
      back == Revoked(r, new)
  IN
  /\ r \notin crashed
  /\ beginning[r] = Idle
  /\ tree' = [t \in Task |-> IF t \in Moved(r, new) THEN new ELSE tree[t]]
  /\ state' = [t \in Task |-> IF t \in lost THEN "RECOVERY_REQUIRED"
                              ELSE IF t \in back THEN "FROZEN" ELSE state[t]]
  /\ verdict' = [t \in Task |-> IF t \in lost \cup back THEN NoVerdict ELSE verdict[t]]
  /\ verifiedTree' = [t \in Task |-> IF t \in lost \cup back THEN NoTree
                                     ELSE verifiedTree[t]]
  /\ dispatch' = [t \in Task |-> IF t \in back THEN NoDispatch ELSE dispatch[t]]
  /\ dispatchTree' = [t \in Task |-> IF t \in back THEN NoTree ELSE dispatchTree[t]]
  /\ UNCHANGED <<usedKeys, fixRounds, activeId, beginning, registryVars, crashed,
                 auxVars, ledgerVars>>

-----------------------------------------------------------------------------
(* The developer, the executor and whoever gives a dispatch up.            *)

\* (a report accepted from whatever dispatch of the task sends it)
CurrentDispatchOfAnyAttempt(t, d, tr) == dispatch[t] # NoDispatch /\ tr = tree[t]

\* TaskAggregate._require_current
CurrentDispatch(t, d, tr) ==
  /\ dispatch[t] # NoDispatch
  /\ dispatch[t] = d
  /\ dispatchTree[t] = tr
  /\ tree[t] = tr

\* The developer of any attempt, current or not, may report at any time.
ReportProcessSucceeded(t, d, tr) ==
  /\ Ready(t)
  /\ CurrentDispatch(t, d, tr)
  /\ state[t] = "DISPATCHED"
  /\ state' = [state EXCEPT ![t] = "PROCESS_SUCCEEDED"]
  /\ lastReport' = [lastReport EXCEPT ![t] = [dispatch |-> d, tree |-> tr]]
  /\ UNCHANGED <<tree, dispatch, dispatchTree, usedKeys, verdict, verifiedTree,
                 fixRounds, activeId, beginning, registryVars, crashed,
                 admitted, stranded, ledgerVars>>

ReleaseDispatch(t) ==
  /\ RunOf[t] \notin crashed
  /\ activeId[t] # NoDispatch
  /\ FreeSlot(t)
  /\ UNCHANGED <<aggVars, fixRounds, beginning, registryVars, crashed, admitted,
                 lastReport>>

\* ReceiptIssuerRegistry.issue, for any attempt and tree the executor ran.
IssueReceipt(t, k, tr, exit) ==
  /\ Ready(t)
  /\ k \in usedKeys[t]
  /\ Cardinality(receipts) < MaxReceipts
  /\ receipts' = receipts \cup
       {[task |-> t, dispatch |-> <<t, k>>, tree |-> tr, exit |-> exit]}
  /\ UNCHANGED <<aggVars, fixRounds, activeId, beginning, evidence, crashed,
                 auxVars, ledgerVars>>

CreateEvidence(r) ==
  /\ r \in receipts
  /\ Ready(r.task)
  /\ r.exit = 0
  /\ evidence' = evidence \cup {r}
  /\ UNCHANGED <<aggVars, fixRounds, activeId, beginning, receipts, crashed,
                 auxVars, ledgerVars>>

-----------------------------------------------------------------------------
(* qa_review, by what it decides.  round is the caller's fix_round.        *)

Reviewable(t) ==
  /\ Ready(t)
  /\ state[t] = "PROCESS_SUCCEEDED"
  /\ dispatch[t] # NoDispatch

\* (the caller's counter believed over the recorded one)
CallersRound(t, round) == round

CurrentRound(t, round) == IF round > fixRounds[t] THEN round ELSE fixRounds[t]

\* (one round too many)
RoundsLeftOffByOne(t, round) == CurrentRound(t, round) <= FixRoundCap

RoundsLeft(t, round) == CurrentRound(t, round) < FixRoundCap

\* create_qa_verdict: registered evidence of this task, attempt and tree.
EvidenceMatches(t, ev) ==
  /\ ev # {}
  /\ ev \subseteq evidence
  /\ \A e \in ev : /\ e \in receipts
                   /\ e.task = t
                   /\ e.dispatch = dispatch[t]
                   /\ e.tree = tree[t]
                   /\ e.exit = 0

\* checks stands for: clean checkout, QA test hashes as pinned, every frozen
\* criterion covered, no human waiver.
GatePasses(t, ev, actualTree, checks) ==
  /\ checks
  /\ actualTree = tree[t]
  /\ EvidenceMatches(t, ev)

QaExhausted(t, round) ==
  /\ Reviewable(t)
  /\ ~RoundsLeft(t, round)
  /\ Demote(t, "BLOCKED")
  /\ FreeSlot(t)
  /\ UNCHANGED <<fixRounds, beginning, registryVars, crashed, admitted, lastReport>>

QaAccept(t, round, ev, actualTree, checks) ==
  /\ Reviewable(t)
  /\ RoundsLeft(t, round)
  /\ GatePasses(t, ev, actualTree, checks)
  /\ verdict' = [verdict EXCEPT ![t] = [task |-> t, dispatch |-> dispatch[t],
                                        tree |-> tree[t], receipts |-> ev]]
  /\ state' = [state EXCEPT ![t] = "VERIFIED"]
  /\ verifiedTree' = [verifiedTree EXCEPT ![t] = tree[t]]
  /\ FreeSlot(t)
  /\ UNCHANGED <<tree, dispatch, dispatchTree, usedKeys, fixRounds, beginning,
                 registryVars, crashed, admitted, lastReport>>

QaReject(t, round, ev, actualTree, checks) ==
  /\ Reviewable(t)
  /\ RoundsLeft(t, round)
  /\ ~GatePasses(t, ev, actualTree, checks)
  /\ fixRounds' = [fixRounds EXCEPT ![t] = CurrentRound(t, round) + 1]
  /\ \/ /\ CurrentRound(t, round) + 1 >= FixRoundCap
        /\ Demote(t, "BLOCKED")
        /\ FreeSlot(t)
     \/ /\ CurrentRound(t, round) + 1 < FixRoundCap
        /\ UNCHANGED aggVars
        /\ KeepSlot
  /\ UNCHANGED <<beginning, registryVars, crashed, admitted, lastReport>>

-----------------------------------------------------------------------------
\* A process dies, with the coordinators of all the runs it hosts: they were
\* all in memory; the rows of the ledger stay, and nothing in the code looks
\* for them again.
Crash(runs) ==
  /\ runs \cap crashed = {}
  /\ crashed' = crashed \cup runs
  /\ stranded' = stranded \cup
       ({activeId[t] : t \in {u \in Task : RunOf[u] \in runs}} \ {NoDispatch})
  /\ activeId' = [t \in Task |-> IF RunOf[t] \in runs THEN NoDispatch ELSE activeId[t]]
  /\ UNCHANGED <<aggVars, fixRounds, beginning, registryVars, admitted, lastReport,
                 ledgerVars>>

TaskStep(t) ==
  \/ Freeze(t)
  \/ \E k \in Key, a \in Allowance : BeginDispatch(t, k, a)
  \/ \E new \in Tree : ReconcileRecovery(t, new)
  \/ \E k \in usedKeys[t], tr \in Tree : ReportProcessSucceeded(t, <<t, k>>, tr)
  \/ ReleaseDispatch(t)
  \/ \E k \in Key, tr \in Tree, exit \in {0, 1} : IssueReceipt(t, k, tr, exit)
  \/ \E round \in 0 .. FixRoundCap : QaExhausted(t, round)
  \/ \E round \in 0 .. FixRoundCap, ev \in SUBSET evidence, tr \in Tree, ok \in BOOLEAN :
       \/ QaAccept(t, round, ev, tr, ok)
       \/ QaReject(t, round, ev, tr, ok)

RunStep(r) ==
  \/ BeginReserve(r)
  \/ BeginRefused(r)
  \/ \E new \in Tree : UpdateTree(r, new)

Next ==
  \/ \E t \in Task : TaskStep(t)
  \/ \E r \in Run : RunStep(r)
  \/ \E runs \in SUBSET Run : Crash(runs)
  \/ \E r \in receipts : CreateEvidence(r)

Spec == Init /\ [][Next]_vars

-----------------------------------------------------------------------------
\* Every variable has its type.
TypeOK ==
  /\ LedgerTypeOK
  /\ state \in [Task -> TaskState]
  /\ tree \in [Task -> Tree]
  /\ dispatch \in [Task -> DispatchId \cup {NoDispatch}]
  /\ dispatchTree \in [Task -> Tree \cup {NoTree}]
  /\ usedKeys \in [Task -> SUBSET Key]
  /\ verdict \in [Task -> Verdict \cup {NoVerdict}]
  /\ verifiedTree \in [Task -> Tree \cup {NoTree}]
  /\ fixRounds \in [Task -> 0 .. FixRoundCap]
  /\ activeId \in [Task -> DispatchId \cup {NoDispatch}]
  /\ beginning \in [Run -> Beginning \cup {Idle}]
  /\ receipts \subseteq Receipt
  /\ evidence \subseteq Receipt
  /\ crashed \subseteq Run
  /\ admitted \subseteq DispatchId
  /\ stranded \subseteq DispatchId
  /\ lastReport \in [Task -> Report \cup {NoDispatch}]

(***************************************************************************)
(* INV-01, INV-05 and INV-09 of docs/INVARIANTS.md together: a task counts *)
(* as VERIFIED only while it is still at the tree it was verified at, and  *)
(* for that tree and its current attempt the developer reported success,   *)
(* the executor issued a receipt with exit code 0 and QA gave a verdict    *)
(* over such receipts.  Tree updates, recovery, refreezing and reports of  *)
(* superseded attempts may come in any order.                              *)
(***************************************************************************)
VerifiedIsEarned ==
  \A t \in Task : state[t] = "VERIFIED" =>
    /\ verifiedTree[t] = tree[t]
    /\ lastReport[t] = [dispatch |-> dispatch[t], tree |-> tree[t]]
    /\ verdict[t] # NoVerdict
    /\ verdict[t].dispatch = dispatch[t]
    /\ verdict[t].tree = tree[t]
    /\ verdict[t].receipts # {}
    /\ \A x \in verdict[t].receipts :
         /\ x \in receipts
         /\ x.task = t
         /\ x.dispatch = dispatch[t]
         /\ x.tree = tree[t]
         /\ x.exit = 0

(***************************************************************************)
(* No worker slot leaks while its coordinator works: every live row of the *)
(* ledger is the one its task will release, or its run crashed, or the     *)
(* ledger failed in the middle of the release; and no task believes it has *)
(* a reservation that is gone.  begin() overwrites the entry of            *)
(* _active_ids, so this needs every way back to FROZEN to have given the   *)
(* old slot up.                                                            *)
(***************************************************************************)
ReservationsAccountedFor ==
  /\ \A d \in ReservedIds : d \in stranded \/ \E t \in Task : activeId[t] = d
  /\ \A t \in Task : activeId[t] # NoDispatch =>
       /\ activeId[t] \in ReservedIds
       /\ activeId[t] \notin stranded
       /\ \A u \in Task : activeId[u] = activeId[t] => u = t

(***************************************************************************)
(* Whatever other runs do between the budget snapshot of begin() and its   *)
(* reserve, no dispatch gets past begin() without having been paid for:    *)
(* a task is dispatched, successful or verified only for an attempt the    *)
(* ledger admitted, unless begin() has not returned yet.                   *)
(***************************************************************************)
NoUnpaidDispatch ==
  \A t \in Task :
    state[t] \in {"DISPATCHED", "PROCESS_SUCCEEDED", "VERIFIED"} =>
      \/ dispatch[t] \in admitted
      \/ /\ beginning[RunOf[t]] # Idle
         /\ beginning[RunOf[t]].task = t
         /\ state[t] = "DISPATCHED"

(***************************************************************************)
(* The three-round cap (docs/ORCHESTRATION_LIFECYCLE.md section 3): once   *)
(* three rounds of a task have failed no review verifies it any more,      *)
(* whatever fix_round the caller passes and however often the task is      *)
(* unblocked, moved to another tree or dispatched again.                   *)
(***************************************************************************)
ExhaustedNeverVerified ==
  \A t \in Task : fixRounds[t] >= FixRoundCap => state[t] # "VERIFIED"

(***************************************************************************)
(* What the docstring of update_tree promises: "Revoke all local success   *)
(* states, even dependent task verdicts."  A verified task rests on        *)
(* verified dependencies.                                                  *)
(***************************************************************************)
DependentVerdictsRevoked ==
  \A t \in Task : state[t] = "VERIFIED" => \A d \in Deps[t] : state[d] = "VERIFIED"
=============================================================================
