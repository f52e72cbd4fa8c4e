-------------------------- MODULE CoordinatorProofs --------------------------
(***************************************************************************)
(* Proofs about the task lifecycle, for any number of runs, tasks, keys,   *)
(* trees and receipts, and any DAG.                                        *)
(***************************************************************************)
EXTENDS Coordinator, BudgetLedgerProofs

-----------------------------------------------------------------------------
(***************************************************************************)
(* The inductive invariant.  ReservationsAccountedFor says nothing of the  *)
(* states in which a task may hold a slot, of where the dispatch it names  *)
(* came from, or of a begin() under way; each is needed to see that        *)
(* begin() never overwrites a live entry of _active_ids and never reuses a *)
(* dispatch whose row was stranded.                                        *)
(***************************************************************************)
\* A slot is held for the task's current dispatch, in the states between
\* begin() and the end of the attempt, and its row is in the ledger.
SlotsHeld ==
  \A t \in Task : activeId[t] # NoDispatch =>
    /\ activeId[t] = dispatch[t]
    /\ activeId[t] \in ReservedIds
    /\ activeId[t] \notin stranded
    /\ state[t] \in {"DISPATCHED", "PROCESS_SUCCEEDED", "RECOVERY_REQUIRED"}

\* Every row has an owner, or is known to be lost.
RowsOwned ==
  \A d \in ReservedIds : d \in stranded \/ \E t \in Task : activeId[t] = d

\* A dispatch is named by its task and a key that is used up.
KeysSpent ==
  /\ \A t \in Task : dispatch[t] # NoDispatch =>
       \E k \in usedKeys[t] : dispatch[t] = <<t, k>>
  /\ \A t \in Task, k \in Key : <<t, k>> \in stranded => k \in usedKeys[t]

\* What begin() relies on between its two steps.
BeginPending ==
  \A r \in Run : beginning[r] # Idle =>
    LET t == beginning[r].task IN
      /\ RunOf[t] = r
      /\ state[t] = "DISPATCHED"
      /\ dispatch[t] # NoDispatch
      /\ dispatch[t] \notin stranded
      /\ activeId[t] = NoDispatch

\* A task is successful on the word of the current attempt's developer.
ReportCurrent ==
  \A t \in Task : state[t] \in {"PROCESS_SUCCEEDED", "VERIFIED"} =>
    /\ dispatch[t] # NoDispatch
    /\ lastReport[t] = [dispatch |-> dispatch[t], tree |-> tree[t]]

SlotInv == SlotsHeld /\ RowsOwned /\ KeysSpent /\ BeginPending
EarnedInv == ReportCurrent /\ VerifiedIsEarned
IInv == TypeOK /\ CeilingsHold /\ SlotInv /\ EarnedInv
        /\ NoUnpaidDispatch /\ ExhaustedNeverVerified

-----------------------------------------------------------------------------
(* The ledger under the coordinators.                                      *)

\* Whatever does not touch the ledger keeps its invariant.
LEMMA LedgerUntouched == LedgerInv /\ UNCHANGED ledgerVars => LedgerInv'
  BY DEF ledgerVars, LedgerInv, LedgerTypeOK, CeilingsHold

\* Giving a slot up deletes the row, or leaves it and records it as stranded.
LEMMA FreeSlotFacts ==
  ASSUME LedgerInv, NEW t \in Task, FreeSlot(t)
  PROVE  /\ LedgerInv'
         /\ activeId' = [activeId EXCEPT ![t] = NoDispatch]
         /\ \A d \in ReservedIds' : /\ d \in ReservedIds
                                    /\ d = activeId[t] /\ d # NoDispatch => d \in stranded'
         /\ \A d \in ReservedIds : d # activeId[t] => d \in ReservedIds'
         /\ stranded \subseteq stranded'
         /\ \A d \in stranded' : d \in stranded \/ (d = activeId[t] /\ d # NoDispatch)
<1> DEFINE d0 == activeId[t]
<1>1. activeId' = [activeId EXCEPT ![t] = NoDispatch]
  BY DEF FreeSlot
<1>2. CASE d0 = NoDispatch /\ UNCHANGED <<ledgerVars, stranded>>
  BY <1>1, <1>2, LedgerUntouched DEF ledgerVars, ReservedIds
<1>3. CASE d0 # NoDispatch /\ Release(d0, NoRefund) /\ UNCHANGED stranded
  <2>1. NoRefund \in [tokens : Nat, cost : Nat]
    BY DEF NoRefund
  <2>2. LedgerInv'
    BY <1>3, <2>1, ReleaseKeeps
  <2>3. PICK row \in reservations : row.dispatch = d0 /\ reservations' = reservations \ {row}
    BY <1>3 DEF Release
  <2>4. \A x \in reservations : x.dispatch = d0 => x = row
    BY <2>3 DEF LedgerInv, CeilingsHold
  <2>5. ReservedIds' = ReservedIds \ {d0}
    BY <2>3, <2>4 DEF ReservedIds
  <2> QED
    BY <1>1, <1>3, <2>2, <2>5
<1>4. CASE d0 # NoDispatch /\ stranded' = stranded \cup {d0} /\ UNCHANGED ledgerVars
  BY <1>1, <1>4, LedgerUntouched DEF ledgerVars, ReservedIds
<1> QED
  BY <1>2, <1>3, <1>4 DEF FreeSlot

\* The dispatch and the allowance of a begin() under way have their types.
LEMMA BeginTypes ==
  ASSUME TypeOK, BeginPending, NEW r \in Run, beginning[r] # Idle
  PROVE  /\ beginning[r].task \in Task
         /\ beginning[r].allowance \in Allowance
         /\ dispatch[beginning[r].task] \in DispatchId
  BY DEF TypeOK, BeginPending, Beginning

\* Every step of the system is a transaction of the ledger, or leaves it alone.
LEMMA LedgerStep == IInv /\ Next => LedgerInv'
<1> SUFFICES ASSUME IInv, Next PROVE LedgerInv'
  OBVIOUS
<1>1. LedgerInv
  BY DEF IInv, TypeOK, LedgerInv
<1>2. ASSUME NEW t \in Task, TaskStep(t) PROVE LedgerInv'
  <2>1. CASE FreeSlot(t)
    BY <1>1, <2>1, FreeSlotFacts
  <2>2. CASE UNCHANGED ledgerVars
    BY <1>1, <2>2, LedgerUntouched
  <2> QED
    BY <1>2, <2>1, <2>2 DEF TaskStep, Freeze, BeginDispatch, ReconcileRecovery,
      ReportProcessSucceeded, ReleaseDispatch, IssueReceipt, QaExhausted, QaAccept,
      QaReject, KeepSlot
<1>3. ASSUME NEW r \in Run, RunStep(r) PROVE LedgerInv'
  <2>1. CASE BeginReserve(r)
    BY <1>1, <2>1, BeginTypes, ReserveKeeps DEF BeginReserve, IInv, SlotInv
  <2>2. CASE UNCHANGED ledgerVars
    BY <1>1, <2>2, LedgerUntouched
  <2> QED
    BY <1>3, <2>1, <2>2 DEF RunStep, BeginRefused, UpdateTree
<1>4. ASSUME NEW x \in receipts, CreateEvidence(x) PROVE LedgerInv'
  BY <1>1, <1>4, LedgerUntouched DEF CreateEvidence
<1>5. ASSUME NEW runs \in SUBSET Run, Crash(runs) PROVE LedgerInv'
  BY <1>1, <1>5, LedgerUntouched DEF Crash
<1> QED
  BY <1>2, <1>3, <1>4, <1>5 DEF Next

-----------------------------------------------------------------------------
(* Type correctness.                                                       *)

\* Stranded rows are dispatches, whatever gives a slot up.
LEMMA FreeSlotTypes ==
  ASSUME TypeOK, CeilingsHold, NEW t \in Task, FreeSlot(t)
  PROVE  /\ LedgerTypeOK'
         /\ activeId' \in [Task -> DispatchId \cup {NoDispatch}]
         /\ stranded' \subseteq DispatchId
<1>1. LedgerInv
  BY DEF TypeOK, LedgerInv
<1> QED
  BY <1>1, FreeSlotFacts DEF TypeOK, LedgerInv

\* Every step keeps every variable in its type.
LEMMA TypeStep == IInv /\ Next => TypeOK'
<1> SUFFICES ASSUME IInv, Next PROVE TypeOK'
  OBVIOUS
<1>1. TypeOK /\ CeilingsHold /\ BeginPending /\ LedgerTypeOK'
  BY LedgerStep DEF IInv, SlotInv, LedgerInv
<1>2. ASSUME NEW t \in Task, TaskStep(t) PROVE TypeOK'
  <2>1. CASE Freeze(t)
    BY <1>1, <2>1 DEF Freeze, TypeOK, TaskState, registryVars, auxVars
  <2>2. ASSUME NEW k \in Key, NEW a \in Allowance, BeginDispatch(t, k, a) PROVE TypeOK'
    <3>1. <<t, k>> \in DispatchId /\ RunOf[t] \in Run
      BY CoordinatorAssumption
    <3>2. [task |-> t, allowance |-> a] \in Beginning
      BY DEF Beginning
    <3> QED
      BY <1>1, <2>2, <3>1, <3>2
      DEF BeginDispatch, TypeOK, TaskState, registryVars, auxVars
  <2>3. ASSUME NEW new \in Tree, ReconcileRecovery(t, new) PROVE TypeOK'
    BY <1>1, <2>3, FreeSlotTypes DEF ReconcileRecovery, TypeOK, TaskState, registryVars
  <2>4. ASSUME NEW k \in usedKeys[t], NEW tr \in Tree,
               ReportProcessSucceeded(t, <<t, k>>, tr) PROVE TypeOK'
    <3>1. <<t, k>> \in DispatchId
      BY <1>1, CoordinatorAssumption DEF TypeOK
    <3>2. [dispatch |-> <<t, k>>, tree |-> tr] \in Report
      BY <3>1 DEF Report
    <3> QED
      BY <1>1, <2>4, <3>2 DEF ReportProcessSucceeded, TypeOK, TaskState, registryVars
  <2>5. CASE ReleaseDispatch(t)
    BY <1>1, <2>5, FreeSlotTypes DEF ReleaseDispatch, TypeOK, aggVars, registryVars
  <2>6. ASSUME NEW k \in Key, NEW tr \in Tree, NEW exit \in {0, 1},
               IssueReceipt(t, k, tr, exit) PROVE TypeOK'
    <3>1. [task |-> t, dispatch |-> <<t, k>>, tree |-> tr, exit |-> exit] \in Receipt
      BY CoordinatorAssumption DEF Receipt
    <3> QED
      BY <1>1, <2>6, <3>1 DEF IssueReceipt, TypeOK, aggVars, auxVars
  <2>7. ASSUME NEW round \in 0 .. FixRoundCap, QaExhausted(t, round) PROVE TypeOK'
    BY <1>1, <2>7, FreeSlotTypes
    DEF QaExhausted, Demote, TypeOK, TaskState, registryVars
  <2>8. ASSUME NEW round \in 0 .. FixRoundCap, NEW ev \in SUBSET evidence, NEW tr \in Tree,
               NEW ok \in BOOLEAN, QaAccept(t, round, ev, tr, ok) PROVE TypeOK'
    <3>1. [task |-> t, dispatch |-> dispatch[t], tree |-> tree[t], receipts |-> ev] \in Verdict
      BY <1>1, <2>8 DEF QaAccept, Reviewable, TypeOK, Verdict
    <3> QED
      BY <1>1, <2>8, <3>1, FreeSlotTypes DEF QaAccept, TypeOK, TaskState, registryVars
  <2>9. ASSUME NEW round \in 0 .. FixRoundCap, NEW ev \in SUBSET evidence, NEW tr \in Tree,
               NEW ok \in BOOLEAN, QaReject(t, round, ev, tr, ok) PROVE TypeOK'
    <3>1. fixRounds' \in [Task -> 0 .. FixRoundCap]
      BY <1>1, <2>9 DEF QaReject, RoundsLeft, CurrentRound, FixRoundCap, TypeOK
    <3>2. CASE Demote(t, "BLOCKED") /\ FreeSlot(t)
      BY <1>1, <2>9, <3>1, <3>2, FreeSlotTypes
      DEF QaReject, Demote, TypeOK, TaskState, registryVars
    <3>3. CASE UNCHANGED aggVars /\ KeepSlot
      BY <1>1, <2>9, <3>1, <3>3 DEF QaReject, KeepSlot, aggVars, TypeOK, registryVars
    <3> QED
      BY <2>9, <3>2, <3>3 DEF QaReject
  <2> QED
    BY <1>2, <2>1, <2>2, <2>3, <2>4, <2>5, <2>6, <2>7, <2>8, <2>9 DEF TaskStep
<1>3. ASSUME NEW r \in Run, RunStep(r) PROVE TypeOK'
  <2>1. CASE BeginReserve(r)
    BY <1>1, <2>1, BeginTypes DEF BeginReserve, TypeOK, aggVars, registryVars
  <2>2. CASE BeginRefused(r)
    BY <1>1, <2>2, BeginTypes DEF BeginRefused, Demote, TypeOK, TaskState, registryVars, auxVars
  <2>3. ASSUME NEW new \in Tree, UpdateTree(r, new) PROVE TypeOK'
    BY <1>1, <2>3 DEF UpdateTree, TypeOK, TaskState, registryVars, auxVars
  <2> QED
    BY <1>3, <2>1, <2>2, <2>3 DEF RunStep
<1>4. ASSUME NEW x \in receipts, CreateEvidence(x) PROVE TypeOK'
  BY <1>1, <1>4 DEF CreateEvidence, TypeOK, aggVars, auxVars
<1>5. ASSUME NEW runs \in SUBSET Run, Crash(runs) PROVE TypeOK'
  BY <1>1, <1>5 DEF Crash, TypeOK, aggVars, registryVars
<1> QED
  BY <1>2, <1>3, <1>4, <1>5 DEF Next

-----------------------------------------------------------------------------
(* Slots and rows.                                                         *)

\* A slot's dispatch tells its task: no two tasks hold the same slot.
LEMMA SlotsDistinct ==
  ASSUME TypeOK, SlotsHeld, KeysSpent
  PROVE  \A t, u \in Task : activeId[t] # NoDispatch /\ activeId[u] = activeId[t] => u = t
  BY DEF SlotsHeld, KeysSpent

\* Giving up t's slot disturbs no other task's.
LEMMA FreeSlotKeepsSlots ==
  ASSUME TypeOK, TypeOK', CeilingsHold, SlotInv, NEW t \in Task, FreeSlot(t),
         UNCHANGED <<usedKeys, beginning>>,
         \A u \in Task : u # t => state'[u] = state[u] /\ dispatch'[u] = dispatch[u],
         dispatch'[t] \in {dispatch[t], NoDispatch},
         \/ state'[t] = state[t] /\ dispatch'[t] = dispatch[t]
         \/ beginning[RunOf[t]] = Idle
  PROVE  SlotInv'
<1>1. LedgerInv
  BY DEF TypeOK, LedgerInv
<1>2. /\ activeId' = [activeId EXCEPT ![t] = NoDispatch]
      /\ \A d \in ReservedIds' : /\ d \in ReservedIds
                                 /\ d = activeId[t] /\ d # NoDispatch => d \in stranded'
      /\ \A d \in ReservedIds : d # activeId[t] => d \in ReservedIds'
      /\ stranded \subseteq stranded'
      /\ \A d \in stranded' : d \in stranded \/ (d = activeId[t] /\ d # NoDispatch)
  BY <1>1, FreeSlotFacts
<1>3. \A u \in Task : u # t => activeId'[u] = activeId[u] /\ (activeId[u] = NoDispatch \/ activeId[u] # activeId[t])
  BY <1>2, SlotsDistinct DEF TypeOK, SlotInv
<1>4. activeId'[t] = NoDispatch
  BY <1>2 DEF TypeOK
<1>5. SlotsHeld'
  BY <1>2, <1>3, <1>4 DEF SlotsHeld, SlotInv
<1>6. RowsOwned'
  <2> SUFFICES ASSUME NEW d \in ReservedIds', d \notin stranded'
               PROVE  \E u \in Task : activeId'[u] = d
    BY DEF RowsOwned
  <2>1. d \in ReservedIds /\ d \notin stranded
    BY <1>2
  <2>2. PICK u \in Task : activeId[u] = d
    BY <2>1 DEF RowsOwned, SlotInv
  <2>3. NoDispatch \notin ReservedIds
    BY CoordinatorAssumption DEF ReservedIds, TypeOK, LedgerTypeOK, Reservation
  <2>4. u # t
    BY <1>2, <2>1, <2>2, <2>3
  <2> QED
    BY <1>3, <2>2, <2>4
<1>7. KeysSpent'
  <2>1. \A u \in Task : dispatch'[u] # NoDispatch => dispatch'[u] = dispatch[u]
    OBVIOUS
  <2>2. \A u \in Task, k \in Key : <<u, k>> \in stranded' => k \in usedKeys[u]
    <3> SUFFICES ASSUME NEW u \in Task, NEW k \in Key, <<u, k>> \in stranded'
                 PROVE  k \in usedKeys[u]
      OBVIOUS
    <3>1. CASE <<u, k>> \in stranded
      BY <3>1 DEF SlotInv, KeysSpent
    <3>2. CASE <<u, k>> = activeId[t] /\ <<u, k>> # NoDispatch
      BY <3>2 DEF SlotInv, KeysSpent, SlotsHeld
    <3> QED
      BY <1>2, <3>1, <3>2
  <2> QED
    BY <2>1, <2>2 DEF KeysSpent, SlotInv
<1>8. BeginPending'
  <2> SUFFICES ASSUME NEW r \in Run, beginning[r] # Idle
               PROVE  LET u == beginning[r].task IN
                        /\ RunOf[u] = r
                        /\ state'[u] = "DISPATCHED"
                        /\ dispatch'[u] # NoDispatch
                        /\ dispatch'[u] \notin stranded'
                        /\ activeId'[u] = NoDispatch
    BY DEF BeginPending
  <2> DEFINE u == beginning[r].task
  <2>1. /\ u \in Task /\ RunOf[u] = r /\ state[u] = "DISPATCHED" /\ dispatch[u] # NoDispatch
        /\ dispatch[u] \notin stranded /\ activeId[u] = NoDispatch
    BY BeginTypes DEF BeginPending, SlotInv
  <2>2. state'[u] = state[u] /\ dispatch'[u] = dispatch[u]
    BY <2>1
  <2>3. dispatch[u] \notin stranded'
    <3>1. CASE u = t
      BY <1>2, <2>1, <3>1
    <3>2. CASE u # t
      BY <1>2, <2>1, <3>2 DEF SlotInv, SlotsHeld, KeysSpent
    <3> QED
      BY <3>1, <3>2
  <2> QED
    BY <1>3, <1>4, <2>1, <2>2, <2>3
<1> QED
  BY <1>5, <1>6, <1>7, <1>8 DEF SlotInv

\* Steps away from slots, ledger and begin(): a task that holds a slot stays
\* in flight with its dispatch.
LEMMA UntouchedSlots ==
  ASSUME SlotInv,
         UNCHANGED <<activeId, ledgerVars, stranded, beginning>>,
         \A u \in Task : usedKeys[u] \subseteq usedKeys'[u],
         \A u \in Task : dispatch'[u] \in {dispatch[u], NoDispatch},
         \A u \in Task : activeId[u] # NoDispatch =>
           /\ dispatch'[u] = dispatch[u]
           /\ state'[u] \in {"DISPATCHED", "PROCESS_SUCCEEDED", "RECOVERY_REQUIRED"},
         \A r \in Run : beginning[r] # Idle =>
           LET u == beginning[r].task IN
             u \in Task /\ state'[u] = state[u] /\ dispatch'[u] = dispatch[u]
  PROVE  SlotInv'
<1>1. ReservedIds' = ReservedIds
  BY DEF ReservedIds, ledgerVars
<1>2. SlotsHeld' /\ RowsOwned'
  BY <1>1 DEF SlotInv, SlotsHeld, RowsOwned
<1>3. KeysSpent'
  BY DEF SlotInv, KeysSpent
<1>4. BeginPending'
  BY DEF SlotInv, BeginPending
<1> QED
  BY <1>2, <1>3, <1>4 DEF SlotInv

\* Every step keeps slots, rows, keys and a pending begin() consistent.
LEMMA SlotStep == IInv /\ Next => SlotInv'
<1> SUFFICES ASSUME IInv, Next PROVE SlotInv'
  OBVIOUS
<1>1. TypeOK /\ TypeOK' /\ CeilingsHold /\ SlotInv
  BY TypeStep DEF IInv
<1>2. \A r \in Run : beginning[r] # Idle =>
        /\ beginning[r].task \in Task
        /\ RunOf[beginning[r].task] = r
        /\ state[beginning[r].task] = "DISPATCHED"
  BY <1>1, BeginTypes DEF SlotInv, BeginPending
<1>3. ASSUME NEW t \in Task, TaskStep(t) PROVE SlotInv'
  <2>1. CASE Freeze(t)
    BY <1>1, <1>2, <2>1, UntouchedSlots
    DEF Freeze, Ready, auxVars, TypeOK, SlotInv, SlotsHeld
  <2>2. ASSUME NEW k \in Key, NEW a \in Allowance, BeginDispatch(t, k, a) PROVE SlotInv'
    <3>1. /\ UNCHANGED <<activeId, reservations, stranded>> /\ ReservedIds' = ReservedIds
          /\ dispatch' = [dispatch EXCEPT ![t] = <<t, k>>]
          /\ usedKeys' = [usedKeys EXCEPT ![t] = @ \cup {k}]
          /\ state' = [state EXCEPT ![t] = "DISPATCHED"]
          /\ beginning' = [beginning EXCEPT ![RunOf[t]] = [task |-> t, allowance |-> a]]
          /\ state[t] = "FROZEN" /\ k \notin usedKeys[t]
      BY <2>2 DEF BeginDispatch, auxVars, ledgerVars, ReservedIds
    <3>2. activeId[t] = NoDispatch
      BY <1>1, <3>1 DEF SlotInv, SlotsHeld
    <3>3. SlotsHeld' /\ RowsOwned'
      BY <1>1, <3>1, <3>2 DEF SlotInv, SlotsHeld, RowsOwned, TypeOK
    <3>4. KeysSpent'
      BY <1>1, <3>1 DEF SlotInv, KeysSpent, TypeOK
    <3>5. <<t, k>> # NoDispatch /\ <<t, k>> \notin stranded
      BY <1>1, <3>1, CoordinatorAssumption DEF SlotInv, KeysSpent
    <3>6. BeginPending'
      <4> SUFFICES ASSUME NEW r \in Run, beginning'[r] # Idle
                   PROVE  LET u == beginning'[r].task IN
                            /\ RunOf[u] = r
                            /\ state'[u] = "DISPATCHED"
                            /\ dispatch'[u] # NoDispatch
                            /\ dispatch'[u] \notin stranded
                            /\ activeId[u] = NoDispatch
        BY <3>1 DEF BeginPending
      <4>1. CASE r = RunOf[t]
        BY <1>1, <3>1, <3>2, <3>5, <4>1 DEF TypeOK
      <4>2. CASE r # RunOf[t]
        BY <1>1, <1>2, <3>1, <4>2 DEF TypeOK, SlotInv, BeginPending
      <4> QED
        BY <4>1, <4>2
    <3> QED
      BY <3>3, <3>4, <3>6 DEF SlotInv
  <2>3. ASSUME NEW new \in Tree, ReconcileRecovery(t, new) PROVE SlotInv'
    BY <1>1, <2>3, FreeSlotKeepsSlots DEF ReconcileRecovery, Ready, TypeOK
  <2>4. ASSUME NEW k \in usedKeys[t], NEW tr \in Tree,
               ReportProcessSucceeded(t, <<t, k>>, tr) PROVE SlotInv'
    BY <1>1, <1>2, <2>4, UntouchedSlots
    DEF ReportProcessSucceeded, Ready, TypeOK, SlotInv, SlotsHeld
  <2>5. CASE ReleaseDispatch(t)
    BY <1>1, <2>5, FreeSlotKeepsSlots DEF ReleaseDispatch, aggVars
  <2>6. ASSUME NEW k \in Key, NEW tr \in Tree, NEW exit \in {0, 1},
               IssueReceipt(t, k, tr, exit) PROVE SlotInv'
    BY <1>1, <1>2, <2>6, UntouchedSlots
    DEF IssueReceipt, aggVars, auxVars, SlotInv, SlotsHeld
  <2>7. ASSUME NEW round \in 0 .. FixRoundCap, QaExhausted(t, round) PROVE SlotInv'
    BY <1>1, <2>7, FreeSlotKeepsSlots DEF QaExhausted, Reviewable, Ready, Demote, TypeOK
  <2>8. ASSUME NEW round \in 0 .. FixRoundCap, NEW ev \in SUBSET evidence, NEW tr \in Tree,
               NEW ok \in BOOLEAN, QaAccept(t, round, ev, tr, ok) PROVE SlotInv'
    BY <1>1, <2>8, FreeSlotKeepsSlots DEF QaAccept, Reviewable, Ready, TypeOK
  <2>9. ASSUME NEW round \in 0 .. FixRoundCap, NEW ev \in SUBSET evidence, NEW tr \in Tree,
               NEW ok \in BOOLEAN, QaReject(t, round, ev, tr, ok) PROVE SlotInv'
    <3>1. CASE Demote(t, "BLOCKED") /\ FreeSlot(t)
      BY <1>1, <2>9, <3>1, FreeSlotKeepsSlots DEF QaReject, Reviewable, Ready, Demote, TypeOK
    <3>2. CASE UNCHANGED aggVars /\ KeepSlot
      BY <1>1, <1>2, <2>9, <3>2, UntouchedSlots
      DEF QaReject, KeepSlot, aggVars, SlotInv, SlotsHeld
    <3> QED
      BY <2>9, <3>1, <3>2 DEF QaReject
  <2> QED
    BY <1>3, <2>1, <2>2, <2>3, <2>4, <2>5, <2>6, <2>7, <2>8, <2>9 DEF TaskStep
<1>4. ASSUME NEW r \in Run, RunStep(r) PROVE SlotInv'
  <2>1. CASE BeginReserve(r)
    <3> DEFINE t == beginning[r].task
               d == dispatch[t]
    <3>1. /\ t \in Task /\ d \in DispatchId
          /\ RunOf[t] = r /\ state[t] = "DISPATCHED" /\ activeId[t] = NoDispatch
          /\ d # NoDispatch /\ d \notin stranded
      BY <1>1, <2>1, BeginTypes DEF BeginReserve, SlotInv, BeginPending
    <3>2. ReservedIds' = ReservedIds \cup {d}
      BY <2>1, ReserveAddsId DEF BeginReserve
    <3>3. /\ activeId' = [activeId EXCEPT ![t] = d]
          /\ beginning' = [beginning EXCEPT ![r] = Idle]
          /\ UNCHANGED <<state, dispatch, usedKeys, stranded>>
      BY <2>1 DEF BeginReserve, aggVars
    <3>4. SlotsHeld' /\ RowsOwned'
      <4>1. activeId'[t] = d /\ \A u \in Task : u # t => activeId'[u] = activeId[u]
        BY <1>1, <3>1, <3>3 DEF TypeOK
      <4>2. SlotsHeld'
        BY <1>1, <3>1, <3>2, <3>3, <4>1 DEF SlotInv, SlotsHeld
      <4>3. RowsOwned'
        <5> SUFFICES ASSUME NEW x \in ReservedIds', x \notin stranded
                     PROVE  \E u \in Task : activeId'[u] = x
          BY <3>3 DEF RowsOwned
        <5>1. CASE x = d
          BY <3>1, <4>1, <5>1
        <5>2. CASE x # d
          <6>1. PICK u \in Task : activeId[u] = x
            BY <1>1, <3>2, <5>2 DEF SlotInv, RowsOwned
          <6>2. x # NoDispatch
            BY <1>1, <3>2, <5>2, CoordinatorAssumption
            DEF ReservedIds, TypeOK, LedgerTypeOK, Reservation
          <6> QED
            BY <3>1, <4>1, <6>1, <6>2
        <5> QED
          BY <5>1, <5>2
      <4> QED
        BY <4>2, <4>3
    <3>5. KeysSpent'
      BY <1>1, <3>3 DEF SlotInv, KeysSpent
    <3>6. BeginPending'
      BY <1>1, <1>2, <3>1, <3>3 DEF SlotInv, BeginPending, TypeOK
    <3> QED
      BY <3>4, <3>5, <3>6 DEF SlotInv
  <2>2. CASE BeginRefused(r)
    <3> DEFINE t == beginning[r].task
    <3>1. t \in Task /\ RunOf[t] = r /\ activeId[t] = NoDispatch
      BY <1>1, <1>2, <2>2 DEF BeginRefused, SlotInv, BeginPending
    <3>2. /\ UNCHANGED <<activeId, reservations, dispatch, usedKeys, stranded>>
          /\ beginning' = [beginning EXCEPT ![r] = Idle]
          /\ state' = [state EXCEPT ![t] = "RECOVERY_REQUIRED"]
      BY <2>2 DEF BeginRefused, Demote, auxVars, ledgerVars
    <3>3. SlotsHeld' /\ RowsOwned'
      BY <1>1, <3>1, <3>2 DEF SlotInv, SlotsHeld, RowsOwned, ReservedIds, TypeOK
    <3>4. KeysSpent'
      BY <1>1, <3>2 DEF SlotInv, KeysSpent
    <3>5. BeginPending'
      BY <1>1, <1>2, <3>1, <3>2 DEF SlotInv, BeginPending, TypeOK
    <3> QED
      BY <3>3, <3>4, <3>5 DEF SlotInv
  <2>3. ASSUME NEW new \in Tree, UpdateTree(r, new) PROVE SlotInv'
    <3>1. \A u \in Task : activeId[u] # NoDispatch =>
            /\ dispatch'[u] = dispatch[u]
            /\ state'[u] \in {"DISPATCHED", "PROCESS_SUCCEEDED", "RECOVERY_REQUIRED"}
      BY <1>1, <2>3 DEF UpdateTree, Stale, InFlight, Moved, Revoked, SlotInv, SlotsHeld, TypeOK
    <3>2. \A x \in Run : beginning[x] # Idle =>
            LET u == beginning[x].task IN
              u \in Task /\ state'[u] = state[u] /\ dispatch'[u] = dispatch[u]
      BY <1>2, <2>3 DEF UpdateTree, Stale, Moved, Revoked, TasksOf
    <3> QED
      BY <1>1, <2>3, <3>1, <3>2, UntouchedSlots DEF UpdateTree, auxVars
  <2> QED
    BY <1>4, <2>1, <2>2, <2>3 DEF RunStep
<1>5. ASSUME NEW x \in receipts, CreateEvidence(x) PROVE SlotInv'
  BY <1>1, <1>2, <1>5, UntouchedSlots DEF CreateEvidence, aggVars, auxVars, SlotInv, SlotsHeld
<1>6. ASSUME NEW runs \in SUBSET Run, Crash(runs) PROVE SlotInv'
  <2>1. /\ UNCHANGED <<state, dispatch, usedKeys, beginning, reservations>>
        /\ ReservedIds' = ReservedIds
        /\ activeId' = [t \in Task |-> IF RunOf[t] \in runs THEN NoDispatch ELSE activeId[t]]
        /\ \A d : d \in stranded' <=>
             \/ d \in stranded
             \/ \E t \in Task : RunOf[t] \in runs /\ d = activeId[t] /\ d # NoDispatch
    BY <1>6 DEF Crash, aggVars, ledgerVars, ReservedIds
  <2>2. SlotsHeld'
    BY <1>1, <2>1, SlotsDistinct DEF SlotInv, SlotsHeld
  <2>3. RowsOwned'
    <3> SUFFICES ASSUME NEW d \in ReservedIds, d \notin stranded'
                 PROVE  \E t \in Task : activeId'[t] = d
      BY <2>1 DEF RowsOwned
    <3>1. PICK t \in Task : activeId[t] = d
      BY <1>1, <2>1 DEF SlotInv, RowsOwned
    <3>2. d # NoDispatch
      BY <1>1, CoordinatorAssumption DEF ReservedIds, TypeOK, LedgerTypeOK, Reservation
    <3>3. RunOf[t] \notin runs
      BY <2>1, <3>1, <3>2
    <3> QED
      BY <2>1, <3>1, <3>3
  <2>4. KeysSpent'
    BY <1>1, <2>1 DEF SlotInv, KeysSpent, SlotsHeld
  <2>5. BeginPending'
    <3> SUFFICES ASSUME NEW x \in Run, beginning[x] # Idle
                 PROVE  LET u == beginning[x].task IN
                          /\ RunOf[u] = x
                          /\ state[u] = "DISPATCHED"
                          /\ dispatch[u] # NoDispatch
                          /\ dispatch[u] \notin stranded'
                          /\ activeId'[u] = NoDispatch
      BY <2>1 DEF BeginPending
    <3>1. beginning[x].task \in Task
      BY <1>2
    <3> QED
      BY <1>1, <2>1, <3>1 DEF SlotInv, BeginPending, SlotsHeld, KeysSpent
  <2> QED
    BY <2>2, <2>3, <2>4, <2>5 DEF SlotInv
<1> QED
  BY <1>3, <1>4, <1>5, <1>6 DEF Next

-----------------------------------------------------------------------------
(* What a success state rests on.                                          *)

\* What a task's success rests on, for one task.
TaskEarned(t) ==
  /\ state[t] \in {"PROCESS_SUCCEEDED", "VERIFIED"} =>
       /\ dispatch[t] # NoDispatch
       /\ lastReport[t] = [dispatch |-> dispatch[t], tree |-> tree[t]]
  /\ state[t] = "VERIFIED" =>
       /\ verifiedTree[t] = tree[t]
       /\ verdict[t] # NoVerdict
       /\ verdict[t].dispatch = dispatch[t]
       /\ verdict[t].tree = tree[t]
       /\ verdict[t].receipts # {}
       /\ \A x \in verdict[t].receipts :
            /\ x \in receipts
            /\ x.task = t
            /\ x.dispatch = dispatch[t]
            /\ x.tree = tree[t]
            /\ x.exit = 0

\* A task whose own fields do not change keeps what it earned: receipts are
\* never taken back.
LEMMA EarnedUntouched ==
  ASSUME NEW t \in Task, TaskEarned(t), receipts \subseteq receipts',
         state'[t] = state[t], tree'[t] = tree[t], dispatch'[t] = dispatch[t],
         lastReport'[t] = lastReport[t], verdict'[t] = verdict[t],
         verifiedTree'[t] = verifiedTree[t]
  PROVE  TaskEarned(t)'
  BY DEF TaskEarned

\* In the other states there is nothing to have earned.
LEMMA NothingEarned ==
  ASSUME NEW t \in Task, state'[t] \notin {"PROCESS_SUCCEEDED", "VERIFIED"}
  PROVE  TaskEarned(t)'
  BY DEF TaskEarned

\* No step leaves a success state without what it rests on.
LEMMA EarnedStep == IInv /\ Next => EarnedInv'
<1> SUFFICES ASSUME IInv, Next, NEW u \in Task PROVE TaskEarned(u)'
  BY DEF EarnedInv, ReportCurrent, VerifiedIsEarned, TaskEarned
<1>1. TypeOK /\ TypeOK' /\ BeginPending /\ TaskEarned(u)
  BY TypeStep DEF IInv, SlotInv, EarnedInv, ReportCurrent, VerifiedIsEarned, TaskEarned
<1>2. ASSUME NEW t \in Task, TaskStep(t) PROVE TaskEarned(u)'
  <2>1. CASE Freeze(t)
    BY <1>1, <2>1, EarnedUntouched, NothingEarned DEF Freeze, auxVars, registryVars, TypeOK
  <2>2. ASSUME NEW k \in Key, NEW a \in Allowance, BeginDispatch(t, k, a)
        PROVE  TaskEarned(u)'
    BY <1>1, <2>2, EarnedUntouched, NothingEarned
    DEF BeginDispatch, auxVars, registryVars, TypeOK
  <2>3. ASSUME NEW new \in Tree, ReconcileRecovery(t, new) PROVE TaskEarned(u)'
    BY <1>1, <2>3, EarnedUntouched, NothingEarned DEF ReconcileRecovery, registryVars, TypeOK
  <2>4. ASSUME NEW k \in usedKeys[t], NEW tr \in Tree,
               ReportProcessSucceeded(t, <<t, k>>, tr) PROVE TaskEarned(u)'
    <3>1. CASE u = t
      BY <1>1, <2>4, <3>1
      DEF ReportProcessSucceeded, CurrentDispatch, TaskEarned, registryVars, TypeOK
    <3>2. CASE u # t
      BY <1>1, <2>4, <3>2, EarnedUntouched DEF ReportProcessSucceeded, registryVars, TypeOK
    <3> QED
      BY <3>1, <3>2
  <2>5. CASE ReleaseDispatch(t)
    BY <1>1, <2>5, EarnedUntouched DEF ReleaseDispatch, aggVars, registryVars
  <2>6. ASSUME NEW k \in Key, NEW tr \in Tree, NEW exit \in {0, 1},
               IssueReceipt(t, k, tr, exit) PROVE TaskEarned(u)'
    BY <1>1, <2>6, EarnedUntouched DEF IssueReceipt, aggVars, auxVars
  <2>7. ASSUME NEW round \in 0 .. FixRoundCap, QaExhausted(t, round) PROVE TaskEarned(u)'
    BY <1>1, <2>7, EarnedUntouched, NothingEarned DEF QaExhausted, Demote, registryVars, TypeOK
  <2>8. ASSUME NEW round \in 0 .. FixRoundCap, NEW ev \in SUBSET evidence, NEW tr \in Tree,
               NEW ok \in BOOLEAN, QaAccept(t, round, ev, tr, ok) PROVE TaskEarned(u)'
    <3>1. CASE u = t
      <4> DEFINE v == [task |-> t, dispatch |-> dispatch[t], tree |-> tree[t], receipts |-> ev]
      <4>1. v \in Verdict /\ v # NoVerdict
        BY <1>1, <2>8, CoordinatorAssumption DEF QaAccept, Reviewable, TypeOK, Verdict
      <4>2. /\ verdict'[t] = v /\ state'[t] = "VERIFIED" /\ verifiedTree'[t] = tree[t]
            /\ UNCHANGED <<tree, dispatch, lastReport, receipts>>
        BY <1>1, <2>8 DEF QaAccept, registryVars, TypeOK
      <4>3. state[t] = "PROCESS_SUCCEEDED" /\ EvidenceMatches(t, ev)
        BY <2>8 DEF QaAccept, Reviewable, GatePasses
      <4> QED
        BY <1>1, <3>1, <4>1, <4>2, <4>3 DEF TaskEarned, EvidenceMatches
    <3>2. CASE u # t
      BY <1>1, <2>8, <3>2, EarnedUntouched DEF QaAccept, registryVars, TypeOK
    <3> QED
      BY <3>1, <3>2
  <2>9. ASSUME NEW round \in 0 .. FixRoundCap, NEW ev \in SUBSET evidence, NEW tr \in Tree,
               NEW ok \in BOOLEAN, QaReject(t, round, ev, tr, ok) PROVE TaskEarned(u)'
    BY <1>1, <2>9, EarnedUntouched, NothingEarned
    DEF QaReject, Demote, aggVars, registryVars, TypeOK
  <2> QED
    BY <1>2, <2>1, <2>2, <2>3, <2>4, <2>5, <2>6, <2>7, <2>8, <2>9 DEF TaskStep
<1>3. ASSUME NEW r \in Run, RunStep(r) PROVE TaskEarned(u)'
  <2>1. CASE BeginReserve(r)
    BY <1>1, <2>1, EarnedUntouched DEF BeginReserve, aggVars, registryVars
  <2>2. CASE BeginRefused(r)
    BY <1>1, <2>2, BeginTypes, EarnedUntouched, NothingEarned
    DEF BeginRefused, Demote, registryVars, auxVars, TypeOK
  <2>3. ASSUME NEW new \in Tree, UpdateTree(r, new) PROVE TaskEarned(u)'
    <3>1. CASE u \in Stale(r, new)
      BY <1>1, <2>3, <3>1, NothingEarned
      DEF UpdateTree, Moved, Revoked, InFlight, TypeOK, TaskState
    <3>2. CASE u \notin Stale(r, new)
      BY <1>1, <2>3, <3>2, EarnedUntouched
      DEF UpdateTree, Moved, Revoked, registryVars, auxVars
    <3> QED
      BY <3>1, <3>2
  <2> QED
    BY <1>3, <2>1, <2>2, <2>3 DEF RunStep
<1>4. ASSUME NEW x \in receipts, CreateEvidence(x) PROVE TaskEarned(u)'
  BY <1>1, <1>4, EarnedUntouched DEF CreateEvidence, aggVars, auxVars
<1>5. ASSUME NEW runs \in SUBSET Run, Crash(runs) PROVE TaskEarned(u)'
  <2>1. UNCHANGED <<state, tree, dispatch, verdict, verifiedTree, receipts, lastReport>>
    BY <1>5 DEF Crash, aggVars, registryVars
  <2> QED
    BY <1>1, <2>1, EarnedUntouched
<1> QED
  BY <1>2, <1>3, <1>4, <1>5 DEF Next

-----------------------------------------------------------------------------
(* Paid dispatches and the fix-round cap.                                  *)

\* What NoUnpaidDispatch says of one task.
TaskPaid(t) ==
  state[t] \in {"DISPATCHED", "PROCESS_SUCCEEDED", "VERIFIED"} =>
    \/ dispatch[t] \in admitted
    \/ /\ beginning[RunOf[t]] # Idle
       /\ beginning[RunOf[t]].task = t
       /\ state[t] = "DISPATCHED"

\* A task whose attempt does not change stays paid: admissions are never undone.
LEMMA PaidUntouched ==
  ASSUME NEW t \in Task, TaskPaid(t), admitted \subseteq admitted',
         state'[t] = state[t], dispatch'[t] = dispatch[t],
         beginning'[RunOf[t]] = beginning[RunOf[t]]
  PROVE  TaskPaid(t)'
  BY DEF TaskPaid

\* Outside the in-flight and success states there is nothing to pay.
LEMMA NothingToPay ==
  ASSUME NEW t \in Task, state'[t] \notin {"DISPATCHED", "PROCESS_SUCCEEDED", "VERIFIED"}
  PROVE  TaskPaid(t)'
  BY DEF TaskPaid

\* No step lets an attempt past begin() without an admission.
LEMMA PaidStep == IInv /\ Next => NoUnpaidDispatch'
<1> SUFFICES ASSUME IInv, Next, NEW u \in Task PROVE TaskPaid(u)'
  BY DEF NoUnpaidDispatch, TaskPaid
<1>1. TypeOK /\ BeginPending /\ TaskPaid(u)
  BY DEF IInv, SlotInv, NoUnpaidDispatch, TaskPaid
<1>2. RunOf \in [Task -> Run]
  BY CoordinatorAssumption
<1>3. ASSUME NEW t \in Task, TaskStep(t) PROVE TaskPaid(u)'
  <2>1. CASE Freeze(t)
    BY <1>1, <2>1, PaidUntouched, NothingToPay DEF Freeze, auxVars, TypeOK
  <2>2. ASSUME NEW k \in Key, NEW a \in Allowance, BeginDispatch(t, k, a) PROVE TaskPaid(u)'
    <3>1. [task |-> t, allowance |-> a] # Idle
      BY CoordinatorAssumption DEF Beginning
    <3>2. CASE u = t
      BY <1>1, <1>2, <2>2, <3>1, <3>2 DEF BeginDispatch, TaskPaid, TypeOK
    <3>3. CASE u # t /\ RunOf[u] # RunOf[t]
      BY <1>1, <1>2, <2>2, <3>3, PaidUntouched DEF BeginDispatch, auxVars, TypeOK
    <3>4. CASE u # t /\ RunOf[u] = RunOf[t]
      <4>1. state[u] \in {"DISPATCHED", "PROCESS_SUCCEEDED", "VERIFIED"} => dispatch[u] \in admitted
        BY <1>1, <2>2, <3>4 DEF BeginDispatch, Ready, TaskPaid
      <4> QED
        BY <1>1, <2>2, <3>4, <4>1 DEF BeginDispatch, TaskPaid, auxVars, TypeOK
    <3> QED
      BY <3>2, <3>3, <3>4
  <2>3. ASSUME NEW new \in Tree, ReconcileRecovery(t, new) PROVE TaskPaid(u)'
    BY <1>1, <2>3, PaidUntouched, NothingToPay DEF ReconcileRecovery, TypeOK
  <2>4. ASSUME NEW k \in usedKeys[t], NEW tr \in Tree,
               ReportProcessSucceeded(t, <<t, k>>, tr) PROVE TaskPaid(u)'
    BY <1>1, <2>4 DEF ReportProcessSucceeded, Ready, TaskPaid, TypeOK
  <2>5. CASE ReleaseDispatch(t)
    BY <1>1, <2>5, PaidUntouched DEF ReleaseDispatch, aggVars
  <2>6. ASSUME NEW k \in Key, NEW tr \in Tree, NEW exit \in {0, 1},
               IssueReceipt(t, k, tr, exit) PROVE TaskPaid(u)'
    BY <1>1, <2>6, PaidUntouched DEF IssueReceipt, aggVars, auxVars
  <2>7. ASSUME NEW round \in 0 .. FixRoundCap, QaExhausted(t, round) PROVE TaskPaid(u)'
    BY <1>1, <2>7, PaidUntouched, NothingToPay DEF QaExhausted, Demote, TypeOK
  <2>8. ASSUME NEW round \in 0 .. FixRoundCap, NEW ev \in SUBSET evidence, NEW tr \in Tree,
               NEW ok \in BOOLEAN, QaAccept(t, round, ev, tr, ok) PROVE TaskPaid(u)'
    BY <1>1, <2>8 DEF QaAccept, Reviewable, TaskPaid, TypeOK
  <2>9. ASSUME NEW round \in 0 .. FixRoundCap, NEW ev \in SUBSET evidence, NEW tr \in Tree,
               NEW ok \in BOOLEAN, QaReject(t, round, ev, tr, ok) PROVE TaskPaid(u)'
    BY <1>1, <2>9, PaidUntouched, NothingToPay DEF QaReject, Demote, aggVars, TypeOK
  <2> QED
    BY <1>3, <2>1, <2>2, <2>3, <2>4, <2>5, <2>6, <2>7, <2>8, <2>9 DEF TaskStep
<1>4. ASSUME NEW r \in Run, RunStep(r) PROVE TaskPaid(u)'
  <2>1. CASE BeginReserve(r)
    BY <1>1, <1>2, <2>1, BeginTypes DEF BeginReserve, TaskPaid, aggVars, TypeOK
  <2>2. CASE BeginRefused(r)
    BY <1>1, <1>2, <2>2, BeginTypes DEF BeginRefused, Demote, TaskPaid, auxVars, TypeOK
  <2>3. ASSUME NEW new \in Tree, UpdateTree(r, new) PROVE TaskPaid(u)'
    BY <1>1, <2>3, PaidUntouched, NothingToPay DEF UpdateTree, Moved, Revoked, auxVars
  <2> QED
    BY <1>4, <2>1, <2>2, <2>3 DEF RunStep
<1>5. ASSUME NEW x \in receipts, CreateEvidence(x) PROVE TaskPaid(u)'
  BY <1>1, <1>5, PaidUntouched DEF CreateEvidence, aggVars, auxVars
<1>6. ASSUME NEW runs \in SUBSET Run, Crash(runs) PROVE TaskPaid(u)'
  BY <1>1, <1>6, PaidUntouched DEF Crash, aggVars
<1> QED
  BY <1>3, <1>4, <1>5, <1>6 DEF Next

\* Only qa_review verifies, and it compares the recorded round count itself.
LEMMA CapStep == IInv /\ Next => ExhaustedNeverVerified'
<1> SUFFICES ASSUME IInv, Next PROVE ExhaustedNeverVerified'
  OBVIOUS
<1>1. TypeOK /\ BeginPending /\ ExhaustedNeverVerified
  BY DEF IInv, SlotInv
<1>2. ASSUME NEW t \in Task, TaskStep(t) PROVE ExhaustedNeverVerified'
  <2>1. ASSUME NEW round \in 0 .. FixRoundCap, NEW ev \in SUBSET evidence, NEW tr \in Tree,
               NEW ok \in BOOLEAN, QaAccept(t, round, ev, tr, ok) PROVE ExhaustedNeverVerified'
    BY <1>1, <2>1
    DEF QaAccept, RoundsLeft, CurrentRound, FixRoundCap, ExhaustedNeverVerified, TypeOK
  <2>2. ASSUME NEW round \in 0 .. FixRoundCap, NEW ev \in SUBSET evidence, NEW tr \in Tree,
               NEW ok \in BOOLEAN, QaReject(t, round, ev, tr, ok) PROVE ExhaustedNeverVerified'
    BY <1>1, <2>2 DEF QaReject, Reviewable, Demote, aggVars, ExhaustedNeverVerified, TypeOK
  <2>3. CASE UNCHANGED fixRounds /\ \A u \in Task : state'[u] = "VERIFIED" => state[u] = "VERIFIED"
    BY <1>1, <2>3 DEF ExhaustedNeverVerified
  <2> QED
    BY <1>1, <1>2, <2>1, <2>2, <2>3 DEF TaskStep, Freeze, BeginDispatch, ReconcileRecovery,
      ReportProcessSucceeded, ReleaseDispatch, IssueReceipt, QaExhausted, Demote, aggVars, TypeOK
<1>3. ASSUME NEW r \in Run, RunStep(r) PROVE ExhaustedNeverVerified'
  BY <1>1, <1>3, BeginTypes DEF RunStep, BeginReserve, BeginRefused, Demote, UpdateTree,
    aggVars, ExhaustedNeverVerified, TypeOK
<1>4. ASSUME NEW x \in receipts, CreateEvidence(x) PROVE ExhaustedNeverVerified'
  BY <1>1, <1>4 DEF CreateEvidence, aggVars, ExhaustedNeverVerified
<1>5. ASSUME NEW runs \in SUBSET Run, Crash(runs) PROVE ExhaustedNeverVerified'
  BY <1>1, <1>5 DEF Crash, aggVars, ExhaustedNeverVerified
<1> QED
  BY <1>2, <1>3, <1>4, <1>5 DEF Next

-----------------------------------------------------------------------------
(* The theorems.                                                           *)

\* The invariant holds when the coordinators start on an empty ledger.
LEMMA InitInv == Init => IInv
<1> SUFFICES ASSUME Init PROVE IInv
  OBVIOUS
<1>1. LedgerInv /\ ReservedIds = {}
  BY LedgerInitInv DEF Init, LedgerInit, ReservedIds
<1>2. TypeOK
  BY <1>1, CoordinatorAssumption DEF Init, TypeOK, TaskState, FixRoundCap, LedgerInv
<1>3. SlotInv
  BY <1>1 DEF Init, SlotInv, SlotsHeld, RowsOwned, KeysSpent, BeginPending
<1>4. EarnedInv /\ NoUnpaidDispatch /\ ExhaustedNeverVerified
  BY DEF Init, EarnedInv, ReportCurrent, VerifiedIsEarned, NoUnpaidDispatch,
    ExhaustedNeverVerified
<1> QED
  BY <1>1, <1>2, <1>3, <1>4 DEF IInv, LedgerInv

\* The invariant is inductive.
LEMMA StepInv == IInv /\ [Next]_vars => IInv'
<1> SUFFICES ASSUME IInv, [Next]_vars PROVE IInv'
  OBVIOUS
<1>1. CASE Next
  BY <1>1, LedgerStep, TypeStep, SlotStep, EarnedStep, PaidStep, CapStep DEF IInv, LedgerInv
<1>2. CASE UNCHANGED vars
  BY <1>2 DEF vars, aggVars, registryVars, auxVars, ledgerVars, IInv, TypeOK, LedgerTypeOK,
    CeilingsHold, SlotInv, SlotsHeld, RowsOwned, KeysSpent, BeginPending, ReservedIds,
    EarnedInv, ReportCurrent, VerifiedIsEarned, NoUnpaidDispatch, ExhaustedNeverVerified
<1> QED
  BY <1>1, <1>2

\* The inductive invariant holds in every reachable state of the coordinators.
THEOREM Invariance == Spec => []IInv
  BY InitInv, StepInv, PTL DEF Spec

\* Every variable of the coordinators, the registries and the ledger keeps its type.
THEOREM TypeCorrect == Spec => []TypeOK
<1>1. IInv => TypeOK
  BY DEF IInv
<1> QED
  BY <1>1, Invariance, PTL

(***************************************************************************)
(* With any number of runs racing between the budget snapshot of begin()   *)
(* and its reserve, the shared ledger never exceeds its ceilings.          *)
(***************************************************************************)
THEOREM RunsRespectCeilings == Spec => []CeilingsHold
<1>1. IInv => CeilingsHold
  BY DEF IInv
<1> QED
  BY <1>1, Invariance, PTL

(***************************************************************************)
(* INV-01, INV-05 and INV-09: VERIFIED means a report, receipts and a QA   *)
(* verdict for the current attempt and the current tree, after any         *)
(* sequence of tree updates, recoveries, refreezes and stale reports.      *)
(***************************************************************************)
THEOREM VerifiedEarned == Spec => []VerifiedIsEarned
<1>1. IInv => VerifiedIsEarned
  BY DEF IInv, EarnedInv
<1> QED
  BY <1>1, Invariance, PTL

(***************************************************************************)
(* begin() never overwrites a live entry of _active_ids: each row of the   *)
(* ledger is held by exactly one task, or was stranded by a crash or by a  *)
(* ledger error during its release.                                        *)
(***************************************************************************)
THEOREM NoSlotLeak == Spec => []ReservationsAccountedFor
<1>1. IInv => ReservationsAccountedFor
  BY SlotsDistinct DEF IInv, SlotInv, SlotsHeld, RowsOwned, ReservationsAccountedFor
<1> QED
  BY <1>1, Invariance, PTL

\* No attempt gets past begin() without the ledger having admitted it.
THEOREM DispatchesPaid == Spec => []NoUnpaidDispatch
<1>1. IInv => NoUnpaidDispatch
  BY DEF IInv
<1> QED
  BY <1>1, Invariance, PTL

\* After three failed rounds no review verifies the task, whatever is retried.
THEOREM CapIsFinal == Spec => []ExhaustedNeverVerified
<1>1. IInv => ExhaustedNeverVerified
  BY DEF IInv
<1> QED
  BY <1>1, Invariance, PTL

-----------------------------------------------------------------------------
(* The coordinators as callers of the ledger.                              *)

\* Every step is one transaction of the ledger, or leaves it alone.
LEMMA LedgerMoves ==
  ASSUME IInv, Next
  PROVE  \/ UNCHANGED ledgerVars
         \/ \E d \in DispatchId, a \in Allowance : Reserve(d, a)
         \/ \E d : Release(d, NoRefund)
<1>1. ASSUME NEW t \in Task, FreeSlot(t)
      PROVE  UNCHANGED ledgerVars \/ \E d : Release(d, NoRefund)
  BY <1>1 DEF FreeSlot
<1>2. ASSUME NEW t \in Task, TaskStep(t), ~FreeSlot(t)
      PROVE  UNCHANGED ledgerVars
  BY <1>2 DEF TaskStep, Freeze, BeginDispatch, ReconcileRecovery, ReportProcessSucceeded,
    ReleaseDispatch, IssueReceipt, QaExhausted, QaAccept, QaReject, KeepSlot
<1>3. ASSUME NEW r \in Run, BeginReserve(r)
      PROVE  \E d \in DispatchId, a \in Allowance : Reserve(d, a)
  BY <1>3, BeginTypes DEF BeginReserve, IInv, SlotInv
<1>4. ASSUME NEW r \in Run, RunStep(r), ~BeginReserve(r)
      PROVE  UNCHANGED ledgerVars
  BY <1>4 DEF RunStep, BeginRefused, UpdateTree
<1>5. ASSUME NEW x \in receipts, CreateEvidence(x)
      PROVE  UNCHANGED ledgerVars
  BY <1>5 DEF CreateEvidence
<1>6. ASSUME NEW runs \in SUBSET Run, Crash(runs)
      PROVE  UNCHANGED ledgerVars
  BY <1>6 DEF Crash
<1> QED
  BY <1>1, <1>2, <1>3, <1>4, <1>5, <1>6 DEF Next

(***************************************************************************)
(* The coordinators implement the ledger's specification: seen through the *)
(* tables of the ledger, every step of every run is one reserve or release *)
(* the ledger allows, or no step at all.                                   *)
(***************************************************************************)
THEOREM CoordinatorsImplementLedger == Spec => LedgerSpec
<1>1. Init => LedgerInit
  BY DEF Init
<1>2. ASSUME IInv, [Next]_vars
      PROVE  [LedgerNext]_ledgerVars
  <2>1. CASE UNCHANGED vars
    BY <2>1 DEF vars
  <2>2. ASSUME NEW d, Release(d, NoRefund)
        PROVE  LedgerNext
    <3>1. d \in ReservedIds
      BY <2>2 DEF Release, ReservedIds
    <3>2. NoRefund \in [tokens : 0 .. MaxTokens, cost : 0 .. MaxCost]
      BY BudgetAssumption DEF NoRefund
    <3> QED
      BY <2>2, <3>1, <3>2 DEF LedgerNext
  <2>3. ASSUME NEW d \in DispatchId, NEW a \in Allowance, Reserve(d, a)
        PROVE  LedgerNext
    BY <2>3 DEF LedgerNext
  <2> QED
    BY <1>2, <2>1, <2>2, <2>3, LedgerMoves
<1>3. IInv /\ [Next]_vars => [LedgerNext]_ledgerVars
  BY <1>2
<1> QED
  BY <1>1, <1>3, Invariance, PTL DEF Spec, LedgerSpec

(***************************************************************************)
(* No retry, failed release, crash or race of any number of runs makes the *)
(* shared ledger worth more than the ceilings it was created with.         *)
(***************************************************************************)
THEOREM RunsConserveBudget == Spec => []NoBudgetCreated
BY CoordinatorsImplementLedger, BudgetConserved, PTL
=============================================================================
