---------------------------- MODULE BudgetLedger ----------------------------
(***************************************************************************)
(* The budget ledger of planner/budget.py: a pool of tokens, a pool of     *)
(* cost microunits, and the table of live reservations, one row per        *)
(* dispatch.  DurableBudgetLedger keeps the three in one SQLite database   *)
(* and runs reserve and release each inside BEGIN IMMEDIATE ... COMMIT, so *)
(* each is one atomic step whatever process calls it; a call that raises   *)
(* rolls back and changes nothing.  BudgetLedger is the same object in     *)
(* memory, under one lock.                                                 *)
(*                                                                         *)
(* The ledger row is inserted by whoever opens the database first; a later *)
(* opener's own ceilings are ignored by reserve, which reads the row.      *)
(***************************************************************************)
EXTENDS Integers, FiniteSets, FiniteSetsExt

CONSTANTS
  DispatchId,   \* every identity a dispatch can have (uuid4 in the code)
  Allowance,    \* the reservations callers ask for: records of tokens and cost
  MaxTokens,    \* tokens_remaining of the ledger row when it was inserted
  MaxCost,      \* cost_remaining of the ledger row when it was inserted
  MaxWorkers    \* max_workers of the ledger row

ASSUME BudgetAssumption ==
  /\ MaxTokens \in Nat
  /\ MaxCost \in Nat
  /\ MaxWorkers \in Nat \ {0}
  /\ Allowance \subseteq [tokens : Nat, cost : Nat]

VARIABLES
  tokens,        \* budget_ledger.tokens_remaining
  cost,          \* budget_ledger.cost_remaining
  reservations   \* the rows of budget_reservations

ledgerVars == <<tokens, cost, reservations>>

Reservation == [dispatch : DispatchId, tokens : Nat, cost : Nat]

\* The primary key column of budget_reservations.
ReservedIds == {r.dispatch : r \in reservations}

LedgerInit ==
  /\ tokens = MaxTokens
  /\ cost = MaxCost
  /\ reservations = {}

-----------------------------------------------------------------------------
(***************************************************************************)
(* The checks reserve makes inside its transaction.                        *)
(***************************************************************************)
\* (trusting the snapshot the caller took before)
AdmissibleWithoutRecheck(d, a) ==
  d \notin ReservedIds

Admissible(d, a) ==
  /\ d \notin ReservedIds
  /\ Cardinality(reservations) < MaxWorkers
  /\ a.tokens <= tokens
  /\ a.cost <= cost

Reserve(d, a) ==
  /\ Admissible(d, a)
  /\ tokens' = tokens - a.tokens
  /\ cost' = cost - a.cost
  /\ reservations' = reservations \cup
                       {[dispatch |-> d, tokens |-> a.tokens, cost |-> a.cost]}

(***************************************************************************)
(* release returns to the pools what the caller says was not used, at most *)
(* what was reserved, and deletes the row.  A second release of the same   *)
(* dispatch finds no row and raises.                                       *)
(***************************************************************************)
\* (the claimed refund taken at its word)
ReleaseUncheckedRefund(d, unused) ==
  \E r \in reservations :
    /\ r.dispatch = d
    /\ tokens' = tokens + unused.tokens
    /\ cost' = cost + unused.cost
    /\ reservations' = reservations \ {r}

Release(d, unused) ==
  \E r \in reservations :
    /\ r.dispatch = d
    /\ unused.tokens <= r.tokens
    /\ unused.cost <= r.cost
    /\ tokens' = tokens + unused.tokens
    /\ cost' = cost + unused.cost
    /\ reservations' = reservations \ {r}

NoRefund == [tokens |-> 0, cost |-> 0]

(***************************************************************************)
(* The ledger on its own: any number of processes call it with any         *)
(* dispatch, allowance and claimed refund.                                 *)
(***************************************************************************)
LedgerNext ==
  \/ \E d \in DispatchId, a \in Allowance : Reserve(d, a)
  \/ \E d \in ReservedIds,
        unused \in [tokens : 0 .. MaxTokens, cost : 0 .. MaxCost] :
       Release(d, unused)

LedgerSpec == LedgerInit /\ [][LedgerNext]_ledgerVars

-----------------------------------------------------------------------------
\* The ledger has the shape of its tables.
LedgerTypeOK ==
  /\ tokens \in Int
  /\ cost \in Int
  /\ reservations \subseteq Reservation
  /\ IsFiniteSet(reservations)

(***************************************************************************)
(* The promise of the ledger (INV-11 of docs/INVARIANTS.md, "ceilings stop *)
(* execution before extra side effects"): however the transactions of      *)
(* several processes interleave, the pools never go negative, no more than *)
(* MaxWorkers reservations are live, and a dispatch never has two.         *)
(***************************************************************************)
CeilingsHold ==
  /\ tokens >= 0
  /\ cost >= 0
  /\ Cardinality(reservations) <= MaxWorkers
  /\ \A r1, r2 \in reservations : r1.dispatch = r2.dispatch => r1 = r2

(***************************************************************************)
(* No sequence of reservations, releases and refunds creates budget: what  *)
(* is available and what live reservations hold never exceed the ceiling   *)
(* the ledger row was created with.                                        *)
(***************************************************************************)
NoBudgetCreated ==
  /\ tokens + MapThenSumSet(LAMBDA r : r.tokens, reservations) <= MaxTokens
  /\ cost + MapThenSumSet(LAMBDA r : r.cost, reservations) <= MaxCost
=============================================================================
