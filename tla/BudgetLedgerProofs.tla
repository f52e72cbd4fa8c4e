-------------------------- MODULE BudgetLedgerProofs --------------------------
(***************************************************************************)
(* What reserve and release preserve, for ledgers and allowances of any    *)
(* size.  The lemmas are about one transaction, so that they serve both    *)
(* the ledger on its own and the coordinator that is composed with it.     *)
(***************************************************************************)
EXTENDS BudgetLedger, FiniteSetTheorems, TLAPS

\* Type correctness and the ceilings together: neither is inductive alone.
LedgerInv == LedgerTypeOK /\ CeilingsHold

\* An empty ledger satisfies the invariant.
LEMMA LedgerInitInv == LedgerInit => LedgerInv
  BY BudgetAssumption, FS_EmptySet
  DEF LedgerInit, LedgerInv, LedgerTypeOK, CeilingsHold, Reservation

\* reserve, whatever is asked for, keeps the ceilings: it checks them itself.
LEMMA ReserveKeeps ==
  ASSUME LedgerInv, NEW d \in DispatchId, NEW a \in Allowance, Reserve(d, a)
  PROVE  LedgerInv'
<1> DEFINE row == [dispatch |-> d, tokens |-> a.tokens, cost |-> a.cost]
<1>1. a.tokens \in Nat /\ a.cost \in Nat
  BY BudgetAssumption
<1>2. row \in Reservation /\ row \notin reservations
  BY <1>1 DEF Reserve, Admissible, ReservedIds, Reservation
<1>3. /\ IsFiniteSet(reservations')
      /\ Cardinality(reservations') = Cardinality(reservations) + 1
      /\ Cardinality(reservations) \in Nat
  BY <1>2, FS_AddElement, FS_CardinalityType DEF LedgerInv, LedgerTypeOK, Reserve
<1>4. LedgerTypeOK'
  BY <1>1, <1>2, <1>3 DEF LedgerInv, LedgerTypeOK, Reserve, Reservation
<1>5. Cardinality(reservations') <= MaxWorkers
  BY <1>3, BudgetAssumption DEF Reserve, Admissible
<1>6. tokens' >= 0 /\ cost' >= 0
  BY <1>1 DEF LedgerInv, LedgerTypeOK, Reserve, Admissible
<1>7. \A r1, r2 \in reservations' : r1.dispatch = r2.dispatch => r1 = r2
  BY DEF Reserve, Admissible, ReservedIds, LedgerInv, CeilingsHold
<1> QED
  BY <1>4, <1>5, <1>6, <1>7 DEF LedgerInv, CeilingsHold

\* The dispatch of an admitted reservation joins the ones with a row.
LEMMA ReserveAddsId ==
  ASSUME NEW d, NEW a, Reserve(d, a)
  PROVE  ReservedIds' = ReservedIds \cup {d}
<1> DEFINE row == [dispatch |-> d, tokens |-> a.tokens, cost |-> a.cost]
<1>1. reservations' = reservations \cup {row} /\ row.dispatch = d
  BY DEF Reserve
<1>2. \A x : x \in ReservedIds' <=> \E r \in reservations' : x = r.dispatch
  BY DEF ReservedIds
<1>3. \A x : x \in ReservedIds <=> \E r \in reservations : x = r.dispatch
  BY DEF ReservedIds
<1> HIDE DEF row
<1> QED
  BY <1>1, <1>2, <1>3

\* release of an existing reservation, with any refund of at most what it held.
LEMMA ReleaseKeeps ==
  ASSUME LedgerInv, NEW d, NEW unused \in [tokens : Nat, cost : Nat],
         Release(d, unused)
  PROVE  LedgerInv'
<1>1. PICK r \in reservations :
        /\ tokens' = tokens + unused.tokens
        /\ cost' = cost + unused.cost
        /\ reservations' = reservations \ {r}
  BY DEF Release
<1>2. /\ IsFiniteSet(reservations')
      /\ Cardinality(reservations') = Cardinality(reservations) - 1
      /\ Cardinality(reservations) \in Nat
  BY <1>1, FS_RemoveElement, FS_CardinalityType DEF LedgerInv, LedgerTypeOK
<1>3. LedgerTypeOK'
  BY <1>1, <1>2 DEF LedgerInv, LedgerTypeOK
<1>4. CeilingsHold'
  BY <1>1, <1>2, BudgetAssumption DEF LedgerInv, LedgerTypeOK, CeilingsHold
<1> QED
  BY <1>3, <1>4 DEF LedgerInv

(***************************************************************************)
(* However the transactions of several processes interleave, the durable   *)
(* budget ledger never overdraws a pool, never has more live reservations  *)
(* than max_workers, and never two for one dispatch.                       *)
(***************************************************************************)
THEOREM LedgerCeilings == LedgerSpec => []CeilingsHold
<1>1. LedgerInit => LedgerInv
  BY LedgerInitInv
<1>2. LedgerInv /\ [LedgerNext]_ledgerVars => LedgerInv'
  <2> SUFFICES ASSUME LedgerInv, [LedgerNext]_ledgerVars
               PROVE  LedgerInv'
    OBVIOUS
  <2>1. CASE \E d \in DispatchId, a \in Allowance : Reserve(d, a)
    BY <2>1, ReserveKeeps
  <2>2. CASE \E d \in ReservedIds,
               unused \in [tokens : 0 .. MaxTokens, cost : 0 .. MaxCost] :
               Release(d, unused)
    BY <2>2, ReleaseKeeps, BudgetAssumption
  <2>3. CASE UNCHANGED ledgerVars
    BY <2>3 DEF ledgerVars, LedgerInv, LedgerTypeOK, CeilingsHold
  <2> QED
    BY <2>1, <2>2, <2>3 DEF LedgerNext
<1>3. LedgerInv => CeilingsHold
  BY DEF LedgerInv
<1> QED
  BY <1>1, <1>2, <1>3, PTL DEF LedgerSpec

-----------------------------------------------------------------------------
(***************************************************************************)
(* Sums over finite sets.  MapThenSumSet is a recursive function that      *)
(* removes some element after the other; what the ledger needs to know is  *)
(* that the order does not matter, so that a new reservation adds its      *)
(* amount and a deleted one takes it away.  Each lemma is proved with a    *)
(* smallest counterexample.                                                *)
(***************************************************************************)
\* The element the sum takes next.
Pick(s) == CHOOSE x \in s : TRUE

\* g is the sum of the amounts w of every subset of X.
IsTotal(w, X, g) ==
  g = [s \in SUBSET X |-> IF s = {} THEN 0 ELSE w[Pick(s)] + g[s \ {Pick(s)}]]

\* A non-empty family of subsets of a finite set has a smallest member.
LEMMA SmallestSet ==
  ASSUME NEW X, IsFiniteSet(X), NEW B \in SUBSET SUBSET X, B # {}
  PROVE  \E T \in B : \A S \in B : S \subseteq T => S = T
<1> DEFINE R == StrictSubsetOrdering(X)
<1>1. IsWellFoundedOn(R, FiniteSubsetsOf(X))
  BY FS_StrictSubsetOrderingWellFounded
<1>2. B \subseteq FiniteSubsetsOf(X)
  BY FS_Subset DEF FiniteSubsetsOf
<1>3. \A S, T \in B : S \subseteq T /\ S # T => <<S, T>> \in R
  BY DEF StrictSubsetOrdering
<1> HIDE DEF R
<1>4. \E T \in B : \A S \in B : ~(<<S, T>> \in R)
  BY <1>1, <1>2, WFMin
<1> QED
  BY <1>3, <1>4

\* One turn of the recursion.
LEMMA TotalStep ==
  ASSUME NEW w, NEW X, NEW g, IsTotal(w, X, g)
  PROVE  /\ g[{}] = 0
         /\ \A s \in SUBSET X : s # {} =>
              /\ Pick(s) \in s
              /\ g[s] = w[Pick(s)] + g[s \ {Pick(s)}]
BY DEF IsTotal, Pick

\* Sums of natural numbers are natural numbers.
LEMMA TotalType ==
  ASSUME NEW U, NEW w \in [U -> Nat], NEW X \in SUBSET U, IsFiniteSet(X),
         NEW g, IsTotal(w, X, g)
  PROVE  \A s \in SUBSET X : g[s] \in Nat
<1> DEFINE B == {s \in SUBSET X : g[s] \notin Nat}
<1> SUFFICES ASSUME B # {} PROVE FALSE
  OBVIOUS
<1>1. PICK T \in B : \A S \in B : S \subseteq T => S = T
  <2> HIDE DEF B
  <2>1. B \in SUBSET SUBSET X
    BY DEF B
  <2> QED
    BY <2>1, SmallestSet
<1>2. T # {}
  <2>1. g[{}] = 0
    BY TotalStep
  <2>2. g[T] \notin Nat /\ 0 \in Nat
    BY <1>1
  <2> QED
    BY <2>1, <2>2, Zenon
<1>3. Pick(T) \in T /\ g[T] = w[Pick(T)] + g[T \ {Pick(T)}]
  BY <1>1, <1>2, TotalStep
<1>4. g[T \ {Pick(T)}] \in Nat
  BY <1>1, <1>3
<1>5. w[Pick(T)] \in Nat
  BY <1>1, <1>3
<1> QED
  BY <1>1, <1>3, <1>4, <1>5

\* The order does not matter: any element may be taken first.
LEMMA TotalOfAny ==
  ASSUME NEW U, NEW w \in [U -> Nat], NEW X \in SUBSET U, IsFiniteSet(X),
         NEW g, IsTotal(w, X, g)
  PROVE  \A s \in SUBSET X : \A x \in s : g[s] = w[x] + g[s \ {x}]
<1> DEFINE B == {s \in SUBSET X : \E x \in s : g[s] # w[x] + g[s \ {x}]}
<1> SUFFICES ASSUME B # {} PROVE FALSE
  OBVIOUS
<1>1. PICK T \in B : \A S \in B : S \subseteq T => S = T
  <2> HIDE DEF B
  <2>1. B \in SUBSET SUBSET X
    BY DEF B
  <2> QED
    BY <2>1, SmallestSet
<1>2. PICK x \in T : g[T] # w[x] + g[T \ {x}]
  BY <1>1
<1>3. PICK y : y = Pick(T)
  OBVIOUS
<1>4. y \in T /\ g[T] = w[y] + g[T \ {y}] /\ x # y
  <2>1. T \in SUBSET X /\ T # {}
    BY <1>1, <1>2
  <2>2. Pick(T) \in T /\ g[T] = w[Pick(T)] + g[T \ {Pick(T)}]
    BY <2>1, TotalStep
  <2> QED
    BY <1>2, <1>3, <2>2, Zenon
<1>5. g[T \ {y}] = w[x] + g[(T \ {y}) \ {x}]
  <2>1. T \ {y} \notin B /\ T \ {y} \in SUBSET X /\ x \in T \ {y}
    BY <1>1, <1>2, <1>4
  <2> QED
    BY <2>1
<1>6. g[T \ {x}] = w[y] + g[(T \ {x}) \ {y}]
  <2>1. T \ {x} \notin B /\ T \ {x} \in SUBSET X /\ y \in T \ {x}
    BY <1>1, <1>2, <1>4
  <2> QED
    BY <2>1
<1>7. (T \ {y}) \ {x} = (T \ {x}) \ {y}
  OBVIOUS
<1>8. /\ w[x] \in Nat /\ w[y] \in Nat
      /\ g[T \ {x}] \in Nat /\ g[T \ {y}] \in Nat /\ g[(T \ {x}) \ {y}] \in Nat
  <2>1. x \in U /\ y \in U
    BY <1>1, <1>2, <1>4
  <2>2. T \ {x} \in SUBSET X /\ T \ {y} \in SUBSET X /\ (T \ {x}) \ {y} \in SUBSET X
    BY <1>1
  <2> QED
    BY <2>1, <2>2, TotalType
<1>9. g[T] = w[x] + g[T \ {x}]
  <2>1. PICK rest : rest = g[(T \ {x}) \ {y}]
    OBVIOUS
  <2>2. g[T] = w[y] + (w[x] + rest) /\ g[T \ {x}] = w[y] + rest
    BY <1>4, <1>5, <1>6, <1>7, <2>1, Zenon
  <2>3. \A a, b, r \in Nat : a + (b + r) = b + (a + r)
    OBVIOUS
  <2>4. w[y] + (w[x] + rest) = w[x] + (w[y] + rest)
    BY <1>8, <2>1, <2>3, Zenon
  <2> QED
    BY <2>2, <2>4, Zenon
<1> QED
  BY <1>2, <1>9

\* A subset has the same sum whichever set it is taken from.
LEMMA TotalOfSubset ==
  ASSUME NEW w, NEW X, NEW Y \in SUBSET X, IsFiniteSet(Y),
         NEW g, IsTotal(w, X, g), NEW h, IsTotal(w, Y, h)
  PROVE  \A s \in SUBSET Y : g[s] = h[s]
<1> DEFINE B == {s \in SUBSET Y : g[s] # h[s]}
<1> SUFFICES ASSUME B # {} PROVE FALSE
  OBVIOUS
<1>1. PICK T \in B : \A S \in B : S \subseteq T => S = T
  <2> HIDE DEF B
  <2>1. B \in SUBSET SUBSET Y
    BY DEF B
  <2> QED
    BY <2>1, SmallestSet
<1>2. T # {} /\ T \in SUBSET X /\ T \in SUBSET Y
  BY <1>1, TotalStep
<1>3. PICK y : y = Pick(T)
  OBVIOUS
<1>4. y \in T /\ g[T] = w[y] + g[T \ {y}] /\ h[T] = w[y] + h[T \ {y}]
  <2>1. Pick(T) \in T /\ g[T] = w[Pick(T)] + g[T \ {Pick(T)}]
    BY <1>2, TotalStep
  <2>2. h[T] = w[Pick(T)] + h[T \ {Pick(T)}]
    <3>1. \A s \in SUBSET Y : s # {} => h[s] = w[Pick(s)] + h[s \ {Pick(s)}]
      BY TotalStep
    <3> QED
      BY <1>2, <3>1, Zenon
  <2> QED
    BY <1>3, <2>1, <2>2, Zenon
<1>5. g[T \ {y}] = h[T \ {y}]
  BY <1>1, <1>2, <1>4
<1> QED
  BY <1>1, <1>4, <1>5

\* Every finite set has a sum: the recursion is well founded.
LEMMA TotalExists ==
  ASSUME NEW w, NEW X, IsFiniteSet(X)
  PROVE  \E g : IsTotal(w, X, g)
<1> DEFINE B == {s \in SUBSET X : ~ \E g : IsTotal(w, s, g)}
<1> SUFFICES ASSUME X \in B PROVE FALSE
  OBVIOUS
<1>1. PICK T \in B : \A S \in B : S \subseteq T => S = T
  <2>1. B # {} /\ B \in SUBSET SUBSET X
    OBVIOUS
  <2> HIDE DEF B
  <2> QED
    BY <2>1, SmallestSet
<1>2. \A s \in SUBSET T : s # T => \E h : IsTotal(w, s, h)
  BY <1>1
<1> DEFINE H(s) == CHOOSE h : IsTotal(w, s, h)
           V(s) == IF s = {} THEN 0 ELSE w[Pick(s)] + H(s \ {Pick(s)})[s \ {Pick(s)}]
           g == [s \in SUBSET T |-> V(s)]
<1>3. \A s \in SUBSET T : s # T => IsTotal(w, s, H(s))
  BY <1>2
<1>4. ASSUME NEW s \in SUBSET T, s # T
      PROVE  H(s)[s] = V(s)
  <2>1. IsTotal(w, s, H(s))
    BY <1>3, <1>4
  <2>2. PICK h : h = H(s)
    OBVIOUS
  <2>3. CASE s = {}
    BY <2>1, <2>2, <2>3, TotalStep
  <2>4. CASE s # {}
    <3>1. PICK x : x = Pick(s)
      OBVIOUS
    <3>2. x \in s /\ h[s] = w[x] + h[s \ {x}]
      BY <2>1, <2>2, <2>4, <3>1, TotalStep
    <3>3. s \ {x} \in SUBSET T /\ s \ {x} # T /\ s \ {x} \in SUBSET s
      BY <1>4, <3>2
    <3>4. PICK k : k = H(s \ {x})
      OBVIOUS
    <3>5. IsTotal(w, s \ {x}, k)
      BY <1>3, <3>3, <3>4
    <3>6. IsFiniteSet(s \ {x})
      BY <1>1, <3>3, FS_Subset
    <3>7. h[s \ {x}] = k[s \ {x}]
      <4>1. IsTotal(w, s, h) /\ s \ {x} \in SUBSET (s \ {x})
        BY <2>1, <2>2, Zenon
      <4> HIDE DEF B, H, V, g
      <4>2. \A t \in SUBSET (s \ {x}) : h[t] = k[t]
        BY <3>3, <3>5, <3>6, <4>1, TotalOfSubset
      <4> QED
        BY <4>1, <4>2, Zenon
    <3> QED
      BY <2>2, <2>4, <3>1, <3>2, <3>4, <3>7
  <2> QED
    BY <2>3, <2>4
<1>5. IsTotal(w, T, g)
  <2>1. ASSUME NEW s \in SUBSET T, s # {}
        PROVE  V(s) = w[Pick(s)] + g[s \ {Pick(s)}]
    <3>1. PICK x : x = Pick(s)
      OBVIOUS
    <3>2. x \in s
      BY <2>1, <3>1 DEF Pick
    <3>3. s \ {x} \in SUBSET T /\ s \ {x} # T
      BY <2>1, <3>2
    <3>4. V(s) = w[x] + H(s \ {x})[s \ {x}]
      BY <2>1, <3>1, Zenon
    <3>5. g[s \ {x}] = V(s \ {x})
      <4> HIDE DEF V
      <4> QED
        BY <3>3
    <3> HIDE DEF V, H, g
    <3>6. H(s \ {x})[s \ {x}] = V(s \ {x})
      BY <1>4, <3>3
    <3> QED
      BY <3>1, <3>4, <3>5, <3>6, Zenon
  <2>2. \A s \in SUBSET T :
          g[s] = IF s = {} THEN 0 ELSE w[Pick(s)] + g[s \ {Pick(s)}]
    <3> SUFFICES ASSUME NEW s \in SUBSET T
                 PROVE  g[s] = IF s = {} THEN 0 ELSE w[Pick(s)] + g[s \ {Pick(s)}]
      OBVIOUS
    <3>1. g[s] = V(s)
      <4> HIDE DEF V
      <4> QED
        OBVIOUS
    <3>2. CASE s = {}
      BY <3>1, <3>2, Zenon
    <3>3. CASE s # {}
      <4>1. V(s) = w[Pick(s)] + g[s \ {Pick(s)}]
        BY <2>1, <3>3
      <4> HIDE DEF V, g
      <4> QED
        BY <3>1, <3>3, <4>1, Zenon
    <3> QED
      BY <3>2, <3>3
  <2> HIDE DEF g
  <2>3. g = [s \in SUBSET T |-> g[s]]
    BY DEF g
  <2> QED
    BY <2>2, <2>3 DEF IsTotal
<1> QED
  BY <1>1, <1>5

-----------------------------------------------------------------------------
(* What the reservations hold.                                             *)

TokensOf == [r \in Reservation |-> r.tokens]
CostOf == [r \in Reservation |-> r.cost]

\* The sums NoBudgetCreated speaks of.
ReservedTokens(X) == MapThenSumSet(LAMBDA r : r.tokens, X)
ReservedCost(X) == MapThenSumSet(LAMBDA r : r.cost, X)

\* They are totals of the columns.
LEMMA ReservedTokensIsTotal ==
  ASSUME NEW X \in SUBSET Reservation, IsFiniteSet(X)
  PROVE  \E g : IsTotal(TokensOf, X, g) /\ ReservedTokens(X) = g[X]
<1> DEFINE Q(g) == g = [s \in SUBSET X |-> IF s = {} THEN 0
                                           ELSE Pick(s).tokens + g[s \ {Pick(s)}]]
<1>1. ASSUME NEW g
      PROVE  IsTotal(TokensOf, X, g) <=> Q(g)
  <2>1. \A s \in SUBSET X : s # {} => TokensOf[Pick(s)] = Pick(s).tokens
    BY DEF Pick, TokensOf
  <2>2. [s \in SUBSET X |-> IF s = {} THEN 0 ELSE TokensOf[Pick(s)] + g[s \ {Pick(s)}]]
          = [s \in SUBSET X |-> IF s = {} THEN 0 ELSE Pick(s).tokens + g[s \ {Pick(s)}]]
    BY <2>1
  <2> QED
    BY <2>2, Zenon DEF IsTotal
<1>2. Q(CHOOSE g : Q(g))
  <2>1. \E g : Q(g)
    BY <1>1, TotalExists, Zenon
  <2> QED
    BY <2>1, Zenon
<1>3. ReservedTokens(X) = (CHOOSE g : Q(g))[X]
  BY Zenon DEF ReservedTokens, MapThenSumSet, MapThenFoldSet, Pick
<1> QED
  BY <1>1, <1>2, <1>3, Zenon

LEMMA ReservedCostIsTotal ==
  ASSUME NEW X \in SUBSET Reservation, IsFiniteSet(X)
  PROVE  \E g : IsTotal(CostOf, X, g) /\ ReservedCost(X) = g[X]
<1> DEFINE Q(g) == g = [s \in SUBSET X |-> IF s = {} THEN 0
                                           ELSE Pick(s).cost + g[s \ {Pick(s)}]]
<1>1. ASSUME NEW g
      PROVE  IsTotal(CostOf, X, g) <=> Q(g)
  <2>1. \A s \in SUBSET X : s # {} => CostOf[Pick(s)] = Pick(s).cost
    BY DEF Pick, CostOf
  <2>2. [s \in SUBSET X |-> IF s = {} THEN 0 ELSE CostOf[Pick(s)] + g[s \ {Pick(s)}]]
          = [s \in SUBSET X |-> IF s = {} THEN 0 ELSE Pick(s).cost + g[s \ {Pick(s)}]]
    BY <2>1
  <2> QED
    BY <2>2, Zenon DEF IsTotal
<1>2. Q(CHOOSE g : Q(g))
  <2>1. \E g : Q(g)
    BY <1>1, TotalExists, Zenon
  <2> QED
    BY <2>1, Zenon
<1>3. ReservedCost(X) = (CHOOSE g : Q(g))[X]
  BY Zenon DEF ReservedCost, MapThenSumSet, MapThenFoldSet, Pick
<1> QED
  BY <1>1, <1>2, <1>3, Zenon

\* Taking one reservation out of the table.
LEMMA TotalWithout ==
  ASSUME NEW U, NEW w \in [U -> Nat], NEW X \in SUBSET U, IsFiniteSet(X), NEW r \in X,
         NEW g, IsTotal(w, X, g), NEW h, IsTotal(w, X \ {r}, h)
  PROVE  g[X] = w[r] + h[X \ {r}] /\ h[X \ {r}] \in Nat
<1>1. IsFiniteSet(X \ {r}) /\ X \ {r} \in SUBSET X /\ X \ {r} \in SUBSET U
  BY FS_Subset
<1>2. g[X] = w[r] + g[X \ {r}]
  BY TotalOfAny
<1>3. g[X \ {r}] = h[X \ {r}]
  <2>1. PICK Y : Y = X \ {r}
    OBVIOUS
  <2>2. Y \in SUBSET X /\ IsFiniteSet(Y) /\ IsTotal(w, Y, h)
    BY <1>1, <2>1, Zenon
  <2>3. \A s \in SUBSET Y : g[s] = h[s]
    BY <2>2, TotalOfSubset
  <2> QED
    BY <2>1, <2>3, Zenon
<1>4. h[X \ {r}] \in Nat
  BY <1>1, TotalType
<1> QED
  BY <1>2, <1>3, <1>4, Zenon

LEMMA ReservedWithout ==
  ASSUME NEW X \in SUBSET Reservation, IsFiniteSet(X), NEW r \in X
  PROVE  /\ ReservedTokens(X) = r.tokens + ReservedTokens(X \ {r})
         /\ ReservedTokens(X \ {r}) \in Nat
         /\ ReservedCost(X) = r.cost + ReservedCost(X \ {r})
         /\ ReservedCost(X \ {r}) \in Nat
<1>1. IsFiniteSet(X \ {r}) /\ X \ {r} \in SUBSET Reservation
  BY FS_Subset
<1>2. TokensOf \in [Reservation -> Nat] /\ TokensOf[r] = r.tokens
  BY DEF TokensOf, Reservation
<1>3. CostOf \in [Reservation -> Nat] /\ CostOf[r] = r.cost
  BY DEF CostOf, Reservation
<1>4. PICK g : IsTotal(TokensOf, X, g) /\ ReservedTokens(X) = g[X]
  BY ReservedTokensIsTotal
<1>5. PICK h : IsTotal(TokensOf, X \ {r}, h) /\ ReservedTokens(X \ {r}) = h[X \ {r}]
  BY <1>1, ReservedTokensIsTotal
<1>6. g[X] = TokensOf[r] + h[X \ {r}] /\ h[X \ {r}] \in Nat
  BY <1>2, <1>4, <1>5, TotalWithout
<1>7. PICK j : IsTotal(CostOf, X, j) /\ ReservedCost(X) = j[X]
  BY ReservedCostIsTotal
<1>8. PICK k : IsTotal(CostOf, X \ {r}, k) /\ ReservedCost(X \ {r}) = k[X \ {r}]
  BY <1>1, ReservedCostIsTotal
<1>9. j[X] = CostOf[r] + k[X \ {r}] /\ k[X \ {r}] \in Nat
  BY <1>3, <1>7, <1>8, TotalWithout
<1> QED
  BY <1>2, <1>3, <1>4, <1>5, <1>6, <1>7, <1>8, <1>9, Zenon

\* An empty table holds nothing.
LEMMA NothingReserved == ReservedTokens({}) = 0 /\ ReservedCost({}) = 0
<1>1. IsFiniteSet({}) /\ {} \in SUBSET Reservation
  BY FS_EmptySet
<1>2. PICK g : IsTotal(TokensOf, {}, g) /\ ReservedTokens({}) = g[{}]
  BY <1>1, ReservedTokensIsTotal
<1>3. PICK h : IsTotal(CostOf, {}, h) /\ ReservedCost({}) = h[{}]
  BY <1>1, ReservedCostIsTotal
<1>4. g[{}] = 0
  BY <1>2, TotalStep
<1>5. h[{}] = 0
  BY <1>3, TotalStep
<1> QED
  BY <1>2, <1>3, <1>4, <1>5, Zenon

\* NoBudgetCreated in these terms.
Conserved ==
  /\ tokens + ReservedTokens(reservations) <= MaxTokens
  /\ cost + ReservedCost(reservations) <= MaxCost

LEMMA ConservedIsNoBudgetCreated == Conserved <=> NoBudgetCreated
BY Zenon DEF Conserved, NoBudgetCreated, ReservedTokens, ReservedCost

\* reserve moves what it takes from the pools to the new row.
LEMMA ReserveConserves ==
  ASSUME LedgerInv, LedgerInv', Conserved, NEW d \in DispatchId, NEW a \in Allowance,
         Reserve(d, a)
  PROVE  Conserved'
<1>1. PICK r : r = [dispatch |-> d, tokens |-> a.tokens, cost |-> a.cost]
  OBVIOUS
<1>2. /\ r \in reservations' /\ reservations' \ {r} = reservations
      /\ r.tokens = a.tokens /\ r.cost = a.cost
      /\ tokens' = tokens - a.tokens /\ cost' = cost - a.cost
  BY <1>1 DEF Reserve, Admissible, ReservedIds
<1>3. reservations' \in SUBSET Reservation /\ IsFiniteSet(reservations')
  BY DEF LedgerInv, LedgerTypeOK
<1>4. PICK t, u, c, e :
        /\ t = ReservedTokens(reservations) /\ u = ReservedTokens(reservations')
        /\ c = ReservedCost(reservations) /\ e = ReservedCost(reservations')
  OBVIOUS
<1>5. u = r.tokens + t /\ t \in Nat /\ e = r.cost + c /\ c \in Nat
  BY <1>2, <1>3, <1>4, ReservedWithout, Zenon
<1>6. a.tokens \in Nat /\ a.cost \in Nat
  BY BudgetAssumption
<1>7. tokens \in Int /\ cost \in Int
  BY DEF LedgerInv, LedgerTypeOK
<1>8. tokens + t <= MaxTokens /\ cost + c <= MaxCost
  BY <1>4, Zenon DEF Conserved
<1>9. tokens' + u <= MaxTokens /\ cost' + e <= MaxCost
  BY <1>2, <1>5, <1>6, <1>7, <1>8, BudgetAssumption
<1>10. Conserved' <=> /\ tokens' + ReservedTokens(reservations') <= MaxTokens
                      /\ cost' + ReservedCost(reservations') <= MaxCost
  BY Zenon DEF Conserved
<1> QED
  BY <1>4, <1>9, <1>10, Zenon

\* release returns at most what the row it deletes held.
LEMMA ReleaseConserves ==
  ASSUME LedgerInv, Conserved, NEW d, NEW unused \in [tokens : Nat, cost : Nat],
         Release(d, unused)
  PROVE  Conserved'
<1>1. PICK r \in reservations :
        /\ unused.tokens <= r.tokens /\ unused.cost <= r.cost
        /\ tokens' = tokens + unused.tokens /\ cost' = cost + unused.cost
        /\ reservations' = reservations \ {r}
  BY DEF Release
<1>2. reservations \in SUBSET Reservation /\ IsFiniteSet(reservations)
  BY DEF LedgerInv, LedgerTypeOK
<1>3. PICK t, u, c, e :
        /\ t = ReservedTokens(reservations) /\ u = ReservedTokens(reservations')
        /\ c = ReservedCost(reservations) /\ e = ReservedCost(reservations')
  OBVIOUS
<1>4. t = r.tokens + u /\ u \in Nat /\ c = r.cost + e /\ e \in Nat
  BY <1>1, <1>2, <1>3, ReservedWithout, Zenon
<1>5. r.tokens \in Nat /\ r.cost \in Nat /\ unused.tokens \in Nat /\ unused.cost \in Nat
  BY <1>2 DEF Reservation
<1>6. tokens \in Int /\ cost \in Int
  BY DEF LedgerInv, LedgerTypeOK
<1>7. tokens + t <= MaxTokens /\ cost + c <= MaxCost
  BY <1>3, Zenon DEF Conserved
<1>8. tokens' + u <= MaxTokens /\ cost' + e <= MaxCost
  BY <1>1, <1>4, <1>5, <1>6, <1>7, BudgetAssumption
<1>9. Conserved' <=> /\ tokens' + ReservedTokens(reservations') <= MaxTokens
                     /\ cost' + ReservedCost(reservations') <= MaxCost
  BY Zenon DEF Conserved
<1> QED
  BY <1>3, <1>8, <1>9, Zenon

(***************************************************************************)
(* No sequence of reserve and release calls of any number of processes,    *)
(* with whatever refunds they claim, creates budget: what is left in a     *)
(* pool and what the live reservations hold stay within the ceiling.       *)
(***************************************************************************)
THEOREM BudgetConserved == LedgerSpec => []NoBudgetCreated
<1> DEFINE CInv == LedgerInv /\ Conserved
<1>1. LedgerInit => CInv
  <2> SUFFICES ASSUME LedgerInit PROVE CInv
    OBVIOUS
  <2>1. tokens = MaxTokens /\ cost = MaxCost /\ reservations = {}
    BY DEF LedgerInit
  <2>2. MaxTokens + 0 <= MaxTokens /\ MaxCost + 0 <= MaxCost
    BY BudgetAssumption
  <2>3. Conserved
    BY <2>1, <2>2, NothingReserved, Zenon DEF Conserved
  <2> QED
    BY <2>3, LedgerInitInv
<1>2. CInv /\ [LedgerNext]_ledgerVars => CInv'
  <2> SUFFICES ASSUME CInv, [LedgerNext]_ledgerVars
               PROVE  CInv'
    OBVIOUS
  <2>1. ASSUME NEW d \in DispatchId, NEW a \in Allowance, Reserve(d, a)
        PROVE  CInv'
    BY <2>1, ReserveKeeps, ReserveConserves
  <2>2. ASSUME NEW d \in ReservedIds,
               NEW unused \in [tokens : 0 .. MaxTokens, cost : 0 .. MaxCost],
               Release(d, unused)
        PROVE  CInv'
    <3>1. unused \in [tokens : Nat, cost : Nat]
      BY BudgetAssumption
    <3> QED
      BY <2>2, <3>1, ReleaseKeeps, ReleaseConserves
  <2>3. CASE UNCHANGED ledgerVars
    <3>1. LedgerInv'
      BY <2>3 DEF ledgerVars, LedgerInv, LedgerTypeOK, CeilingsHold
    <3>2. Conserved'
      BY <2>3, Zenon DEF ledgerVars, Conserved
    <3> QED
      BY <3>1, <3>2
  <2> QED
    BY <2>1, <2>2, <2>3 DEF LedgerNext
<1>3. CInv => NoBudgetCreated
  BY ConservedIsNoBudgetCreated
<1> QED
  BY <1>1, <1>2, <1>3, PTL DEF LedgerSpec
=============================================================================
